-------------------------- MODULE PHRingBufferProofs --------------------------
(***************************************************************************)
(* Proofs about PHRingBuffer, for every capacity, request and number of    *)
(* frames.  Positions count on for ever; the invariant is about positions, *)
(* and RingSlots says that positions in reach of each other never share a  *)
(* slot.                                                                   *)
(***************************************************************************)
EXTENDS PHRingBuffer, RingSlots, SequenceTheorems, TLAPS

\* The number of the frame at a position.
Number(k) == accepted - writeFrame + k

\* Outside a call the locals are those of no call.
CallsInOrder ==
  /\ writer.copied <= writer.count /\ reader.copied <= reader.count
  /\ ~writer.busy => writer = Idle
  /\ ~reader.busy => reader = Idle

\* From the consumer's position to the last frame the producer copied, every slot holds the
\* frame of its position.
Content ==
  \A k \in Nat : readFrame <= k /\ k < writeFrame + writer.copied =>
    storage[k % Capacity] = Number(k)

\* What the consumer has copied are the oldest frames.
Taken == destination = [i \in 1 .. reader.copied |-> Number(readFrame + i - 1)]

IInv ==
  /\ TypeOK /\ CountsStayCovered /\ CallsInOrder
  /\ Readable <= accepted
  /\ Content /\ Taken

-----------------------------------------------------------------------------
(* Slots                                                                   *)

\* The two memcpys of a call reach the slots of the positions from its start on.
LEMMA SlotAtIs ==
  ASSUME NEW p \in Nat, NEW i \in 0 .. Capacity - 1
  PROVE  SlotAt(p, i) = (p + i) % Capacity /\ SlotAt(p, i) \in Slot
  BY RingAssumption, WrappedSlot DEF SlotAt, Slot

-----------------------------------------------------------------------------
(* The steps of the producer                                               *)

LEMMA Positive == Capacity \in Nat /\ Capacity > 0 /\ MaxRequest \in Nat /\ MaxFrames \in Nat
  BY RingAssumption

\* The locals of a call, and numbers in place of records.
LEMMA CallTypes ==
  ASSUME IInv
  PROVE  /\ writer = [busy |-> writer.busy, count |-> writer.count, copied |-> writer.copied]
         /\ reader = [busy |-> reader.busy, count |-> reader.count, copied |-> reader.copied]
         /\ writer.busy \in BOOLEAN /\ reader.busy \in BOOLEAN
         /\ writer.count \in Nat /\ writer.copied \in Nat /\ writer.copied <= writer.count
         /\ reader.count \in Nat /\ reader.copied \in Nat /\ reader.copied <= reader.count
         /\ readFrame \in Nat /\ writeFrame \in Nat /\ accepted \in Nat /\ Readable \in Nat
         /\ readFrame + Readable = writeFrame
         /\ Readable + writer.count <= Capacity
         /\ reader.count <= Readable
<1>1. /\ writer \in Call /\ reader \in Call /\ readFrame \in Nat /\ writeFrame \in Nat
      /\ accepted \in Nat /\ 0 <= Readable /\ Readable <= Capacity
  BY DEF IInv, TypeOK, CountsStayCovered
<1>2. /\ writer.count \in 0 .. Capacity /\ writer.copied \in 0 .. Capacity /\ writer.busy \in BOOLEAN
      /\ reader.count \in 0 .. Capacity /\ reader.copied \in 0 .. Capacity /\ reader.busy \in BOOLEAN
  BY <1>1 DEF Call
<1>3. ~writer.busy => writer.count = 0
  BY DEF IInv, CallsInOrder, Idle
<1>4. ~reader.busy => reader.count = 0
  BY DEF IInv, CallsInOrder, Idle
<1>5. Readable \in Nat /\ readFrame + Readable = writeFrame
  BY <1>1 DEF Readable
<1>6. Readable + writer.count <= Capacity /\ reader.count <= Readable
  BY <1>1, <1>2, <1>3, <1>4, <1>5, Positive DEF IInv, CountsStayCovered
<1> QED
  BY <1>1, <1>2, <1>5, <1>6, Positive DEF Call, IInv, CallsInOrder

LEMMA AtMostRange ==
  ASSUME NEW n \in Nat, NEW limit \in Nat
  PROVE  AtMost(n, limit) \in 0 .. limit
  BY DEF AtMost

\* The producer counts on the room there is; reads only add to it.
LEMMA WriteBeginKeeps ==
  ASSUME IInv, NEW n \in 1 .. MaxRequest, WriteBegin(n)
  PROVE  IInv'
<1>1. /\ ~writer.busy /\ writer' = CallOf(AtMost(n, Capacity - Readable))
      /\ UNCHANGED <<storage, readFrame, writeFrame, reader, destination, accepted, received>>
  BY DEF WriteBegin
<1>2. writer.copied = 0 /\ Capacity - Readable \in Nat /\ Readable \in Nat
  BY <1>1, CallTypes, Positive DEF IInv, CallsInOrder, Idle, CountsStayCovered
<1>3. AtMost(n, Capacity - Readable) \in 0 .. Capacity - Readable
  BY <1>2, AtMostRange, Positive
<1>4. /\ writer'.busy /\ writer'.count \in 0 .. Capacity - Readable /\ writer'.copied = 0
      /\ writer' \in Call
  BY <1>1, <1>2, <1>3, Positive DEF CallOf, Call
<1>5. Readable' = Readable
  BY <1>1 DEF Readable
<1>6. TypeOK' /\ CallsInOrder'
  BY <1>1, <1>4, <1>2, Positive DEF IInv, TypeOK, CallsInOrder
<1>7. CountsStayCovered' /\ (Readable <= accepted)'
  BY <1>1, <1>2, <1>4, <1>5, Positive DEF IInv, CountsStayCovered
<1>8. Content' /\ Taken'
  BY <1>1, <1>2, <1>4 DEF IInv, Content, Taken, Number
<1> QED
  BY <1>6, <1>7, <1>8 DEF IInv

\* The frame copied goes to a slot none of the frames there are in.
LEMMA WriteCopyKeeps ==
  ASSUME IInv, WriteCopy
  PROVE  IInv'
<1> DEFINE at == writeFrame + writer.copied
<1>1. /\ writer.busy /\ writer.copied < writer.count
      /\ storage' = [storage EXCEPT ![SlotAt(writeFrame, writer.copied)] = accepted + writer.copied]
      /\ writer' = [writer EXCEPT !.copied = @ + 1]
      /\ UNCHANGED <<readFrame, writeFrame, reader, destination, accepted, received>>
  BY DEF WriteCopy
<1>2. writer.copied \in 0 .. Capacity - 1 /\ at \in Nat
  BY <1>1, CallTypes, Positive
<1>3. SlotAt(writeFrame, writer.copied) = at % Capacity /\ at % Capacity \in Slot
  BY <1>2, CallTypes, SlotAtIs
<1>4. storage' = [storage EXCEPT ![at % Capacity] = Number(at)]
  <2>1. Number(at) = accepted + writer.copied
    BY CallTypes DEF Number
  <2> QED
    BY <1>1, <1>3, <2>1
<1>5. /\ writer'.busy = writer.busy /\ writer'.count = writer.count
      /\ writer'.copied = writer.copied + 1 /\ writer' \in Call
  <2>1. writer' = [busy |-> writer.busy, count |-> writer.count, copied |-> writer.copied + 1]
    BY <1>1, CallTypes
  <2>2. writer.count \in 0 .. Capacity /\ writer.copied + 1 \in 0 .. Capacity
    BY <1>1, CallTypes, Positive
  <2> QED
    BY <2>1, <2>2, CallTypes DEF Call
<1>6. Readable' = Readable
  BY <1>1 DEF Readable
<1>7. Number(at) \in Frame
  BY CallTypes DEF Number, Frame
<1>8. TypeOK'
  BY <1>1, <1>3, <1>4, <1>5, <1>7 DEF IInv, TypeOK
<1>9. CallsInOrder' /\ CountsStayCovered' /\ (Readable <= accepted)'
  BY <1>1, <1>5, <1>6, CallTypes DEF IInv, CallsInOrder, CountsStayCovered
<1>10. Content'
  <2> SUFFICES ASSUME NEW k \in Nat, readFrame <= k, k < at + 1
               PROVE  storage'[k % Capacity] = Number(k)
    BY <1>1, <1>5, CallTypes DEF Content, Number
  <2>1. CASE k = at
    BY <1>3, <1>4, <2>1 DEF IInv, TypeOK
  <2>2. CASE k # at
    <3>1. k < at /\ at < k + Capacity
      BY <1>1, <1>2, <2>2, CallTypes, Positive
    <3>2. k % Capacity # at % Capacity
      BY <1>2, <3>1, SlotsDiffer, RingAssumption
    <3>3. k % Capacity \in Slot
      BY Remainder, RingAssumption DEF Slot
    <3> QED
      BY <1>4, <3>1, <3>2, <3>3 DEF IInv, TypeOK, Content
  <2> QED
    BY <2>1, <2>2
<1>11. Taken'
  BY <1>1 DEF IInv, Taken, Number
<1> QED
  BY <1>8, <1>9, <1>10, <1>11 DEF IInv

\* The releasing store makes the frames copied readable; no frame changes its number.
LEMMA WriteEndKeeps ==
  ASSUME IInv, WriteEnd
  PROVE  IInv'
<1>1. /\ writer.busy /\ writer.copied = writer.count
      /\ writeFrame' = writeFrame + writer.count /\ accepted' = accepted + writer.count
      /\ writer' = Idle /\ UNCHANGED <<storage, readFrame, reader, destination, received>>
  BY DEF WriteEnd
<1>2. writer'.busy = FALSE /\ writer'.count = 0 /\ writer'.copied = 0 /\ writer' \in Call
  BY <1>1, Positive DEF Idle, Call
<1>3. Readable' = Readable + writer.count
  BY <1>1, CallTypes DEF Readable
<1>4. TypeOK'
  BY <1>1, <1>2, CallTypes DEF IInv, TypeOK
<1>5. CallsInOrder' /\ CountsStayCovered' /\ (Readable <= accepted)'
  BY <1>1, <1>2, <1>3, CallTypes, Positive DEF IInv, CallsInOrder, CountsStayCovered
<1>6. \A k \in Nat : Number(k)' = Number(k)
  BY <1>1, CallTypes DEF Number
<1>7. writeFrame' + writer'.copied = writeFrame + writer.copied
  BY <1>1, <1>2, CallTypes
<1>8. Content'
  BY <1>1, <1>6, <1>7 DEF IInv, Content
<1>9. Taken'
  <2>1. \A i \in 1 .. reader.copied : Number(readFrame + i - 1)' = Number(readFrame + i - 1)
    BY <1>1, CallTypes DEF Number
  <2> QED
    BY <1>1, <2>1 DEF IInv, Taken
<1> QED
  BY <1>4, <1>5, <1>8, <1>9 DEF IInv

-----------------------------------------------------------------------------
(* The steps of the consumer, and reset                                    *)

\* The consumer counts on the frames there are; writes only add to them.
LEMMA ReadBeginKeeps ==
  ASSUME IInv, NEW n \in 1 .. MaxRequest, ReadBegin(n)
  PROVE  IInv'
<1>1. /\ ~reader.busy /\ reader' = CallOf(AtMost(n, Readable))
      /\ UNCHANGED <<storage, readFrame, writeFrame, writer, destination, accepted, received>>
  BY DEF ReadBegin
<1>2. reader.copied = 0 /\ Readable \in Nat /\ Readable <= Capacity
  BY <1>1, CallTypes, Positive DEF IInv, CallsInOrder, Idle, CountsStayCovered
<1>3. AtMost(n, Readable) \in 0 .. Readable
  BY <1>2, AtMostRange, Positive
<1>4. /\ reader'.busy /\ reader'.count \in 0 .. Readable /\ reader'.copied = 0
      /\ reader' \in Call
  BY <1>1, <1>2, <1>3, Positive DEF CallOf, Call
<1>5. Readable' = Readable
  BY <1>1 DEF Readable
<1>6. TypeOK' /\ CallsInOrder'
  BY <1>1, <1>4, <1>2, Positive DEF IInv, TypeOK, CallsInOrder
<1>7. CountsStayCovered' /\ (Readable <= accepted)'
  BY <1>1, <1>2, <1>4, <1>5, Positive DEF IInv, CountsStayCovered
<1>8. Content' /\ Taken'
  BY <1>1, <1>2, <1>4 DEF IInv, Content, Taken, Number
<1> QED
  BY <1>6, <1>7, <1>8 DEF IInv

\* A slot the consumer copies from holds the frame of its position.
LEMMA ReadCopyKeeps ==
  ASSUME IInv, ReadCopy
  PROVE  IInv'
<1> DEFINE n == reader.copied
           number == Number(readFrame + n)
<1>1. /\ reader.busy /\ n < reader.count
      /\ destination' = Append(destination, storage[SlotAt(readFrame, n)])
      /\ reader' = [reader EXCEPT !.copied = @ + 1]
      /\ UNCHANGED <<storage, readFrame, writeFrame, writer, accepted, received>>
  BY DEF ReadCopy
<1>2. n \in 0 .. Capacity - 1 /\ n \in Nat /\ readFrame + n \in Nat
  BY <1>1, CallTypes, Positive
<1>3. storage[SlotAt(readFrame, n)] = number
  <2>1. SlotAt(readFrame, n) = (readFrame + n) % Capacity
    BY <1>2, CallTypes, SlotAtIs
  <2>2. readFrame <= readFrame + n /\ readFrame + n < writeFrame + writer.copied
    BY <1>1, <1>2, CallTypes
  <2> QED
    BY <1>2, <2>1, <2>2 DEF IInv, Content
<1>4. number \in Frame
  BY <1>2, CallTypes DEF Number, Frame, IInv
<1>5. /\ reader'.busy = reader.busy /\ reader'.count = reader.count
      /\ reader'.copied = n + 1 /\ reader' \in Call
  <2>1. reader' = [busy |-> reader.busy, count |-> reader.count, copied |-> n + 1]
    BY <1>1, CallTypes
  <2>2. reader.count \in 0 .. Capacity /\ n + 1 \in 0 .. Capacity
    BY <1>1, CallTypes, Positive
  <2> QED
    BY <2>1, <2>2, CallTypes DEF Call
<1>6. Readable' = Readable
  BY <1>1 DEF Readable
<1>7. destination' = [i \in 1 .. n + 1 |-> Number(readFrame + i - 1)] /\ destination' \in Seq(Frame)
  <2>1. destination' = Append(destination, number)
    BY <1>1, <1>3
  <2>2. destination = [i \in 1 .. n |-> Number(readFrame + i - 1)] /\ destination \in Seq(Frame)
    BY DEF IInv, Taken, TypeOK
  <2>3. Number(readFrame + (n + 1) - 1) = number
    BY <1>2, CallTypes
  <2> QED
    BY <1>2, <1>4, <2>1, <2>2, <2>3
<1>8. TypeOK' /\ CallsInOrder' /\ CountsStayCovered' /\ (Readable <= accepted)'
  BY <1>1, <1>2, <1>5, <1>6, <1>7, CallTypes DEF IInv, TypeOK, CallsInOrder, CountsStayCovered
<1>9. Content' /\ Taken'
  BY <1>1, <1>5, <1>7 DEF IInv, Content, Taken, Number
<1> QED
  BY <1>8, <1>9 DEF IInv

\* The releasing store gives the room back.
LEMMA ReadEndKeeps ==
  ASSUME IInv, ReadEnd
  PROVE  IInv'
<1>1. /\ reader.busy /\ reader.copied = reader.count
      /\ readFrame' = readFrame + reader.count /\ received' = destination /\ destination' = <<>>
      /\ reader' = Idle /\ UNCHANGED <<storage, writeFrame, writer, accepted>>
  BY DEF ReadEnd
<1>2. reader'.busy = FALSE /\ reader'.count = 0 /\ reader'.copied = 0 /\ reader' \in Call
  BY <1>1, Positive DEF Idle, Call
<1>3. Readable' = Readable - reader.count
  BY <1>1, CallTypes DEF Readable
<1>4. TypeOK'
  BY <1>1, <1>2, CallTypes DEF IInv, TypeOK
<1>5. CallsInOrder' /\ CountsStayCovered' /\ (Readable <= accepted)'
  BY <1>1, <1>2, <1>3, CallTypes, Positive DEF IInv, CallsInOrder, CountsStayCovered
<1>6. Content'
  BY <1>1, CallTypes DEF IInv, Content, Number
<1>7. Taken'
  BY <1>1, <1>2 DEF Taken
<1> QED
  BY <1>4, <1>5, <1>6, <1>7 DEF IInv

\* With both sides stopped nothing is left to be read.
LEMMA ResetKeeps ==
  ASSUME IInv, Reset
  PROVE  IInv'
<1>1. /\ writer = Idle /\ reader = Idle /\ readFrame' = 0 /\ writeFrame' = 0
      /\ UNCHANGED <<storage, writer, reader, destination, accepted, received>>
  BY DEF Reset, IInv, CallsInOrder
<1>2. Readable' = 0 /\ writer.copied = 0 /\ reader.copied = 0 /\ writer.count = 0 /\ reader.count = 0
      /\ writer.busy = FALSE /\ reader.busy = FALSE
  BY <1>1 DEF Readable, Idle
<1>3. TypeOK'
  BY <1>1 DEF IInv, TypeOK
<1>4. CallsInOrder' /\ CountsStayCovered' /\ (Readable <= accepted)'
  BY <1>1, <1>2, CallTypes, Positive DEF IInv, CallsInOrder, CountsStayCovered
<1>5. Content' /\ Taken'
  BY <1>1, <1>2 DEF IInv, Content, Taken
<1> QED
  BY <1>3, <1>4, <1>5 DEF IInv

LEMMA InitInvariant ==
  ASSUME Init
  PROVE  IInv
<1>1. Readable = 0
  BY DEF Init, Readable
<1>2. writer \in Call /\ reader \in Call
  BY Positive DEF Init, Idle, Call
<1>3. TypeOK
  BY <1>2 DEF Init, TypeOK, Frame, NoFrame
<1>4. CallsInOrder /\ CountsStayCovered /\ Readable <= accepted
  BY <1>1, Positive DEF Init, CallsInOrder, CountsStayCovered, Idle
<1>5. Content /\ Taken
  BY DEF Init, Content, Taken, Idle
<1> QED
  BY <1>3, <1>4, <1>5 DEF IInv

\* Counters, slots and what was copied agree in every state.
THEOREM Inductive == Spec => []IInv
<1>1. Init => IInv
  BY InitInvariant
<1>2. IInv /\ [Next]_vars => IInv'
  <2> SUFFICES ASSUME IInv, [Next]_vars
               PROVE  IInv'
    OBVIOUS
  <2>1. CASE UNCHANGED vars
    BY <2>1 DEF IInv, TypeOK, CountsStayCovered, CallsInOrder, Readable, Content, Taken, Number, vars
  <2> QED
    BY <2>1, WriteBeginKeeps, WriteCopyKeeps, WriteEndKeeps, ReadBeginKeeps, ReadCopyKeeps,
       ReadEndKeeps, ResetKeeps DEF Next
<1> QED
  BY <1>1, <1>2, PTL DEF Spec

\* Every variable has its type.
THEOREM RingTypeCorrect == Spec => []TypeOK
<1>1. IInv => TypeOK
  BY DEF IInv
<1> QED
  BY <1>1, Inductive, PTL

\* The room and the frames a call counted on are there until it ends.
THEOREM CountsCovered == Spec => []CountsStayCovered
<1>1. IInv => CountsStayCovered
  BY DEF IInv
<1> QED
  BY <1>1, Inductive, PTL

\* A slot is never the producer's and the consumer's at once.
THEOREM NoSharedSlot == Spec => []NoDataRace
<1>1. ASSUME IInv
      PROVE  NoDataRace
  <2> SUFFICES ASSUME NEW i \in 0 .. Capacity - 1, i < writer.count,
                      NEW j \in 0 .. Capacity - 1, j < reader.count
               PROVE  SlotAt(writeFrame, i) # SlotAt(readFrame, j)
    BY DEF NoDataRace, Pending
  <2>1. i \in Nat /\ j \in Nat
    BY Positive
  <2>2. /\ readFrame + j \in Nat /\ writeFrame + i \in Nat
        /\ readFrame + j < writeFrame + i /\ writeFrame + i < readFrame + j + Capacity
    BY <1>1, <2>1, CallTypes, Positive
  <2>3. (readFrame + j) % Capacity # (writeFrame + i) % Capacity
    BY <2>2, SlotsDiffer, RingAssumption
  <2>4. /\ SlotAt(writeFrame, i) = (writeFrame + i) % Capacity
        /\ SlotAt(readFrame, j) = (readFrame + j) % Capacity
    BY <1>1, CallTypes, SlotAtIs
  <2> QED
    BY <2>3, <2>4
<1>2. IInv => NoDataRace
  BY <1>1
<1> QED
  BY <1>2, Inductive, PTL

-----------------------------------------------------------------------------
(* Runs of frame numbers                                                   *)

Run(first, n) == [i \in 1 .. n |-> first + i - 1]

LEMMA RunIs ==
  ASSUME NEW a \in Nat, NEW n \in Nat
  PROVE  /\ Run(a, n) \in Seq(Nat) /\ Len(Run(a, n)) = n
         /\ \A i \in 1 .. n : Run(a, n)[i] = a + i - 1
<1>1. \A i \in 1 .. n : a + i - 1 \in Nat
  OBVIOUS
<1>2. Run(a, n) \in [1 .. n -> Nat]
  BY <1>1 DEF Run
<1>3. Run(a, n) \in Seq(Nat) /\ Len(Run(a, n)) = n
  BY <1>2
<1> QED
  BY <1>3 DEF Run

LEMMA RunsJoin ==
  ASSUME NEW a \in Nat, NEW m \in Nat, NEW n \in Nat
  PROVE  Run(a, m) \o Run(a + m, n) = Run(a, m + n)
<1> DEFINE s == Run(a, m)
           t == Run(a + m, n)
           u == Run(a, m + n)
<1>0. a + m \in Nat /\ m + n \in Nat
  OBVIOUS
<1>1. s \in Seq(Nat) /\ Len(s) = m /\ \A i \in 1 .. m : s[i] = a + i - 1
  BY RunIs
<1>2. t \in Seq(Nat) /\ Len(t) = n /\ \A i \in 1 .. n : t[i] = a + m + i - 1
  BY <1>0, RunIs
<1>3. u \in Seq(Nat) /\ Len(u) = m + n /\ \A i \in 1 .. m + n : u[i] = a + i - 1
  BY <1>0, RunIs
<1> HIDE DEF s, t, u
<1>4. s \o t \in Seq(Nat) /\ Len(s \o t) = m + n
  BY <1>1, <1>2, ConcatProperties
<1>5. \A i \in 1 .. m + n : (s \o t)[i] = IF i <= m THEN s[i] ELSE t[i - m]
  BY <1>1, <1>2, ConcatProperties
<1>6. ASSUME NEW i \in 1 .. m + n
      PROVE  (s \o t)[i] = u[i]
  <2>1. CASE i <= m
    BY <1>1, <1>3, <1>5, <2>1
  <2>2. CASE ~(i <= m)
    <3>1. i - m \in 1 .. n
      BY <2>2
    <3>2. t[i - m] = a + m + (i - m) - 1
      BY <1>2, <3>1
    <3>3. (s \o t)[i] = t[i - m]
      BY <1>5, <2>2
    <3>4. a + m + (i - m) - 1 = a + i - 1
      OBVIOUS
    <3>5. u[i] = a + i - 1
      BY <1>3
    <3> QED
      BY <3>2, <3>3, <3>4, <3>5
  <2> QED
    BY <2>1, <2>2
<1>7. s \o t = u
  BY <1>3, <1>4, <1>6, SeqEqual
<1> QED
  BY <1>7 DEF s, t, u

LEMMA RunSplits ==
  ASSUME NEW a \in Nat, NEW m \in Nat, NEW n \in 0 .. m
  PROVE  /\ SubSeq(Run(a, m), 1, n) = Run(a, n)
         /\ SubSeq(Run(a, m), n + 1, m) = Run(a + n, m - n)
<1> DEFINE s == Run(a, m)
<1>1. s \in Seq(Nat) /\ Len(s) = m /\ \A i \in 1 .. m : s[i] = a + i - 1
  BY RunIs
<1> HIDE DEF s
<1>2. SubSeq(s, 1, n) = [i \in 1 .. n |-> s[i]]
  BY <1>1
<1>3. SubSeq(s, n + 1, m) = [i \in 1 .. m - n |-> s[n + i]]
  BY <1>1
<1>4. \A i \in 1 .. n : s[i] = a + i - 1
  BY <1>1
<1>5. \A i \in 1 .. m - n : s[n + i] = a + n + i - 1
  BY <1>1
<1>6. SubSeq(s, 1, n) = Run(a, n)
  BY <1>2, <1>4 DEF Run
<1>7. SubSeq(s, n + 1, m) = Run(a + n, m - n)
  BY <1>3, <1>5 DEF Run
<1> QED
  BY <1>6, <1>7 DEF s

-----------------------------------------------------------------------------
(* The ring buffer implements BoundedFifo                                  *)

Queue == [i \in 1 .. Readable |-> storage[(readFrame + i - 1) % Capacity]]

\* The queue runs from the oldest frame not read to the latest one accepted.
QueueIsRun == Queue = Run(accepted - Readable, Readable)

LEMMA AlwaysRun == Spec => []QueueIsRun
<1>1. ASSUME IInv
      PROVE  QueueIsRun
  <2>1. ASSUME NEW i \in 1 .. Readable
        PROVE  storage[(readFrame + i - 1) % Capacity] = accepted - Readable + i - 1
    <3>1. /\ readFrame + i - 1 \in Nat /\ readFrame <= readFrame + i - 1
          /\ readFrame + i - 1 < writeFrame + writer.copied
      BY <1>1, CallTypes
    <3>2. Number(readFrame + i - 1) = accepted - Readable + i - 1
      BY <1>1, CallTypes DEF Number
    <3> QED
      BY <1>1, <3>1, <3>2 DEF IInv, Content
  <2> QED
    BY <2>1 DEF QueueIsRun, Queue, Run
<1>2. IInv => QueueIsRun
  BY <1>1
<1> QED
  BY <1>2, Inductive, PTL

\* Steps that leave the counters alone leave the queue alone, whatever they copy.
LEMMA QueueStays ==
  ASSUME QueueIsRun, QueueIsRun', UNCHANGED <<readFrame, writeFrame, accepted>>
  PROVE  Queue' = Queue
<1>1. Readable' = Readable
  BY DEF Readable
<1> QED
  BY <1>1 DEF QueueIsRun

\* WriteEnd is Put: the frames copied join the queue at once.
LEMMA WriteEndPuts ==
  ASSUME IInv, QueueIsRun, QueueIsRun', WriteEnd
  PROVE  /\ writer.count \in 0 .. Capacity - Len(Queue)
         /\ Queue' = Queue \o [i \in 1 .. writer.count |-> accepted + i - 1]
         /\ accepted' = accepted + writer.count /\ received' = received
<1> DEFINE n == writer.count
           oldest == accepted - Readable
<1>1. /\ writeFrame' = writeFrame + n /\ accepted' = accepted + n
      /\ readFrame' = readFrame /\ received' = received
  BY DEF WriteEnd
<1>2. /\ n \in Nat /\ Readable \in Nat /\ Readable + n <= Capacity /\ oldest \in Nat
      /\ oldest + Readable = accepted
  BY CallTypes DEF IInv
<1>3. Readable' = Readable + n /\ accepted' - Readable' = oldest
  BY <1>1, <1>2, CallTypes DEF Readable
<1>4. Queue = Run(oldest, Readable) /\ Queue' = Run(oldest, Readable + n)
  BY <1>3 DEF QueueIsRun
<1> HIDE DEF oldest
<1>5. Queue' = Queue \o Run(accepted, n)
  BY <1>2, <1>4, RunsJoin
<1>6. Len(Queue) = Readable
  BY <1>2, <1>4, RunIs
<1> QED
  BY <1>1, <1>2, <1>5, <1>6, Positive DEF Run

\* ReadEnd is Take: what the call copied is the head of the queue.
LEMMA ReadEndTakes ==
  ASSUME IInv, QueueIsRun, QueueIsRun', ReadEnd
  PROVE  /\ reader.count \in 0 .. Len(Queue)
         /\ received' = SubSeq(Queue, 1, reader.count)
         /\ Queue' = SubSeq(Queue, reader.count + 1, Len(Queue))
         /\ accepted' = accepted
<1> DEFINE n == reader.count
           oldest == accepted - Readable
<1>1. /\ readFrame' = readFrame + n /\ accepted' = accepted /\ writeFrame' = writeFrame
      /\ received' = destination /\ reader.copied = n
  BY DEF ReadEnd
<1>2. n \in 0 .. Readable /\ Readable \in Nat /\ oldest \in Nat
  BY CallTypes DEF IInv
<1>3. Readable' = Readable - n /\ accepted' - Readable' = oldest + n
  BY <1>1, <1>2, CallTypes DEF Readable
<1>4. \A i \in 1 .. n : Number(readFrame + i - 1) = oldest + i - 1
  BY <1>2, CallTypes DEF Number
<1>5. received' = Run(oldest, n)
  BY <1>1, <1>4 DEF IInv, Taken, Run
<1>6. Queue = Run(oldest, Readable) /\ Queue' = Run(oldest + n, Readable - n)
  BY <1>3 DEF QueueIsRun
<1> HIDE DEF oldest
<1>7. Len(Queue) = Readable
  BY <1>2, <1>6, RunIs
<1>8. SubSeq(Queue, 1, n) = Run(oldest, n)
  BY <1>2, <1>6, RunSplits
<1>9. SubSeq(Queue, n + 1, Readable) = Run(oldest + n, Readable - n)
  BY <1>2, <1>6, RunSplits
<1> QED
  BY <1>1, <1>2, <1>5, <1>6, <1>7, <1>8, <1>9

\* Every step of the ring buffer is a step of the queue or leaves it alone.
LEMMA StepRefines ==
  ASSUME IInv, QueueIsRun, QueueIsRun', [Next]_vars
  PROVE  [Fifo!Next]_(Fifo!vars)
<1> USE DEF Fifo!vars
<1>0. Queue = [i \in 1 .. Readable |-> storage[(readFrame + i - 1) % Capacity]]
  BY DEF Queue
<1>1. CASE WriteEnd
  <2>1. Fifo!Put
    BY <1>1, WriteEndPuts DEF Fifo!Put, Queue
  <2> QED
    BY <2>1 DEF Fifo!Next
<1>2. CASE ReadEnd
  <2>1. Fifo!Take
    BY <1>2, ReadEndTakes DEF Fifo!Take, Queue
  <2> QED
    BY <2>1 DEF Fifo!Next
<1>3. CASE Reset
  <2>1. Queue' = <<>> /\ UNCHANGED <<accepted, received>>
    <3>1. Readable' = 0
      BY <1>3 DEF Reset, Readable
    <3> QED
      BY <1>3, <3>1 DEF Reset, Queue
  <2> QED
    BY <2>1 DEF Fifo!Next, Fifo!Clear, Queue
<1>4. CASE \/ UNCHANGED vars \/ WriteCopy \/ ReadCopy
           \/ \E n \in 1 .. MaxRequest : WriteBegin(n) \/ ReadBegin(n)
  <2>1. UNCHANGED <<readFrame, writeFrame, accepted, received>>
    BY <1>4 DEF vars, WriteCopy, ReadCopy, WriteBegin, ReadBegin
  <2>2. Queue' = Queue
    BY <2>1, QueueStays
  <2> QED
    BY <2>1, <2>2 DEF Queue
<1> QED
  BY <1>1, <1>2, <1>3, <1>4 DEF Next

\* The ring buffer of two threads without a lock is a bounded queue.
THEOREM RingIsFifo == Spec => ImplementsFifo
<1>1. Init => Fifo!Init
  BY DEF Init, Fifo!Init, Readable
<1>2. IInv /\ QueueIsRun /\ QueueIsRun' /\ [Next]_vars => [Fifo!Next]_(Fifo!vars)
  BY StepRefines
<1> QED
  BY <1>1, <1>2, Inductive, AlwaysRun, PTL DEF Spec, Fifo!Spec, ImplementsFifo

=============================================================================
