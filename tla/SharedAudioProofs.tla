-------------------------- MODULE SharedAudioProofs --------------------------
(***************************************************************************)
(* Proofs about SharedAudio, for every capacity, packet size, modulus and  *)
(* bound.  The writer promises the frames of one capacity back from the    *)
(* end of its call; what a read of the same life copies is among them as   *)
(* long as the writer has not come around to it.                           *)
(***************************************************************************)
EXTENDS SharedAudio, RingSlots, SequenceTheorems, TLAPS

\* An open handle belongs to a life, a call to an open handle.
Lives ==
  /\ valid <=> life > 0
  /\ writer.open => valid
  /\ writer.busy => writer.open
  /\ writer.open /\ ~writer.busy => writer.count = 0 /\ writer.copied = 0
  /\ reader.open => reader.openedIn \in 1 .. life
  /\ ~reader.open => reader = ReaderDown
  /\ ~reader.busy => reader.count = 0 /\ reader.copied = 0

\* The calls' counts, and the bound on what the writer has set out to write.
Counts ==
  /\ writer.copied <= writer.count
  /\ writeFrame + writer.count <= MaxFrames
  /\ reader.copied <= reader.count
  /\ Len(destination) = reader.copied

\* One capacity back from the end of the writer's call, up to the last frame copied, every
\* slot holds the frame of its position, even when the writer stopped in the middle.
Content ==
  \A p \in Nat : writeFrame + writer.count <= p + Capacity /\ p < writeFrame + writer.copied =>
    samples[p % Capacity] = [life |-> life, pos |-> p]

IInv == TypeOK /\ Lives /\ Counts /\ Content /\ NeverAheadOfWriter /\ CleanReads

-----------------------------------------------------------------------------
(* Types                                                                   *)

LEMMA Positive ==
  /\ Capacity \in Nat \ {0} /\ FrameMod \in Nat \ {0} /\ PacketFrames \in Nat \ {0}
  /\ MaxWrite \in Nat \ {0} /\ MaxLives \in Nat \ {0} /\ MaxFrames \in Nat
  /\ MaxWrite <= Capacity /\ PacketFrames <= Capacity /\ MaxFrames + Capacity < FrameMod
  BY SharedAudioAssumption

LEMMA SlotAtIs ==
  ASSUME NEW p \in Nat, NEW i \in 0 .. Capacity - 1
  PROVE  SlotAt(p, i) = (p + i) % Capacity /\ SlotAt(p, i) \in Slot
<1>1. Capacity \in Nat \ {0}
  BY Positive
<1> QED
  BY <1>1, WrappedSlot DEF SlotAt, Slot

WriterCall == [open : BOOLEAN, busy : BOOLEAN, count : 0 .. MaxWrite, copied : 0 .. MaxWrite]
ReaderCall == [open : BOOLEAN, busy : BOOLEAN, count : 0 .. PacketFrames,
               copied : 0 .. PacketFrames, readFrame : 0 .. FrameMod - 1,
               from : 0 .. FrameMod - 1, openedIn : 0 .. MaxLives]

LEMMA Types ==
  ASSUME IInv
  PROVE  /\ writer \in WriterCall /\ reader \in ReaderCall
         /\ writer = [open |-> writer.open, busy |-> writer.busy,
                      count |-> writer.count, copied |-> writer.copied]
         /\ writer.open \in BOOLEAN /\ writer.busy \in BOOLEAN
         /\ writer.count \in Nat /\ writer.copied \in Nat
         /\ writer.count <= MaxWrite /\ writer.copied <= writer.count
         /\ reader.open \in BOOLEAN /\ reader.busy \in BOOLEAN
         /\ reader.count \in Nat /\ reader.copied \in Nat
         /\ reader.count <= PacketFrames /\ reader.copied <= reader.count
         /\ reader.readFrame \in Nat /\ reader.readFrame < FrameMod
         /\ reader.from \in Nat /\ reader.from < FrameMod
         /\ reader.openedIn \in Nat /\ life \in Nat /\ life <= MaxLives
         /\ writeFrame \in Nat /\ writeFrame + writer.count <= MaxFrames
<1>1. /\ writer \in WriterCall /\ reader \in ReaderCall /\ writeFrame \in Nat
      /\ life \in Nat /\ life <= MaxLives
  BY Positive DEF IInv, TypeOK, WriterCall, ReaderCall
<1>2. /\ writer.open \in BOOLEAN /\ writer.busy \in BOOLEAN
      /\ writer.count \in 0 .. MaxWrite /\ writer.copied \in 0 .. MaxWrite
      /\ writer = [open |-> writer.open, busy |-> writer.busy,
                   count |-> writer.count, copied |-> writer.copied]
  BY <1>1 DEF WriterCall
<1>3. /\ reader.open \in BOOLEAN /\ reader.busy \in BOOLEAN
      /\ reader.count \in 0 .. PacketFrames /\ reader.copied \in 0 .. PacketFrames
      /\ reader.readFrame \in 0 .. FrameMod - 1 /\ reader.from \in 0 .. FrameMod - 1
      /\ reader.openedIn \in 0 .. MaxLives
  BY <1>1 DEF ReaderCall
<1>4. /\ writer.copied <= writer.count /\ reader.copied <= reader.count
      /\ writeFrame + writer.count <= MaxFrames
  BY DEF IInv, Counts
<1>5. writer.count \in Nat /\ writer.copied \in Nat /\ writer.count <= MaxWrite
  BY <1>2, Positive
<1>6. /\ reader.count \in Nat /\ reader.copied \in Nat /\ reader.count <= PacketFrames
      /\ reader.readFrame \in Nat /\ reader.readFrame < FrameMod
      /\ reader.from \in Nat /\ reader.from < FrameMod /\ reader.openedIn \in Nat
  BY <1>3, Positive
<1> QED
  BY <1>1, <1>2, <1>3, <1>4, <1>5, <1>6

LEMMA InitInvariant ==
  ASSUME Init
  PROVE  IInv
<1>1. /\ writer.open = FALSE /\ writer.busy = FALSE /\ writer.count = 0 /\ writer.copied = 0
      /\ reader = ReaderDown /\ reader.open = FALSE /\ reader.busy = FALSE /\ reader.count = 0
      /\ reader.copied = 0 /\ reader.openedIn = 0
  BY DEF Init, WriterDown, ReaderDown
<1>2. TypeOK
  <2>1. samples \in [Slot -> Frame] /\ destination \in Seq(Frame)
    BY DEF Init, Frame
  <2>2. writer \in WriterCall
    <3>1. 0 \in 0 .. MaxWrite
      BY Positive
    <3> QED
      BY <3>1 DEF Init, WriterDown, WriterCall
  <2>3. reader \in ReaderCall
    BY Positive DEF Init, ReaderDown, ReaderCall
  <2>4. writeFrame \in 0 .. MaxFrames /\ life \in 0 .. MaxLives /\ valid \in BOOLEAN
    <3>1. writeFrame = 0 /\ life = 0
      BY DEF Init
    <3>2. valid \in BOOLEAN
      BY DEF Init
    <3> QED
      BY <3>1, <3>2, Positive
  <2> QED
    BY <2>1, <2>2, <2>3, <2>4 DEF TypeOK, WriterCall, ReaderCall
<1>3. Lives /\ Counts
  BY <1>1, Positive DEF Init, Lives, Counts
<1>4. Content /\ NeverAheadOfWriter /\ CleanReads
  BY <1>1, Positive DEF Init, Content, NeverAheadOfWriter, CleanReads
<1> QED
  BY <1>2, <1>3, <1>4 DEF IInv

-----------------------------------------------------------------------------
(* The steps of the writer                                                 *)

\* A new life: no reader is of it, and nothing is promised yet.
LEMMA OpenWriterKeeps ==
  ASSUME IInv, OpenWriter
  PROVE  IInv'
<1>1. /\ life < MaxLives /\ writeFrame' = 0 /\ valid' = TRUE /\ life' = life + 1
      /\ samples' = IF valid THEN samples ELSE [s \in Slot |-> Silence]
      /\ reader' = reader /\ destination' = destination
  BY DEF OpenWriter
<1>2. /\ writer'.open = TRUE /\ writer'.busy = FALSE /\ writer'.count = 0 /\ writer'.copied = 0
      /\ writer' \in WriterCall
  <2>1. writer' = [open |-> TRUE, busy |-> FALSE, count |-> 0, copied |-> 0]
    BY DEF OpenWriter, WriterDown
  <2>2. 0 \in 0 .. MaxWrite
    BY Positive
  <2> QED
    BY <2>1, <2>2 DEF WriterCall
<1>3. ~SameLife' /\ (reader.open => reader.openedIn \in 1 .. life')
  BY <1>1, Types DEF IInv, Lives, SameLife, ReaderDown
<1>4. TypeOK'
  <2>1. samples' \in [Slot -> Frame]
    BY <1>1 DEF IInv, TypeOK, Frame
  <2> QED
    BY <1>1, <1>2, <2>1, Types, Positive DEF IInv, TypeOK, WriterCall, ReaderCall
<1>5. Lives' /\ Counts'
  BY <1>1, <1>2, <1>3, Types, Positive DEF IInv, Lives, Counts
<1>6. Content'
  BY <1>1, <1>2 DEF Content
<1>7. NeverAheadOfWriter' /\ CleanReads'
  BY <1>3 DEF NeverAheadOfWriter, CleanReads
<1> QED
  BY <1>4, <1>5, <1>6, <1>7 DEF IInv

\* The writer says where its call will end and with that gives up the frames beyond one
\* capacity back.
LEMMA WriteBeginKeeps ==
  ASSUME IInv, NEW n \in 1 .. MaxWrite, WriteBegin(n)
  PROVE  IInv'
<1>1. /\ writer.open /\ ~writer.busy /\ writeFrame + n <= MaxFrames
      /\ UNCHANGED <<samples, writeFrame, valid, life, reader, destination>>
  BY DEF WriteBegin
<1>2. /\ writer'.open /\ writer'.busy /\ writer'.count = n /\ writer'.copied = 0
      /\ writer' \in WriterCall
  <2>1. writer' = [open |-> writer.open, busy |-> TRUE, count |-> n, copied |-> 0]
    BY Types DEF WriteBegin
  <2>2. 0 \in 0 .. MaxWrite
    BY Positive
  <2> QED
    BY <1>1, <2>1, <2>2, Types DEF WriterCall
<1>3. writer.count = 0 /\ writer.copied = 0 /\ n \in Nat
  BY <1>1, Positive DEF IInv, Lives
<1>4. TypeOK'
  BY <1>1, <1>2 DEF IInv, TypeOK, WriterCall
<1>5. Lives' /\ Counts'
  BY <1>1, <1>2, <1>3, Types DEF IInv, Lives, Counts
<1>6. Content'
  BY <1>1, <1>2, <1>3, Types, Positive DEF IInv, Content
<1>7. NeverAheadOfWriter' /\ (SameLife' <=> SameLife)
  BY <1>1 DEF IInv, NeverAheadOfWriter, SameLife
<1>8. NotOvertaken' => NotOvertaken
  BY <1>1, <1>2, <1>3, Types, Positive DEF NotOvertaken
<1>9. CleanReads'
  BY <1>1, <1>7, <1>8 DEF IInv, CleanReads
<1> QED
  BY <1>4, <1>5, <1>6, <1>7, <1>9 DEF IInv

\* The frame copied takes the slot of a frame already given up.
LEMMA WriteCopyKeeps ==
  ASSUME IInv, WriteCopy
  PROVE  IInv'
<1> DEFINE at == writeFrame + writer.copied
           frame == [life |-> life, pos |-> at]
<1>1. /\ writer.busy /\ writer.copied < writer.count
      /\ samples' = [samples EXCEPT ![SlotAt(writeFrame, writer.copied)] = frame]
      /\ writer' = [writer EXCEPT !.copied = @ + 1]
      /\ UNCHANGED <<writeFrame, valid, life, reader, destination>>
  BY DEF WriteCopy
<1>2. writer.copied \in 0 .. Capacity - 1 /\ at \in Nat /\ at < MaxFrames
  BY <1>1, Types, Positive
<1>3. SlotAt(writeFrame, writer.copied) = at % Capacity /\ at % Capacity \in Slot
  BY <1>2, Types, SlotAtIs
<1>4. /\ writer'.open = writer.open /\ writer'.busy = writer.busy
      /\ writer'.count = writer.count /\ writer'.copied = writer.copied + 1
      /\ writer' \in WriterCall
  <2>1. writer' = [open |-> writer.open, busy |-> writer.busy,
                   count |-> writer.count, copied |-> writer.copied + 1]
    BY <1>1, Types
  <2>2. writer.count \in 0 .. MaxWrite /\ writer.copied + 1 \in 0 .. MaxWrite
    BY <1>1, Types, Positive
  <2> QED
    BY <2>1, <2>2, Types DEF WriterCall
<1>5. TypeOK'
  <2>1. life \in 1 .. MaxLives
    BY <1>1, Types DEF IInv, Lives
  <2>2. frame \in Frame
    BY <1>2, <2>1, Positive DEF Frame
  <2>3. samples' \in [Slot -> Frame]
    BY <1>1, <2>2 DEF IInv, TypeOK
  <2> QED
    BY <1>1, <1>4, <2>3 DEF IInv, TypeOK, WriterCall
<1>6. Lives' /\ Counts'
  BY <1>1, <1>4, Types DEF IInv, Lives, Counts
<1>7. Content'
  <2> SUFFICES ASSUME NEW p \in Nat, writeFrame + writer.count <= p + Capacity, p < at + 1
               PROVE  samples'[p % Capacity] = [life |-> life, pos |-> p]
    BY <1>1, <1>4, Types DEF Content
  <2>1. CASE p = at
    BY <1>1, <1>3, <2>1 DEF IInv, TypeOK
  <2>2. CASE p # at
    <3>1. p < at /\ at < p + Capacity
      BY <1>1, <1>2, <2>2, Types, Positive
    <3>2. p % Capacity # at % Capacity
      BY <1>2, <3>1, SlotsDiffer, Positive
    <3>3. p % Capacity \in Slot
      BY Remainder, Positive DEF Slot
    <3> QED
      BY <1>1, <1>3, <3>1, <3>2, <3>3 DEF IInv, TypeOK, Content
  <2> QED
    BY <2>1, <2>2
<1>8. NeverAheadOfWriter' /\ (SameLife' <=> SameLife) /\ (NotOvertaken' <=> NotOvertaken)
  BY <1>1, <1>4 DEF IInv, NeverAheadOfWriter, SameLife, NotOvertaken
<1>9. CleanReads'
  BY <1>1, <1>8 DEF IInv, CleanReads
<1> QED
  BY <1>5, <1>6, <1>7, <1>8, <1>9 DEF IInv

LEMMA WriteEndKeeps ==
  ASSUME IInv, WriteEnd
  PROVE  IInv'
<1>1. /\ writer.busy /\ writer.copied = writer.count
      /\ writeFrame' = writeFrame + writer.count
      /\ UNCHANGED <<samples, valid, life, reader, destination>>
  BY DEF WriteEnd
<1>2. /\ writer'.open = TRUE /\ writer'.busy = FALSE /\ writer'.count = 0 /\ writer'.copied = 0
      /\ writer' \in WriterCall
  <2>1. writer' = [open |-> TRUE, busy |-> FALSE, count |-> 0, copied |-> 0]
    BY DEF WriteEnd, WriterDown
  <2>2. 0 \in 0 .. MaxWrite
    BY Positive
  <2> QED
    BY <2>1, <2>2 DEF WriterCall
<1>3. writeFrame' + writer'.count = writeFrame + writer.count
      /\ writeFrame' + writer'.copied = writeFrame + writer.copied
  BY <1>1, <1>2, Types
<1>4. TypeOK'
  BY <1>1, <1>2, Types DEF IInv, TypeOK, WriterCall
<1>5. Lives' /\ Counts'
  BY <1>1, <1>2, <1>3, Types DEF IInv, Lives, Counts
<1>6. Content'
  BY <1>1, <1>3 DEF IInv, Content
<1>7. NeverAheadOfWriter' /\ (SameLife' <=> SameLife)
  BY <1>1, Types DEF IInv, NeverAheadOfWriter, SameLife
<1>8. NotOvertaken' => NotOvertaken
  BY <1>1, <1>2, <1>3, Types DEF NotOvertaken
<1>9. CleanReads'
  BY <1>1, <1>7, <1>8 DEF IInv, CleanReads
<1> QED
  BY <1>4, <1>5, <1>6, <1>7, <1>9 DEF IInv

\* Nothing in the file changes when the writer stops, and a call cut short gives nothing back.
LEMMA StopWriterKeeps ==
  ASSUME IInv, StopWriter
  PROVE  IInv'
<1>1. UNCHANGED <<samples, writeFrame, valid, life, reader, destination>>
  BY DEF StopWriter
<1>2. /\ writer'.open = FALSE /\ writer'.busy = FALSE /\ writer'.count = writer.count
      /\ writer'.copied = writer.copied /\ writer' \in WriterCall
  BY Types DEF StopWriter, WriterCall
<1>3. TypeOK'
  BY <1>1, <1>2 DEF IInv, TypeOK, WriterCall
<1>4. Lives' /\ Counts' /\ Content'
  BY <1>1, <1>2 DEF IInv, Lives, Counts, Content
<1>5. NeverAheadOfWriter' /\ CleanReads'
  BY <1>1, <1>2 DEF IInv, NeverAheadOfWriter, CleanReads, SameLife, NotOvertaken
<1> QED
  BY <1>3, <1>4, <1>5 DEF IInv

-----------------------------------------------------------------------------
(* The steps of the reader                                                 *)

LEMMA Small ==
  ASSUME NEW x \in Nat, x < FrameMod
  PROVE  x % FrameMod = x
<1>1. FrameMod \in Nat \ {0} /\ x \in Int /\ 0 <= x
  BY Positive
<1> QED
  BY <1>1, Remainder

\* Where a read starts is a position, in whatever life.
LEMMA ReadFromType ==
  ASSUME IInv
  PROVE  /\ ReadFrom \in 0 .. FrameMod - 1
         /\ Available(ReadFrom) \in Nat
<1>1. (writeFrame - Capacity) % FrameMod \in 0 .. FrameMod - 1
  BY Types, Positive, Remainder
<1>2. reader.readFrame \in 0 .. FrameMod - 1
  BY Types, Positive
<1>3. ReadFrom \in 0 .. FrameMod - 1
  BY <1>1, <1>2 DEF ReadFrom
<1>4. ReadFrom \in Int
  BY <1>3, Positive
<1> HIDE DEF ReadFrom
<1>5. (writeFrame - ReadFrom) % FrameMod \in 0 .. FrameMod - 1
  BY <1>4, Types, Positive, Remainder
<1> QED
  BY <1>3, <1>5, Positive DEF Available

\* In the reader's own life the modulus does nothing: a read starts at or ahead of the reader's
\* position and finds as many frames as the writer is ahead.
LEMMA ReadFromInLife ==
  ASSUME IInv, reader.open, SameLife
  PROVE  /\ reader.readFrame <= ReadFrom /\ ReadFrom <= writeFrame
         /\ Available(ReadFrom) = writeFrame - ReadFrom
<1>1. /\ reader.readFrame <= writeFrame /\ reader.readFrame \in Nat /\ writeFrame \in Nat
      /\ writeFrame < FrameMod
  BY Types, Positive DEF IInv, NeverAheadOfWriter
<1>2. (writeFrame - reader.readFrame) % FrameMod = writeFrame - reader.readFrame
  <2>1. writeFrame - reader.readFrame \in Nat /\ writeFrame - reader.readFrame < FrameMod
    BY <1>1, Positive
  <2> QED
    BY <2>1, Small
<1>3. reader.readFrame <= ReadFrom /\ ReadFrom <= writeFrame /\ ReadFrom \in Nat
  <2>1. CASE writeFrame - reader.readFrame > Capacity
    <3>1. (writeFrame - Capacity) % FrameMod = writeFrame - Capacity
      <4>1. writeFrame - Capacity \in Nat /\ writeFrame - Capacity < FrameMod
        BY <1>1, <2>1, Positive
      <4> QED
        BY <4>1, Small
    <3>2. ReadFrom = writeFrame - Capacity
      BY <1>2, <2>1, <3>1 DEF ReadFrom
    <3> QED
      BY <1>1, <2>1, <3>2, Positive
  <2>2. CASE ~(writeFrame - reader.readFrame > Capacity)
    BY <1>1, <1>2, <2>2 DEF ReadFrom
  <2> QED
    BY <2>1, <2>2
<1> HIDE DEF ReadFrom
<1>4. (writeFrame - ReadFrom) % FrameMod = writeFrame - ReadFrom
  <2>1. writeFrame - ReadFrom \in Nat /\ writeFrame - ReadFrom < FrameMod
    BY <1>1, <1>3, Positive
  <2> QED
    BY <2>1, Small
<1> QED
  BY <1>3, <1>4 DEF Available

\* A read sets out for frames that are there.
LEMMA ReadBeginKeeps ==
  ASSUME IInv, ReadBegin
  PROVE  IInv'
<1> DEFINE n == AtMost(Available(ReadFrom), PacketFrames)
<1>1. /\ reader.open /\ ~reader.busy /\ Available(ReadFrom) > 0
      /\ reader' = [reader EXCEPT !.busy = TRUE, !.from = ReadFrom, !.count = n, !.copied = 0]
      /\ UNCHANGED <<samples, writeFrame, valid, life, writer, destination>>
  BY DEF ReadBegin
<1>2. n \in 0 .. PacketFrames /\ n <= Available(ReadFrom)
  BY ReadFromType, Positive DEF AtMost
<1> HIDE DEF n
<1>3. 0 \in 0 .. PacketFrames /\ ReadFrom \in 0 .. FrameMod - 1
  BY ReadFromType, Positive
<1>4. /\ reader'.open = reader.open /\ reader'.busy = TRUE /\ reader'.count = n /\ reader'.copied = 0
      /\ reader'.readFrame = reader.readFrame /\ reader'.from = ReadFrom
      /\ reader'.openedIn = reader.openedIn /\ reader' \in ReaderCall
  BY <1>1, <1>2, <1>3, Types DEF ReaderCall
<1>5. Len(destination) = 0
  BY <1>1 DEF IInv, Counts, Lives
<1>6. TypeOK'
  BY <1>1, <1>4 DEF IInv, TypeOK, ReaderCall
<1>7. Lives' /\ Content'
  BY <1>1, <1>4 DEF IInv, Lives, Content
<1>8. Counts'
  BY <1>1, <1>2, <1>4, <1>5, Positive DEF IInv, Counts
<1>9. SameLife' <=> SameLife
  BY <1>1, <1>4 DEF SameLife
<1>10. NeverAheadOfWriter'
  <2> SUFFICES ASSUME SameLife
               PROVE  /\ reader.readFrame <= writeFrame
                      /\ reader.readFrame <= ReadFrom /\ ReadFrom + n <= writeFrame
    BY <1>1, <1>4, <1>9 DEF NeverAheadOfWriter
  <2>1. ReadFrom \in Nat /\ n \in Nat /\ Available(ReadFrom) = writeFrame - ReadFrom
    BY <1>1, <1>2, ReadFromType, ReadFromInLife, Positive
  <2> QED
    BY <1>1, <1>2, <2>1, ReadFromInLife, Types
<1>11. CleanReads'
  BY <1>1, <1>5 DEF CleanReads
<1> QED
  BY <1>6, <1>7, <1>8, <1>10, <1>11 DEF IInv

\* A frame of the read is below the writer's counter and, unless the writer has come around to
\* it, within the capacity the writer promises.
LEMMA ReadCopyKeeps ==
  ASSUME IInv, ReadCopy
  PROVE  IInv'
<1> DEFINE k == reader.copied
           frame == samples[SlotAt(reader.from, k)]
<1>1. /\ reader.busy /\ k < reader.count
      /\ destination' = Append(destination, frame)
      /\ reader' = [reader EXCEPT !.copied = @ + 1]
      /\ UNCHANGED <<samples, writeFrame, valid, life, writer>>
  BY DEF ReadCopy
<1>2. k \in 0 .. Capacity - 1 /\ k \in Nat /\ reader.from + k \in Nat /\ k + 1 \in 0 .. PacketFrames
  <2>1. /\ k \in Nat /\ k < reader.count /\ reader.count \in Nat /\ reader.count <= PacketFrames
        /\ reader.from \in Nat
    BY <1>1, Types
  <2> QED
    BY <2>1, Positive
<1>3. SlotAt(reader.from, k) = (reader.from + k) % Capacity /\ SlotAt(reader.from, k) \in Slot
  BY <1>2, Types, SlotAtIs
<1>4. frame \in Frame /\ destination \in Seq(Frame) /\ Len(destination) = k
  BY <1>3 DEF IInv, TypeOK, Counts
<1> HIDE DEF frame
<1>5. /\ destination' \in Seq(Frame) /\ Len(destination') = k + 1
      /\ \A i \in 1 .. k : destination'[i] = destination[i]
      /\ destination'[k + 1] = frame
  BY <1>1, <1>2, <1>4
<1>6. reader.open
  BY <1>1 DEF IInv, Lives, ReaderDown
<1>7. /\ reader'.open = reader.open /\ reader'.busy = reader.busy /\ reader'.count = reader.count
      /\ reader'.copied = k + 1 /\ reader'.readFrame = reader.readFrame
      /\ reader'.from = reader.from /\ reader'.openedIn = reader.openedIn
      /\ reader' \in ReaderCall
  BY <1>1, <1>2, Types DEF ReaderCall
<1>8. TypeOK'
  BY <1>1, <1>5, <1>7 DEF IInv, TypeOK, ReaderCall
<1>9. Lives' /\ Content' /\ NeverAheadOfWriter'
  <2>1. Lives'
    BY <1>1, <1>6, <1>7 DEF IInv, Lives
  <2>2. Content'
    BY <1>1 DEF IInv, Content
  <2>3. NeverAheadOfWriter'
    BY <1>1, <1>7 DEF IInv, NeverAheadOfWriter, SameLife
  <2> QED
    BY <2>1, <2>2, <2>3
<1>10. Counts'
  BY <1>1, <1>2, <1>5, <1>7, Types DEF IInv, Counts
<1>11. CleanReads'
  <2> SUFFICES ASSUME SameLife, NotOvertaken, NEW i \in 1 .. k + 1
               PROVE  destination'[i] = [life |-> life, pos |-> reader.from + i - 1]
    BY <1>1, <1>5, <1>7 DEF CleanReads, SameLife, NotOvertaken
  <2>1. CASE i \in 1 .. k
    BY <1>1, <1>4, <1>5, <2>1 DEF IInv, CleanReads
  <2>2. CASE i = k + 1
    <3>2. /\ reader.from + k < writeFrame + writer.copied
          /\ writeFrame + writer.count <= reader.from + k + Capacity
      <4>1. reader.from + reader.count <= writeFrame
        BY <1>1, <1>6 DEF IInv, NeverAheadOfWriter
      <4>2. writeFrame + writer.count - reader.from <= Capacity /\ k < reader.count
        BY <1>1 DEF NotOvertaken
      <4>3. /\ k \in Nat /\ reader.from \in Nat /\ reader.count \in Nat /\ writeFrame \in Nat
            /\ writer.copied \in Nat /\ writer.count \in Nat /\ Capacity \in Nat
        BY Types, Positive
      <4> QED
        BY <4>1, <4>2, <4>3
    <3>3. frame = [life |-> life, pos |-> reader.from + k]
      BY <1>2, <1>3, <3>2 DEF IInv, Content, frame
    <3>4. reader.from + i - 1 = reader.from + k
      BY <1>2, <2>2, Types
    <3> QED
      BY <1>5, <2>2, <3>3, <3>4
  <2> QED
    BY <1>2, <2>1, <2>2
<1> QED
  BY <1>8, <1>9, <1>10, <1>11 DEF IInv

LEMMA ReadEndKeeps ==
  ASSUME IInv, ReadEnd
  PROVE  IInv'
<1> DEFINE to == (reader.from + reader.count) % FrameMod
<1>1. /\ reader.busy
      /\ reader' = [reader EXCEPT !.busy = FALSE, !.count = 0, !.copied = 0, !.from = 0,
                                  !.readFrame = to]
      /\ destination' = <<>>
      /\ UNCHANGED <<samples, writeFrame, valid, life, writer>>
  BY DEF ReadEnd
<1>2. to \in 0 .. FrameMod - 1
  BY Types, Positive, Remainder
<1>3. SameLife => to <= writeFrame
  <2> SUFFICES ASSUME SameLife
               PROVE  to <= writeFrame
    OBVIOUS
  <2>0. reader.open
    BY <1>1 DEF IInv, Lives, ReaderDown
  <2>1. reader.from + reader.count <= writeFrame
    BY <1>1, <2>0 DEF IInv, NeverAheadOfWriter
  <2>2. reader.from + reader.count \in Nat /\ reader.from + reader.count < FrameMod
    <3>1. /\ reader.from \in Nat /\ reader.count \in Nat /\ writeFrame \in Nat
          /\ writeFrame + writer.count <= MaxFrames /\ writer.count \in Nat
      BY Types
    <3> QED
      BY <2>1, <3>1, Positive
  <2>3. to = reader.from + reader.count
    BY <2>2, Small
  <2> QED
    BY <2>1, <2>3
<1> HIDE DEF to
<1>4. 0 \in 0 .. PacketFrames /\ 0 \in 0 .. FrameMod - 1
  BY Positive
<1>5. /\ reader'.open = reader.open /\ reader'.busy = FALSE /\ reader'.count = 0 /\ reader'.copied = 0
      /\ reader'.readFrame = to /\ reader'.openedIn = reader.openedIn
      /\ reader' \in ReaderCall
  BY <1>1, <1>2, <1>4, Types DEF ReaderCall
<1>6. TypeOK'
  BY <1>1, <1>5 DEF IInv, TypeOK, ReaderCall
<1>7. Lives' /\ Content'
  BY <1>1, <1>5 DEF IInv, Lives, Content, ReaderDown
<1>8. Counts'
  BY <1>1, <1>5 DEF IInv, Counts
<1>9. NeverAheadOfWriter' /\ CleanReads'
  BY <1>1, <1>3, <1>5 DEF NeverAheadOfWriter, CleanReads, SameLife
<1> QED
  BY <1>6, <1>7, <1>8, <1>9 DEF IInv

\* Opening takes the writer's position in the writer's life, closing forgets both.
LEMMA HandleKeeps ==
  ASSUME IInv, OpenReader \/ CloseReader
  PROVE  IInv'
<1>1. UNCHANGED <<samples, writeFrame, valid, life, writer>>
  BY DEF OpenReader, CloseReader
<1>2. destination' = <<>> /\ Len(destination') = 0
  <2>1. CASE OpenReader
    <3>1. reader.copied = 0
      BY <2>1 DEF OpenReader, IInv, Lives, ReaderDown
    <3>2. destination \in Seq(Frame) /\ Len(destination) = 0
      BY <3>1 DEF IInv, TypeOK, Counts
    <3> QED
      BY <2>1, <3>2, EmptySeq DEF OpenReader
  <2>2. CASE CloseReader
    BY <2>2 DEF CloseReader
  <2> QED
    BY <2>1, <2>2
<1>3. /\ reader'.busy = FALSE /\ reader'.count = 0 /\ reader'.copied = 0
      /\ reader'.open => reader'.readFrame = writeFrame /\ reader'.openedIn = life /\ valid
      /\ ~reader'.open => reader' = ReaderDown
      /\ reader' \in ReaderCall
  <2>1. /\ 0 \in 0 .. PacketFrames /\ 0 \in 0 .. FrameMod - 1 /\ 0 \in 0 .. MaxLives
        /\ writeFrame \in 0 .. FrameMod - 1 /\ life \in 0 .. MaxLives
    BY Types, Positive
  <2>2. CASE OpenReader
    <3>1. reader' = [open |-> TRUE, busy |-> FALSE, count |-> 0, copied |-> 0,
                     readFrame |-> writeFrame, from |-> 0, openedIn |-> life] /\ valid
      BY <2>2 DEF OpenReader, ReaderDown
    <3> QED
      BY <2>1, <3>1 DEF ReaderCall
  <2>3. CASE CloseReader
    <3>1. reader' = ReaderDown
      BY <2>3 DEF CloseReader
    <3> QED
      BY <2>1, <3>1 DEF ReaderCall, ReaderDown
  <2> QED
    BY <2>2, <2>3
<1>4. TypeOK'
  BY <1>1, <1>2, <1>3 DEF IInv, TypeOK, ReaderCall
<1>5. Lives' /\ Content'
  BY <1>1, <1>3, Types DEF IInv, Lives, Content
<1>6. Counts'
  BY <1>1, <1>2, <1>3 DEF IInv, Counts
<1>7. NeverAheadOfWriter' /\ CleanReads'
  BY <1>1, <1>3, Types DEF NeverAheadOfWriter, CleanReads
<1> QED
  BY <1>4, <1>5, <1>6, <1>7 DEF IInv

-----------------------------------------------------------------------------
(* Theorems                                                                *)

\* Handles, counters, slots and copies agree in every state.
THEOREM Inductive == Spec => []IInv
<1>1. Init => IInv
  BY InitInvariant
<1>2. IInv /\ [Next]_vars => IInv'
  <2> SUFFICES ASSUME IInv, [Next]_vars
               PROVE  IInv'
    OBVIOUS
  <2>1. CASE UNCHANGED vars
    BY <2>1 DEF IInv, TypeOK, Lives, Counts, Content, NeverAheadOfWriter, CleanReads, SameLife,
                NotOvertaken, vars
  <2> QED
    BY <2>1, OpenWriterKeeps, WriteBeginKeeps, WriteCopyKeeps, WriteEndKeeps, StopWriterKeeps,
       HandleKeeps, ReadBeginKeeps, ReadCopyKeeps, ReadEndKeeps DEF Next
<1> QED
  BY <1>1, <1>2, PTL DEF Spec

\* Every variable has its type.
THEOREM FileTypeCorrect == Spec => []TypeOK
<1>1. IInv => TypeOK
  BY DEF IInv
<1> QED
  BY <1>1, Inductive, PTL

\* The reader's position never passes the writer's while the writer it opened with is the last.
THEOREM ReaderStaysBehind == Spec => []NeverAheadOfWriter
<1>1. IInv => NeverAheadOfWriter
  BY DEF IInv
<1> QED
  BY <1>1, Inductive, PTL

\* A read that is neither lapped nor outlived copies what it set out for.
THEOREM ReadsAreClean == Spec => []CleanReads
<1>1. IInv => CleanReads
  BY DEF IInv
<1> QED
  BY <1>1, Inductive, PTL

=============================================================================
