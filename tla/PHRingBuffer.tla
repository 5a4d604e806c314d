---------------------------- MODULE PHRingBuffer ----------------------------
(***************************************************************************)
(* The lock-free ring buffer (HushPortRingBuffer/HushPortRingBuffer.c): one *)
(* producer thread calls PHRingBufferWrite, one consumer thread calls      *)
(* PHRingBufferRead, and their steps interleave.                           *)
(*                                                                         *)
(* A call loads the two counters, copies frame by frame and then stores    *)
(* its own counter.  The counter a thread owns changes only under its own  *)
(* stores, so the two loads are one step.  The stores release what was     *)
(* copied before them and the loads acquire it, so a step sees every step  *)
(* before it.  The counters are 64 bits wide and only grow (12 million     *)
(* years at 48 kHz): their overflow is out of the model.                   *)
(*                                                                         *)
(* A frame is its number in the order of acceptance, so that a lost,       *)
(* repeated, reordered or overwritten frame shows in what the consumer     *)
(* receives.                                                               *)
(***************************************************************************)
EXTENDS Integers, Sequences, FiniteSets

CONSTANTS Capacity,    \* frameCapacity
          MaxRequest,  \* bound: the largest frameCount of a call
          MaxFrames    \* bound: frames accepted in a run

ASSUME RingAssumption == /\ Capacity \in Nat \ {0}
                         /\ MaxRequest \in Nat \ {0}
                         /\ MaxFrames \in Nat

VARIABLES storage,     \* slot -> frame, NoFrame where nothing was written yet
          readFrame,
          writeFrame,
          writer,      \* the producer's call: its locals, and the frames copied
          reader,      \* the consumer's call
          destination, \* what the consumer's call has copied so far
          accepted,    \* history: frames accepted by all writes
          received     \* history: what the last read returned

vars == <<storage, readFrame, writeFrame, writer, reader, destination, accepted, received>>

Slot == 0 .. Capacity - 1
NoFrame == -1
Frame == Nat

Idle == [busy |-> FALSE, count |-> 0, copied |-> 0]
CallOf(n) == [busy |-> TRUE, count |-> n, copied |-> 0]
Call == [busy : BOOLEAN, count : 0 .. Capacity, copied : 0 .. Capacity]

\* Frames between the two counters (write - read).
Readable == writeFrame - readFrame

\* The slot of the i-th frame of a transfer from position p: memcpy up to the end
\* of the storage, then a second memcpy from its beginning.
SlotAt(p, i) == LET start == p % Capacity
                    first == Capacity - start
                IN IF i < first THEN start + i ELSE i - first

AtMost(n, limit) == IF n < limit THEN n ELSE limit

TypeOK == /\ storage \in [Slot -> Frame \cup {NoFrame}]
          /\ readFrame \in Nat
          /\ writeFrame \in Nat
          /\ writer \in Call
          /\ reader \in Call
          /\ destination \in Seq(Frame)
          /\ accepted \in Nat
          /\ received \in Seq(Frame)

\* PHRingBufferCreate; malloc leaves the storage uninitialized.
Init == /\ storage = [s \in Slot |-> NoFrame]
        /\ readFrame = 0
        /\ writeFrame = 0
        /\ writer = Idle
        /\ reader = Idle
        /\ destination = <<>>
        /\ accepted = 0
        /\ received = <<>>

-----------------------------------------------------------------------------
(* The producer: PHRingBufferWrite                                         *)

\* Mutant of WriteBegin: one frame more than fits.
WriteBeginOffByOne(n) ==
  /\ ~writer.busy
  /\ writer' = CallOf(AtMost(n, Capacity - Readable + 1))
  /\ accepted + writer'.count <= MaxFrames
  /\ UNCHANGED <<storage, readFrame, writeFrame, reader, destination, accepted, received>>

\* Load both counters and settle how many frames fit.
WriteBegin(n) ==
  /\ ~writer.busy
  /\ writer' = CallOf(AtMost(n, Capacity - Readable))
  /\ accepted + writer'.count <= MaxFrames
  /\ UNCHANGED <<storage, readFrame, writeFrame, reader, destination, accepted, received>>

WriteCopy ==
  /\ writer.busy
  /\ writer.copied < writer.count
  /\ storage' = [storage EXCEPT ![SlotAt(writeFrame, writer.copied)] = accepted + writer.copied]
  /\ writer' = [writer EXCEPT !.copied = @ + 1]
  /\ UNCHANGED <<readFrame, writeFrame, reader, destination, accepted, received>>

\* Mutant of WriteEnd: the counter is stored before the copy is complete.
WriteEndEarly ==
  /\ writer.busy
  /\ writeFrame' = writeFrame + writer.count
  /\ accepted' = accepted + writer.count
  /\ writer' = Idle
  /\ UNCHANGED <<storage, readFrame, reader, destination, received>>

\* The releasing store of writeFrame; the call returns count.
WriteEnd ==
  /\ writer.busy
  /\ writer.copied = writer.count
  /\ writeFrame' = writeFrame + writer.count
  /\ accepted' = accepted + writer.count
  /\ writer' = Idle
  /\ UNCHANGED <<storage, readFrame, reader, destination, received>>

-----------------------------------------------------------------------------
(* The consumer: PHRingBufferRead                                          *)

\* Mutant of ReadBegin: the frames available are not counted.
ReadBeginUncounted(n) ==
  /\ ~reader.busy
  /\ reader' = CallOf(AtMost(n, Capacity))
  /\ UNCHANGED <<storage, readFrame, writeFrame, writer, destination, accepted, received>>

ReadBegin(n) ==
  /\ ~reader.busy
  /\ reader' = CallOf(AtMost(n, Readable))
  /\ UNCHANGED <<storage, readFrame, writeFrame, writer, destination, accepted, received>>

ReadCopy ==
  /\ reader.busy
  /\ reader.copied < reader.count
  /\ destination' = Append(destination, storage[SlotAt(readFrame, reader.copied)])
  /\ reader' = [reader EXCEPT !.copied = @ + 1]
  /\ UNCHANGED <<storage, readFrame, writeFrame, writer, accepted, received>>

\* The releasing store of readFrame; the call returns count.
ReadEnd ==
  /\ reader.busy
  /\ reader.copied = reader.count
  /\ readFrame' = readFrame + reader.count
  /\ received' = destination
  /\ destination' = <<>>
  /\ reader' = Idle
  /\ UNCHANGED <<storage, writeFrame, writer, accepted>>

-----------------------------------------------------------------------------
\* Mutant of Reset: the consumer may be in the middle of a call.
ResetWhileReading == /\ ~writer.busy
                     /\ readFrame' = 0
                     /\ writeFrame' = 0
                     /\ UNCHANGED <<storage, writer, reader, destination, accepted, received>>

\* PHRingBufferReset, only while producer and consumer are stopped.
Reset == /\ ~writer.busy
         /\ ~reader.busy
         /\ readFrame' = 0
         /\ writeFrame' = 0
         /\ UNCHANGED <<storage, writer, reader, destination, accepted, received>>

Next == \/ \E n \in 1 .. MaxRequest : WriteBegin(n) \/ ReadBegin(n)
        \/ WriteCopy
        \/ WriteEnd
        \/ ReadCopy
        \/ ReadEnd
        \/ Reset

Spec == Init /\ [][Next]_vars

-----------------------------------------------------------------------------
(* Properties                                                              *)

\* The slots a call still has to copy.
Pending(p, call) ==
  {SlotAt(p, i) : i \in {j \in 0 .. Capacity - 1 : call.copied <= j /\ j < call.count}}

\* The producer never copies into a slot the consumer is about to copy out of.
NoDataRace == writer.busy /\ reader.busy
              => Pending(writeFrame, writer) \cap Pending(readFrame, reader) = {}

\* A call settled on a frame count from counters that may be stale by now: the
\* room, and the frames, it counted on are there until it ends.
CountsStayCovered == /\ 0 <= Readable /\ Readable <= Capacity
                     /\ writer.busy => Readable + writer.count <= Capacity
                     /\ reader.busy => reader.count <= Readable

\* The ring buffer implements the bounded queue: WriteEnd is Put, ReadEnd is Take,
\* everything else leaves the queue alone.
Fifo == INSTANCE BoundedFifo
          WITH queue <- [i \in 1 .. Readable |-> storage[(readFrame + i - 1) % Capacity]]

ImplementsFifo == Fifo!Spec

=============================================================================
