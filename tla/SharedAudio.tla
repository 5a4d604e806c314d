----------------------------- MODULE SharedAudio -----------------------------
(***************************************************************************)
(* The memory-mapped file between the HAL driver, in coreaudiod, and the   *)
(* Mac app (HushPortRingBuffer/HushPortSharedAudio.c).  The driver opens   *)
(* it once as the writer and appends what Core Audio renders; each stream  *)
(* session opens it as a reader (SharedAudioCapture) and takes one packet  *)
(* of frames at a time.  Unlike PHRingBuffer the writer never looks at the *)
(* reader: it overwrites frames not read yet, and the reader notices only  *)
(* by comparing the counters when a read begins.                           *)
(*                                                                         *)
(* Either process may stop at any step and start again, and the file stays *)
(* (coreaudiod restarted by the driver's installer, the app relaunched).   *)
(*                                                                         *)
(* A frame is the life of the writer that wrote it and its position in     *)
(* that life.  Frame copies are the atomic steps of a memcpy.  The reader's *)
(* arithmetic is modulo FrameMod (2^64), which Capacity does not divide.    *)
(* CatchUp is called from nowhere and is left out; a HAL buffer never      *)
(* exceeds the capacity, so the writer's skip is left out too.             *)
(***************************************************************************)
EXTENDS Integers, Sequences, FiniteSets

CONSTANTS Capacity,      \* capacityFrames, 48000
          FrameMod,      \* 2^64
          PacketFrames,  \* framesPerPacket, 240
          MaxWrite,      \* bound: frames of one HAL buffer
          MaxFrames,     \* bound: frames written in one life of the writer
          MaxLives       \* bound: times the writer is started

ASSUME SharedAudioAssumption ==
  /\ {Capacity, FrameMod, PacketFrames, MaxWrite, MaxLives} \subseteq Nat \ {0}
  /\ MaxFrames \in Nat
  /\ MaxWrite <= Capacity
  /\ PacketFrames <= Capacity
  /\ MaxFrames + Capacity < FrameMod

VARIABLES samples,      \* slot -> frame, in the file
          writeFrame,   \* in the file
          valid,        \* magic and version are in the file
          life,         \* how many times the writer was started
          writer,       \* the driver's WriteFloat32 call
          reader,       \* the app's handle and its ReadFloat32 call
          destination   \* what that call has copied

vars == <<samples, writeFrame, valid, life, writer, reader, destination>>

Slot == 0 .. Capacity - 1
Silence == [life |-> 0, pos |-> 0]
Frame == [life : 1 .. MaxLives, pos : 0 .. MaxFrames] \cup {Silence}

WriterDown == [open |-> FALSE, busy |-> FALSE, count |-> 0, copied |-> 0]
\* openedIn is the writer's life in which the reader took its position.
ReaderDown == [open |-> FALSE, busy |-> FALSE, count |-> 0, copied |-> 0,
               readFrame |-> 0, from |-> 0, openedIn |-> 0]

AtMost(n, limit) == IF n < limit THEN n ELSE limit

SlotAt(p, i) == LET start == p % Capacity
                    first == Capacity - start
                IN IF i < first THEN start + i ELSE i - first

TypeOK ==
  /\ samples \in [Slot -> Frame]
  /\ writeFrame \in 0 .. MaxFrames
  /\ valid \in BOOLEAN
  /\ life \in 0 .. MaxLives
  /\ writer \in [open : BOOLEAN, busy : BOOLEAN, count : 0 .. MaxWrite, copied : 0 .. MaxWrite]
  /\ reader \in [open : BOOLEAN, busy : BOOLEAN, count : 0 .. PacketFrames,
                 copied : 0 .. PacketFrames, readFrame : 0 .. FrameMod - 1,
                 from : 0 .. FrameMod - 1, openedIn : 0 .. MaxLives]
  /\ destination \in Seq(Frame)

\* No file yet.
Init == /\ samples = [s \in Slot |-> Silence]
        /\ writeFrame = 0
        /\ valid = FALSE
        /\ life = 0
        /\ writer = WriterDown
        /\ reader = ReaderDown
        /\ destination = <<>>

-----------------------------------------------------------------------------
(* The driver                                                              *)

\* Open as writer: writeFrame goes back to 0 even if the file is valid, and the
\* samples are cleared only if it is not.
OpenWriter == /\ ~writer.open
              /\ life < MaxLives
              /\ writer' = [WriterDown EXCEPT !.open = TRUE]
              /\ writeFrame' = 0
              /\ valid' = TRUE
              /\ samples' = IF valid THEN samples ELSE [s \in Slot |-> Silence]
              /\ life' = life + 1
              /\ UNCHANGED <<reader, destination>>

WriteBegin(n) == /\ writer.open
                 /\ ~writer.busy
                 /\ writeFrame + n <= MaxFrames
                 /\ writer' = [writer EXCEPT !.busy = TRUE, !.count = n, !.copied = 0]
                 /\ UNCHANGED <<samples, writeFrame, valid, life, reader, destination>>

WriteCopy == /\ writer.busy
             /\ writer.copied < writer.count
             /\ samples' = [samples EXCEPT ![SlotAt(writeFrame, writer.copied)] =
                              [life |-> life, pos |-> writeFrame + writer.copied]]
             /\ writer' = [writer EXCEPT !.copied = @ + 1]
             /\ UNCHANGED <<writeFrame, valid, life, reader, destination>>

\* Mutant of WriteEnd: the counter is stored before the copy is complete.
WriteEndEarly == /\ writer.busy
                 /\ writeFrame' = writeFrame + writer.count
                 /\ writer' = [WriterDown EXCEPT !.open = TRUE]
                 /\ UNCHANGED <<samples, valid, life, reader, destination>>

WriteEnd == /\ writer.busy
            /\ writer.copied = writer.count
            /\ writeFrame' = writeFrame + writer.count
            /\ writer' = [WriterDown EXCEPT !.open = TRUE]
            /\ UNCHANGED <<samples, valid, life, reader, destination>>

\* coreaudiod stops, possibly in the middle of a write, whose count is kept to tell
\* which frames it had begun to overwrite.
StopWriter == /\ writer.open
              /\ writer' = [writer EXCEPT !.open = FALSE, !.busy = FALSE]
              /\ UNCHANGED <<samples, writeFrame, valid, life, reader, destination>>

-----------------------------------------------------------------------------
(* The app                                                                 *)

OpenReader == /\ ~reader.open
              /\ valid
              /\ reader' = [ReaderDown EXCEPT !.open = TRUE,
                                              !.readFrame = writeFrame,
                                              !.openedIn = life]
              /\ UNCHANGED <<samples, writeFrame, valid, life, writer, destination>>

\* The position a read starts from: the reader's own, or the oldest frame that can
\* still be there if it has fallen behind by more than the capacity.
ReadFrom == IF (writeFrame - reader.readFrame) % FrameMod > Capacity
              THEN (writeFrame - Capacity) % FrameMod
              ELSE reader.readFrame

Available(from) == (writeFrame - from) % FrameMod

\* Mutant of ReadBegin: a whole packet is taken however few frames there are.
ReadBeginWholePacket == /\ reader.open
                        /\ ~reader.busy
                        /\ Available(ReadFrom) > 0
                        /\ reader' = [reader EXCEPT !.busy = TRUE,
                                                    !.from = ReadFrom,
                                                    !.count = PacketFrames,
                                                    !.copied = 0]
                        /\ UNCHANGED <<samples, writeFrame, valid, life, writer, destination>>

\* A read of no frames returns at once.
ReadBegin == /\ reader.open
             /\ ~reader.busy
             /\ Available(ReadFrom) > 0
             /\ reader' = [reader EXCEPT !.busy = TRUE,
                                         !.from = ReadFrom,
                                         !.count = AtMost(Available(ReadFrom), PacketFrames),
                                         !.copied = 0]
             /\ UNCHANGED <<samples, writeFrame, valid, life, writer, destination>>

ReadCopy == /\ reader.busy
            /\ reader.copied < reader.count
            /\ destination' = Append(destination, samples[SlotAt(reader.from, reader.copied)])
            /\ reader' = [reader EXCEPT !.copied = @ + 1]
            /\ UNCHANGED <<samples, writeFrame, valid, life, writer>>

\* Mutant of ReadEnd: the position grows past 2^64.
ReadEndNoWrap == /\ reader.busy
                 /\ reader.copied = reader.count
                 /\ reader' = [reader EXCEPT !.busy = FALSE, !.count = 0, !.copied = 0,
                                             !.from = 0,
                                             !.readFrame = reader.from + reader.count]
                 /\ destination' = <<>>
                 /\ UNCHANGED <<samples, writeFrame, valid, life, writer>>

\* A packet that is not full is dropped by readPayload, frames and all.
ReadEnd == /\ reader.busy
           /\ reader.copied = reader.count
           /\ reader' = [reader EXCEPT !.busy = FALSE, !.count = 0, !.copied = 0, !.from = 0,
                                       !.readFrame = (reader.from + reader.count) % FrameMod]
           /\ destination' = <<>>
           /\ UNCHANGED <<samples, writeFrame, valid, life, writer>>

\* The stream session ends, or the app does.
CloseReader == /\ reader.open
               /\ reader' = ReaderDown
               /\ destination' = <<>>
               /\ UNCHANGED <<samples, writeFrame, valid, life, writer>>

Next == \/ OpenWriter
        \/ \E n \in 1 .. MaxWrite : WriteBegin(n)
        \/ WriteCopy
        \/ WriteEnd
        \/ StopWriter
        \/ OpenReader
        \/ ReadBegin
        \/ ReadCopy
        \/ ReadEnd
        \/ CloseReader

Spec == Init /\ [][Next]_vars

-----------------------------------------------------------------------------
(* Properties                                                              *)

\* The writer that was there when the reader took its position is still the last one.
SameLife == reader.openedIn = life

\* The writer has not come around to the frames the read under way wants.
NotOvertaken == writeFrame + writer.count - reader.from <= Capacity

\* As long as the writer neither restarts nor laps a read that has begun, that read
\* copies exactly the frames it set out for, in order, however the two interleave.
CleanReads ==
  reader.busy /\ SameLife /\ NotOvertaken =>
    \A i \in 1 .. Len(destination) :
      destination[i] = [life |-> life, pos |-> reader.from + i - 1]

\* Without a restart the reader's position stays at or behind the writer's: it never
\* takes a frame twice nor one not written yet, lapped or not.
NeverAheadOfWriter ==
  reader.open /\ SameLife => /\ reader.readFrame <= writeFrame
                             /\ reader.busy => /\ reader.readFrame <= reader.from
                                               /\ reader.from + reader.count <= writeFrame

\* After a restart of the writer a reader that stayed open delivers what the running
\* writer wrote.
OnlyLiveAudio ==
  reader.busy /\ ~SameLife => \A i \in 1 .. Len(destination) : destination[i].life = life

=============================================================================
