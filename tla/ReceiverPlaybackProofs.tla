----------------------- MODULE ReceiverPlaybackProofs -----------------------
(***************************************************************************)
(* Proofs about ReceiverPlayback, for every schedule limit, latency and    *)
(* queue length.  TypeOK and ScheduleCountExact are inductive together; a  *)
(* drain, which most handlers end in, is treated once.                     *)
(***************************************************************************)
EXTENDS ReceiverPlayback, TLAPS

\* The limit that updatePlaybackScheduleLimit sets lies between the lowest and the
\* highest, and is the lowest when more than the latency to keep is waiting.
LEMMA ScheduleLimitRange ==
  ASSUME NEW queue \in Nat, NEW scheduled \in Nat
  PROVE  /\ ScheduleLimit(queue, scheduled) \in MinAhead .. MaxAhead
         /\ queue > MaxLatency => ScheduleLimit(queue, scheduled) = MinAhead
  BY EngineAssumption DEF ScheduleLimit

\* The room for more buffers ends at the limit.
LEMMA RoomRange ==
  ASSUME NEW queue \in Nat, NEW from \in Engine
  PROVE  /\ Room(queue, from) \in 0 .. MaxAhead
         /\ Room(queue, from) > 0 => from.scheduled + Room(queue, from) = ScheduleLimit(queue, from.scheduled)
<1>1. from.scheduled \in 0 .. MaxAhead
  BY DEF Engine
<1>2. from.scheduled \in Nat
  BY <1>1, EngineAssumption
<1>3. ScheduleLimit(queue, from.scheduled) \in MinAhead .. MaxAhead
  BY <1>2, ScheduleLimitRange
<1> QED
  BY <1>1, <1>3, EngineAssumption DEF Room

\* A drain (drainReadyPayloads) keeps the types and the count, and adds only up to
\* the limit for the queue that it leaves.
LEMMA DrainKeeps ==
  ASSUME NEW queue \in 0 .. MaxQueued, NEW from \in Engine,
         TypeOK, from.scheduled = from.inFlight, Drain(queue, from)
  PROVE  /\ queued' \in 0 .. MaxQueued
         /\ kept' \in BOOLEAN
         /\ played' \in BOOLEAN
         /\ engine' \in Engine
         /\ engine'.scheduled = engine'.inFlight
         /\ engine'.scheduled > from.scheduled /\ queued' > MaxLatency
              => engine'.scheduled <= MinAhead
<1> QED
  <2>1. CASE queued' = queue /\ engine' = from /\ UNCHANGED <<kept, played>>
    BY <2>1, EngineAssumption DEF TypeOK, Engine
  <2>2. CASE /\ queue > 0 \/ kept
             /\ Room(queue, from) > 0
             /\ \E n \in 0 .. Room(queue, from), c \in 0 .. queue :
                  /\ kept' \in BOOLEAN
                  /\ kept' => n < Room(queue, from)
                  /\ Count(kept) + c <= n + Count(kept')
                  /\ engine' = Schedule(from, n)
                  /\ queued' = queue - c
                  /\ played' = (played \/ n > 0)
    <3>1. PICK n \in 0 .. Room(queue, from), c \in 0 .. queue :
             /\ kept' \in BOOLEAN
             /\ engine' = Schedule(from, n)
             /\ queued' = queue - c
             /\ played' = (played \/ n > 0)
      BY <2>2
    <3>2. queue \in Nat /\ MaxQueued \in Nat
      BY PlaybackAssumption
    <3>3. queued' \in 0 .. MaxQueued /\ queued' <= queue
      BY <3>1, <3>2
    <3>4. from.scheduled \in 0 .. MaxAhead /\ from.scheduled \in Nat
      BY EngineAssumption DEF Engine
    <3>5. /\ Room(queue, from) \in Nat
          /\ from.scheduled + Room(queue, from) = ScheduleLimit(queue, from.scheduled)
      BY <2>2, <3>2, RoomRange, EngineAssumption
    <3>6. /\ ScheduleLimit(queue, from.scheduled) \in MinAhead .. MaxAhead
          /\ queue > MaxLatency => ScheduleLimit(queue, from.scheduled) = MinAhead
      BY <3>2, <3>4, ScheduleLimitRange
    <3>7. n \in Nat /\ from.scheduled + n <= ScheduleLimit(queue, from.scheduled)
      BY <3>4, <3>5
    <3>8. from.scheduled + n \in 0 .. MaxAhead
      BY <3>4, <3>6, <3>7, EngineAssumption
    <3>9. /\ engine' \in Engine
          /\ engine'.scheduled = from.scheduled + n
          /\ engine'.inFlight = from.scheduled + n
      BY <3>1, <3>8 DEF Schedule, Engine
    <3>10. played' \in BOOLEAN
      BY <3>1 DEF TypeOK
    <3>11. queued' > MaxLatency => engine'.scheduled <= MinAhead
      BY <3>2, <3>3, <3>6, <3>7, <3>9, EngineAssumption
    <3> QED
      BY <3>1, <3>3, <3>9, <3>10, <3>11
  <2> QED
    BY <2>1, <2>2 DEF Drain

\* What the handlers do to the engine before they drain.
LEMMA EngineKeeps ==
  ASSUME NEW e \in Engine, e.scheduled = e.inFlight
  PROVE  /\ Stop(e) \in Engine /\ Stop(e).scheduled = Stop(e).inFlight /\ Stop(e).scheduled = 0
         /\ EnsurePlaying(e) \in Engine
         /\ EnsurePlaying(e).scheduled = e.scheduled
         /\ EnsurePlaying(e).inFlight = e.inFlight
         /\ CompleteStale(e) \in Engine
         /\ CompleteStale(e).scheduled = e.scheduled
         /\ CompleteStale(e).inFlight = e.inFlight
         /\ e.inFlight > 0 => /\ Complete(e) \in Engine
                              /\ Complete(e).scheduled = e.scheduled - 1
                              /\ Complete(e).inFlight = e.inFlight - 1
<1>1. /\ e.running \in BOOLEAN /\ e.scheduled \in 0 .. MaxAhead
      /\ e.inFlight \in 0 .. MaxAhead /\ e.stale \in {0, 1}
      /\ MaxAhead \in Nat
  BY EngineAssumption DEF Engine
<1>2. /\ Stop(e) \in Engine
      /\ Stop(e).scheduled = 0 /\ Stop(e).inFlight = 0
  BY <1>1 DEF Engine, Stop
<1>3. /\ EnsurePlaying(e) \in Engine
      /\ EnsurePlaying(e).scheduled = e.scheduled
      /\ EnsurePlaying(e).inFlight = e.inFlight
  BY DEF Engine, EnsurePlaying
<1>4. /\ CompleteStale(e) \in Engine
      /\ CompleteStale(e).scheduled = e.scheduled
      /\ CompleteStale(e).inFlight = e.inFlight
  BY DEF Engine, CompleteStale
<1>5. ASSUME e.inFlight > 0
      PROVE  /\ Complete(e) \in Engine
             /\ Complete(e).scheduled = e.scheduled - 1
             /\ Complete(e).inFlight = e.inFlight - 1
  <2>1. e.inFlight - 1 \in 0 .. MaxAhead
    BY <1>1, <1>5
  <2>2. (IF e.scheduled > 0 THEN e.scheduled - 1 ELSE 0) = e.inFlight - 1
    BY <1>1, <1>5
  <2>3. Complete(e) = [e EXCEPT !.inFlight = e.inFlight - 1, !.scheduled = e.inFlight - 1]
    BY <2>2 DEF Complete
  <2> QED
    BY <2>1, <2>3 DEF Engine
<1> QED
  BY <1>2, <1>3, <1>4, <1>5

IInv == TypeOK /\ ScheduleCountExact

LEMMA InitIInv == Init => IInv
<1>1. 0 \in 0 .. MaxAhead /\ 0 \in 0 .. MaxQueued
  BY EngineAssumption, PlaybackAssumption
<1>2. EngineOff \in Engine /\ EngineOff.scheduled = EngineOff.inFlight
  BY <1>1 DEF EngineOff, Engine
<1> QED
  BY <1>1, <1>2 DEF Init, IInv, TypeOK, ScheduleCountExact

\* What a step does beside the part of TypeOK that no drain touches.
Additions == engine'.scheduled > engine.scheduled /\ queued' > MaxLatency
               => engine'.scheduled <= MinAhead

LEMMA NextIInv == IInv /\ [Next]_vars => IInv' /\ Additions
<1> SUFFICES ASSUME IInv, [Next]_vars PROVE IInv' /\ Additions
  OBVIOUS
<1> USE DEF IInv, TypeOK, ScheduleCountExact, Additions
<1>n. /\ MaxQueued \in Nat /\ 0 \in 0 .. MaxQueued
      /\ engine.scheduled \in Nat /\ MinAhead \in Nat
      /\ ~(engine.scheduled > engine.scheduled)
      /\ ~(0 > engine.scheduled)
  BY PlaybackAssumption, EngineAssumption DEF Engine
<1>1. CASE Listen
  BY <1>1, <1>n DEF Listen
<1>2. CASE StopListening
  <2>1. engine' \in Engine /\ engine'.scheduled = engine'.inFlight /\ engine'.scheduled = 0
    BY <1>2, EngineKeeps DEF StopListening
  <2> QED
    BY <1>2, <2>1, <1>n DEF StopListening
<1>3. CASE HandlePacket
  <2>1. PICK queue \in 0 .. (queued + 1) : queue <= MaxQueued /\ Drain(queue, engine)
    BY <1>3 DEF HandlePacket
  <2>2. queue \in 0 .. MaxQueued
    BY <2>1, <1>n
  <2> QED
    BY <1>3, <2>1, <2>2, DrainKeeps DEF HandlePacket
<1>4. CASE Pump
  BY <1>4, DrainKeeps DEF Pump
<1>5. CASE Completion
  <2>1. /\ Complete(engine) \in Engine
        /\ Complete(engine).scheduled = Complete(engine).inFlight
        /\ Complete(engine).scheduled = engine.scheduled - 1
    BY <1>5, EngineKeeps DEF Completion
  <2>2. Drain(queued, Complete(engine))
    BY <1>5 DEF Completion
  <2>3. /\ queued' \in 0 .. MaxQueued /\ kept' \in BOOLEAN /\ played' \in BOOLEAN
        /\ engine' \in Engine /\ engine'.scheduled = engine'.inFlight
        /\ engine'.scheduled > Complete(engine).scheduled /\ queued' > MaxLatency
             => engine'.scheduled <= MinAhead
    BY <2>1, <2>2, DrainKeeps
  <2>4. engine'.scheduled \in Nat
    BY <2>3, EngineAssumption DEF Engine
  <2>5. Additions
    BY <2>1, <2>3, <2>4, <1>n
  <2> QED
    BY <1>5, <2>3, <2>5 DEF Completion
<1>6. CASE LateCompletion
  BY <1>6, <1>n, EngineKeeps DEF LateCompletion
<1>7. CASE SuspendPlayback
  BY <1>7, <1>n, EngineKeeps DEF SuspendPlayback
<1>8. CASE Resume
  <2>1. /\ EnsurePlaying(engine) \in Engine
        /\ EnsurePlaying(engine).scheduled = EnsurePlaying(engine).inFlight
        /\ EnsurePlaying(engine).scheduled = engine.scheduled
    BY EngineKeeps
  <2> QED
    BY <1>8, <2>1, DrainKeeps DEF Resume
<1>9. CASE Interruption
  <2>1. engine' \in Engine /\ engine'.scheduled = engine.scheduled /\ engine'.inFlight = engine.inFlight
    BY <1>9 DEF Interruption, Engine
  <2> QED
    BY <1>9, <2>1, <1>n DEF Interruption
<1>10. CASE Mute
  BY <1>10, <1>n, EngineKeeps DEF Mute
<1>11. CASE UNCHANGED vars
  BY <1>11, <1>n DEF vars
<1> QED
  BY <1>1, <1>2, <1>3, <1>4, <1>5, <1>6, <1>7, <1>8, <1>9, <1>10, <1>11 DEF Next

\* The state of ReceiverModel's playback and of its engine is of its type; in
\* particular no more buffers are scheduled than the highest limit.
THEOREM PlaybackTypeCorrect == Spec => []TypeOK
<1>1. IInv => TypeOK
  BY DEF IInv
<1> QED
  BY InitIInv, NextIInv, <1>1, PTL DEF Spec

\* IOSAudioPlaybackEngine's scheduledBufferCount is the number of buffers of the
\* current generation in flight, after any stops, mutes, suspensions and late
\* completions.
THEOREM ScheduleCountIsExact == Spec => []ScheduleCountExact
<1>1. IInv => ScheduleCountExact
  BY DEF IInv
<1> QED
  BY InitIInv, NextIInv, <1>1, PTL DEF Spec

\* A receiver that has fallen behind adds nothing to the schedule beyond the lowest
\* limit (updatePlaybackScheduleLimit), for every choice of the limits.
THEOREM BacklogComesFirst == Spec => BacklogFirst
<1>1. IInv /\ [Next]_vars
        => [engine'.scheduled > engine.scheduled /\ queued' > MaxLatency
              => engine'.scheduled <= MinAhead]_vars
  BY NextIInv DEF Additions
<1> QED
  BY InitIInv, NextIInv, <1>1, PTL DEF Spec, BacklogFirst

\* No session starts suspended (playbackSuspendedForIdle): what suspends is listening, what
\* stops listening or hears a packet clears it, and nothing else touches either.
THEOREM SuspensionEndsWithSession == Spec => []SuspendedWhileListening
<1>1. Init => SuspendedWhileListening
  BY DEF Init, SuspendedWhileListening
<1>2. SuspendedWhileListening /\ [Next]_vars => SuspendedWhileListening'
  <2> SUFFICES ASSUME SuspendedWhileListening, [Next]_vars
               PROVE  SuspendedWhileListening'
    OBVIOUS
  <2> USE DEF SuspendedWhileListening
  <2>1. CASE Listen \/ StopListening \/ HandlePacket
    BY <2>1 DEF Listen, StopListening, HandlePacket
  <2>2. CASE SuspendPlayback
    BY <2>2 DEF SuspendPlayback
  <2>3. CASE \/ Pump \/ Completion \/ LateCompletion \/ Resume \/ Interruption \/ Mute
            \/ UNCHANGED vars
    BY <2>3 DEF Pump, Completion, LateCompletion, Resume, Interruption, Mute, vars
  <2> QED
    BY <2>1, <2>2, <2>3 DEF Next
<1> QED
  BY <1>1, <1>2, PTL DEF Spec

=============================================================================
