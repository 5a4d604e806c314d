--------------------------- MODULE PlaybackEngine ---------------------------
(***************************************************************************)
(* The iPhone's audio output (HushPortIOS/IOSAudioPlaybackEngine.swift) as *)
(* operators on a record:                                                  *)
(*                                                                         *)
(*   running    the AVAudioEngine and its player run                       *)
(*   scheduled  scheduledBufferCount                                       *)
(*   inFlight   buffers of the current scheduleGeneration whose completion *)
(*              has not run yet                                            *)
(*   stale      the same of earlier generations                            *)
(*                                                                         *)
(* The generation itself is compared for equality only, so the two counts  *)
(* stand for it.  stale saturates at 1: its completions change nothing.    *)
(* Graph, session and sample conversion are left out; what can fail there  *)
(* is a step that leaves the record as it is.                              *)
(***************************************************************************)
EXTENDS Integers

CONSTANTS MinAhead,    \* lowest schedule-ahead limit, 8
          MaxAhead,    \* highest, 18
          MaxLatency,  \* maximumPlaybackLatencyPackets, 28
          Spare        \* how far queue and schedule together may exceed it, 6

ASSUME EngineAssumption == /\ {MinAhead, MaxAhead, MaxLatency, Spare} \subseteq Nat
                           /\ 0 < MinAhead
                           /\ MinAhead <= MaxAhead

Engine == [running : BOOLEAN, scheduled : 0 .. MaxAhead, inFlight : 0 .. MaxAhead,
           stale : {0, 1}]

EngineOff == [running |-> FALSE, scheduled |-> 0, inFlight |-> 0, stale |-> 0]

\* Mutant of ScheduleLimit: a long queue alone does not count.
ScheduleLimitTotal(queueDepth, scheduled) ==
  IF queueDepth + scheduled > MaxLatency + Spare THEN MinAhead ELSE MaxAhead

\* updatePlaybackScheduleLimit, which drainReadyPayloads calls before it asks for
\* room: the 24 that startNetworkListener sets is never the one used.
ScheduleLimit(queueDepth, scheduled) ==
  IF queueDepth + scheduled > MaxLatency + Spare \/ queueDepth > MaxLatency
  THEN MinAhead
  ELSE IF MaxAhead - queueDepth \div 2 < MinAhead THEN MinAhead ELSE MaxAhead - queueDepth \div 2

\* stop and, for what is modelled, reset.
Stop(e) == [running |-> FALSE, scheduled |-> 0, inFlight |-> 0,
            stale |-> IF e.inFlight + e.stale > 0 THEN 1 ELSE 0]

EnsurePlaying(e) == [e EXCEPT !.running = TRUE]

\* n successful calls of schedule.
Schedule(e, n) == [e EXCEPT !.running = TRUE, !.scheduled = @ + n, !.inFlight = @ + n]

\* A completion of the current generation: max(0, scheduledBufferCount - 1).
Complete(e) == [e EXCEPT !.inFlight = @ - 1, !.scheduled = IF @ > 0 THEN @ - 1 ELSE 0]

\* Mutant of CompleteStale: the generation is not compared.
CompleteStaleCounted(e) == [e EXCEPT !.stale = 0, !.scheduled = IF @ > 0 THEN @ - 1 ELSE 0]

\* A completion of an earlier one is ignored.
CompleteStale(e) == [e EXCEPT !.stale = 0]

=============================================================================
