-------------------------- MODULE ReceiverPlayback --------------------------
(***************************************************************************)
(* What the iPhone does with the packets it receives                       *)
(* (HushPortIOS/Models/ReceiverModel.swift over PlaybackEngine): a drain   *)
(* moves payloads from the playback buffer to the engine, as many as the   *)
(* engine takes.  Packets, the millisecond pump, completions, pings,       *)
(* interruptions, mutes and the watchdog all run on the main actor, in any *)
(* order; every handler here is one action.                                *)
(*                                                                         *)
(* Which packets a drain gets out of the playback buffer (prebuffer, gaps, *)
(* concealment) is AdaptivePlaybackBuffer's business and any number here.  *)
(* How listening starts and stops is ReceiverLifecycle's.                  *)
(***************************************************************************)
EXTENDS PlaybackEngine

CONSTANT MaxQueued   \* bound: packets queued

ASSUME PlaybackAssumption == MaxQueued \in Nat \ {0}

VARIABLES isListening,
          queued,       \* packets in the playback buffer
          kept,         \* pendingPlaybackPayload is set
          played,       \* playedPacketCount > 0
          suspended,    \* playbackSuspendedForIdle
          engine

vars == <<isListening, queued, kept, played, suspended, engine>>

TypeOK == /\ isListening \in BOOLEAN
          /\ kept \in BOOLEAN
          /\ played \in BOOLEAN
          /\ suspended \in BOOLEAN
          /\ queued \in 0 .. MaxQueued
          /\ engine \in Engine

Init == /\ isListening = FALSE
        /\ queued = 0
        /\ kept = FALSE
        /\ played = FALSE
        /\ suspended = FALSE
        /\ engine = EngineOff

Count(flag) == IF flag THEN 1 ELSE 0

\* updatePlaybackScheduleLimit and canAcceptMoreBuffers.
Room(queue, from) ==
  LET room == ScheduleLimit(queue, from.scheduled) - from.scheduled
  IN IF room < 0 THEN 0 ELSE room

\* Mutant of Drain: the room is that of an empty schedule.
DrainUnbounded(queue, from) ==
  /\ queue > 0
  /\ \E n \in 0 .. ScheduleLimit(queue, 0) :
       /\ engine' = Schedule(from, n)
       /\ queued' = queue - (IF n < queue THEN n ELSE queue)
       /\ kept' = FALSE
       /\ played' = (played \/ n > 0)

\* drainReadyPayloads from a queue and an engine as the handler has left them: no
\* room, nothing to play or an engine that does not start; or n payloads scheduled,
\* the kept one first, and perhaps one more that could not be, of which c came off
\* the queue (what is over was repeated).
Drain(queue, from) ==
  \/ /\ queued' = queue
     /\ engine' = from
     /\ UNCHANGED <<kept, played>>
  \/ /\ queue > 0 \/ kept
     /\ Room(queue, from) > 0
     /\ \E n \in 0 .. Room(queue, from), c \in 0 .. queue :
          /\ kept' \in BOOLEAN
          /\ kept' => n < Room(queue, from)
          /\ Count(kept) + c <= n + Count(kept')
          /\ engine' = Schedule(from, n)
          /\ queued' = queue - c
          /\ played' = (played \/ n > 0)

\* What startNetworkListener does here.  An engine that still runs, and a second
\* start while listening, are not looked at.
Listen == /\ isListening' = TRUE
          /\ queued' = 0
          /\ kept' = FALSE
          /\ played' = FALSE
          /\ UNCHANGED <<suspended, engine>>

\* Mutant of StopListening: the suspension stays.
StopStaysSuspended == /\ isListening' = FALSE
                      /\ queued' = 0
                      /\ kept' = FALSE
                      /\ played' = FALSE
                      /\ engine' = Stop(engine)
                      /\ UNCHANGED suspended

\* What stopAudio does here.
StopListening == /\ isListening' = FALSE
                 /\ queued' = 0
                 /\ kept' = FALSE
                 /\ played' = FALSE
                 /\ suspended' = FALSE
                 /\ engine' = Stop(engine)

\* handleIncomingPacket.  The buffer may reject the packet or trim others, and the
\* receiver may have stopped since the packet was taken from its stream.
HandlePacket == /\ suspended' = FALSE
                /\ \E queue \in 0 .. (queued + 1) : queue <= MaxQueued /\ Drain(queue, engine)
                /\ UNCHANGED isListening

\* A step of the playback pump, and the drain of a ping.
Pump == /\ isListening
        /\ Drain(queued, engine)
        /\ UNCHANGED <<isListening, suspended>>

\* A completion handler runs on the main actor.
Completion == /\ engine.inFlight > 0
              /\ Drain(queued, Complete(engine))
              /\ UNCHANGED <<isListening, suspended>>

LateCompletion == /\ engine.stale > 0
                  /\ engine' = CompleteStale(engine)
                  /\ UNCHANGED <<isListening, queued, kept, played, suspended>>

\* The watchdog's suspendPlaybackIfNeeded after half a minute without a packet.
SuspendPlayback == /\ isListening
                   /\ played
                   /\ ~suspended
                   /\ suspended' = TRUE
                   /\ engine' = Stop(engine)
                   /\ UNCHANGED <<isListening, queued, kept, played>>

\* resumePlaybackIfNeeded, when an interruption or another app's sound ends and, for
\* a listening receiver, when the app becomes active; handleControl(.unmute).  With
\* no drain it is prepareForBackground.
Resume == /\ Drain(queued, EnsurePlaying(engine))
          /\ UNCHANGED <<isListening, suspended>>

\* The system stops the engine.
Interruption == /\ engine.running
                /\ engine' = [engine EXCEPT !.running = FALSE]
                /\ UNCHANGED <<isListening, queued, kept, played, suspended>>

\* handleControl(.mute).
Mute == /\ engine' = Stop(engine)
        /\ UNCHANGED <<isListening, queued, kept, played, suspended>>

Next == \/ Listen \/ StopListening \/ HandlePacket \/ Pump \/ Completion \/ LateCompletion
        \/ SuspendPlayback \/ Resume \/ Interruption \/ Mute

Spec == Init /\ [][Next]_vars

-----------------------------------------------------------------------------
(* Properties                                                              *)

\* The count that limits scheduling is that of the buffers really in flight, whatever
\* stops, resets and late completions have happened: counted too low it would let the
\* latency grow without bound, too high it would silence the receiver for ever.
ScheduleCountExact == engine.scheduled = engine.inFlight

\* A receiver that has fallen behind works off its queue before it adds latency: no
\* handler leaves more than maximumPlaybackLatencyPackets waiting and fills the
\* schedule beyond the lowest limit.
BacklogFirst ==
  [][engine'.scheduled > engine.scheduled /\ queued' > MaxLatency
       => engine'.scheduled <= MinAhead]_vars

\* A suspension belongs to the session it happened in: left over, it would keep the
\* next one from ever being suspended before a packet comes.  Stops, late packets and
\* watchdog steps meet in any order.
SuspendedWhileListening == suspended => isListening

=============================================================================
