-------------------------- MODULE ReceiverLifecycle --------------------------
(***************************************************************************)
(* The iPhone's listening life cycle                                       *)
(* (HushPortIOS/Models/ReceiverModel.swift): the user starts and stops     *)
(* listening, the network path changes and restarts the listeners, and     *)
(* audio tasks end behind the back of both.                                *)
(*                                                                         *)
(* Everything runs on the main actor except the loop of an audio task, so  *)
(* one action is one stretch from one suspension to the next.  A start     *)
(* waits for its listener to become ready, a restart sleeps half a second  *)
(* first, an audio task hops to the main actor for each packet and once    *)
(* more at its end; in all these gaps the rest goes on.                    *)
(*                                                                         *)
(* What is played is ReceiverPlayback's business.  The playback pump and   *)
(* the link watchdog are started where isListening is set and cancelled    *)
(* where it is cleared, so that isListening stands for them.  Status       *)
(* texts, the connection quality and the link state are left out, pairing  *)
(* is the flag paired.                                                     *)
(***************************************************************************)
EXTENDS Naturals

CONSTANTS MaxTasks,      \* bound: start and restart tasks alive at once
          MaxListeners,  \* bound: audio listeners alive at once
          MaxChanges     \* bound: changes of the network path

ASSUME ReceiverAssumption == {MaxTasks, MaxListeners, MaxChanges} \subseteq Nat \ {0}

VARIABLES paired,           \* pairedMac is set
          networkUp,        \* the last snapshot was satisfied
          changes,          \* history: path changes so far
          listeningIntent,
          isListening,
          isRestarting,     \* isRestartingAfterNetworkChange
          control,          \* "up" if controlReceiver is set, "failed" if making it threw
          tasks,            \* start and restart tasks
          restartTask,      \* networkRestartTask, 0 for nil
          listeners,        \* UDP receivers, each with its audio task
          receiver          \* receiver and audioTask, 0 for nil

networkVars == <<networkUp, changes>>
sessionVars == <<listeningIntent, isListening, isRestarting>>
taskVars == <<tasks, restartTask>>
listenerVars == <<listeners, receiver>>
vars == <<paired, networkUp, changes, listeningIntent, isListening, isRestarting, control, tasks,
          restartTask, listeners, receiver>>

TaskId == 1 .. MaxTasks
ListenerId == 1 .. MaxListeners

FreeTask == [pc |-> "free", restart |-> FALSE, cancelled |-> FALSE, resume |-> FALSE]
FreeListener == [pc |-> "free", cancelled |-> FALSE, packet |-> FALSE]

TypeOK ==
  /\ {paired, networkUp, listeningIntent, isListening, isRestarting} \subseteq BOOLEAN
  /\ control \in {"none", "up", "failed"}
  /\ changes \in 0 .. MaxChanges
  /\ tasks \in [TaskId -> {FreeTask} \cup [pc : {"begin", "asleep", "opening"},
                                          restart : BOOLEAN, cancelled : BOOLEAN,
                                          resume : BOOLEAN]]
  /\ restartTask \in {0} \cup TaskId
  /\ listeners \in [ListenerId -> {FreeListener} \cup [pc : {"open", "ended"},
                                                       cancelled : BOOLEAN, packet : BOOLEAN]]
  /\ receiver \in {0} \cup ListenerId

Init == /\ paired \in BOOLEAN
        /\ networkUp \in BOOLEAN
        /\ changes = 0
        /\ listeningIntent = FALSE
        /\ isListening = FALSE
        /\ isRestarting = FALSE
        /\ control = "none"
        /\ tasks = [t \in TaskId |-> FreeTask]
        /\ restartTask = 0
        /\ listeners = [l \in ListenerId |-> FreeListener]
        /\ receiver = 0

-----------------------------------------------------------------------------
(* Pieces that several handlers share                                      *)

\* The slot that something new takes.
FirstFree(slots, new) ==
  slots[new].pc = "free" /\ \A n \in DOMAIN slots : slots[n].pc = "free" => new <= n

\* networkRestartTask?.cancel()
CancelledRestart ==
  [t \in TaskId |-> [tasks[t] EXCEPT !.cancelled = @ \/ (t = restartTask /\ tasks[t].pc # "free")]]

\* startControlChannel; its errors go to the status line.
StartControl == control' \in {"up", "failed"}

EnsureControl == IF control = "up" THEN UNCHANGED control ELSE StartControl

\* stopAudio(preserveIntent: true), with the listeners as its caller has left them.
Silenced(from) ==
  /\ listeners' = [l \in ListenerId |->
                     [from[l] EXCEPT !.cancelled =
                        @ \/ (l = receiver /\ from[l].pc # "free")]]
  /\ receiver' = 0
  /\ isListening' = FALSE

\* Mutant of StopAudio: the restart is called off and its flag stays.
StopKeepsFlag(from) ==
  /\ Silenced(from)
  /\ listeningIntent' = FALSE
  /\ tasks' = CancelledRestart
  /\ restartTask' = 0
  /\ UNCHANGED isRestarting

\* stopAudio.
StopAudio(from) ==
  /\ Silenced(from)
  /\ listeningIntent' = FALSE
  /\ tasks' = CancelledRestart
  /\ restartTask' = 0
  /\ isRestarting' = FALSE

-----------------------------------------------------------------------------
(* The user                                                                *)

\* startAudio, from the button that stands there while not listening.
StartAudio ==
  /\ paired
  /\ ~isListening
  /\ listeningIntent' = TRUE
  /\ IF isRestarting
     THEN UNCHANGED tasks
     ELSE \E new \in TaskId : FirstFree(tasks, new) /\
            tasks' = [tasks EXCEPT ![new] = [FreeTask EXCEPT !.pc = "begin"]]
  /\ UNCHANGED <<paired, networkVars, isListening, isRestarting, control, restartTask,
                 listenerVars>>

\* stopAudio, from the button that replaces it.
PressStop == /\ paired
             /\ isListening
             /\ StopAudio(listeners)
             /\ UNCHANGED <<paired, networkVars, control>>

ForgetPairing == /\ paired
                 /\ StopAudio(listeners)
                 /\ paired' = FALSE
                 /\ UNCHANGED <<networkVars, control>>

\* A pairing that succeeded; pair ensures the control channel.
Pair == /\ ~paired
        /\ paired' = TRUE
        /\ EnsureControl
        /\ UNCHANGED <<networkVars, sessionVars, taskVars, listenerVars>>

\* onAppear, which does not start to listen; a resumption of the playback is
\* ReceiverPlayback's Resume.
OnAppear == /\ EnsureControl
            /\ UNCHANGED <<paired, networkVars, sessionVars, taskVars, listenerVars>>

-----------------------------------------------------------------------------
(* The network path                                                        *)

\* A path that is no longer satisfied: the restart under way is called off, its
\* flag stays.
PathLost ==
  /\ changes < MaxChanges
  /\ changes' = changes + 1
  /\ networkUp' = FALSE
  /\ tasks' = CancelledRestart
  /\ restartTask' = 0
  /\ UNCHANGED <<paired, sessionVars, control, listenerVars>>

\* What restartAfterNetworkChange does beside the new task.
RestartBegins ==
  /\ isRestarting' = TRUE
  /\ control' = "none"
  /\ IF isListening
     THEN Silenced(listeners)
     ELSE UNCHANGED <<isListening, listenerVars>>

\* A satisfied path with another signature: restartAfterNetworkChange.
PathChanged ==
  /\ changes < MaxChanges
  /\ changes' = changes + 1
  /\ networkUp' = TRUE
  /\ RestartBegins
  /\ \E new \in TaskId :
       /\ FirstFree(tasks, new)
       /\ restartTask' = new
       /\ tasks' = [CancelledRestart EXCEPT
                      ![new] = [pc |-> "asleep", restart |-> TRUE, cancelled |-> FALSE,
                                resume |-> listeningIntent]]
  /\ UNCHANGED <<paired, listeningIntent>>

-----------------------------------------------------------------------------
(* Start and restart tasks                                                 *)

\* Mutant of BeginStart: the control channel is left to its restart.
BeginStartQuietly(t) ==
  /\ tasks[t].pc = "begin"
  /\ tasks' = [tasks EXCEPT ![t].pc = "opening"]
  /\ UNCHANGED <<paired, networkVars, sessionVars, control, restartTask, listenerVars>>

\* The task of startAudio begins: startAudioAsync up to the wait for its listener.
BeginStart(t) ==
  /\ tasks[t].pc = "begin"
  /\ EnsureControl
  /\ tasks' = [tasks EXCEPT ![t].pc = "opening"]
  /\ UNCHANGED <<paired, networkVars, sessionVars, restartTask, listenerVars>>

\* Mutant of Ends: what the task was stays on record.
EndsInPlace(t) ==
  /\ tasks' = [tasks EXCEPT ![t].pc = "free"]
  /\ IF tasks[t].restart /\ ~tasks[t].cancelled
     THEN isRestarting' = FALSE /\ restartTask' = 0
     ELSE UNCHANGED <<isRestarting, restartTask>>

\* Mutant of Ends: the flag is cleared by the next restart only.
EndsFlagged(t) ==
  /\ tasks' = [tasks EXCEPT ![t] = FreeTask]
  /\ UNCHANGED <<isRestarting, restartTask>>

\* What a task does at its end: a restart that was not cancelled clears its flag.
Ends(t) ==
  /\ tasks' = [tasks EXCEPT ![t] = FreeTask]
  /\ IF tasks[t].restart /\ ~tasks[t].cancelled
     THEN isRestarting' = FALSE /\ restartTask' = 0
     ELSE UNCHANGED <<isRestarting, restartTask>>

\* The half second of a restart that was cancelled in it is over.
RestartCancelled(t) ==
  /\ tasks[t].pc = "asleep"
  /\ tasks[t].cancelled
  /\ Ends(t)
  /\ UNCHANGED <<paired, networkVars, listeningIntent, isListening, control, listenerVars>>

\* Mutant of RestartWakes: the listener is not opened again.
RestartWakesIdle(t) ==
  /\ tasks[t].pc = "asleep"
  /\ ~tasks[t].cancelled
  /\ StartControl
  /\ Ends(t)
  /\ UNCHANGED <<paired, networkVars, listeningIntent, isListening, listenerVars>>

\* It is over, and the control channel starts again, and with it the audio listener
\* if the user wanted to listen when the path changed and still does.
RestartWakes(t) ==
  /\ tasks[t].pc = "asleep"
  /\ ~tasks[t].cancelled
  /\ StartControl
  /\ IF tasks[t].resume /\ listeningIntent /\ paired
     THEN /\ tasks' = [tasks EXCEPT ![t].pc = "opening"]
          /\ UNCHANGED <<isRestarting, restartTask>>
     ELSE Ends(t)
  /\ UNCHANGED <<paired, networkVars, listeningIntent, isListening, listenerVars>>

\* The listener could not be made, or failed before it was ready.
OpenFails(t) ==
  /\ tasks[t].pc = "opening"
  /\ Ends(t)
  /\ UNCHANGED <<paired, networkVars, listeningIntent, isListening, control, listenerVars>>

\* The listener is ready: startNetworkListener from its await on, whatever has
\* happened meanwhile.  An earlier receiver is replaced, not cancelled.
OpenReady(t) ==
  /\ tasks[t].pc = "opening"
  /\ \E new \in ListenerId :
       /\ FirstFree(listeners, new)
       /\ listeners' = [listeners EXCEPT ![new] = [FreeListener EXCEPT !.pc = "open"]]
       /\ receiver' = new
  /\ isListening' = TRUE
  /\ Ends(t)
  /\ UNCHANGED <<paired, networkVars, listeningIntent, control>>

-----------------------------------------------------------------------------
(* Audio tasks                                                             *)

\* The loop took a packet from the stream and has found itself not cancelled.
TakePacket(l) ==
  /\ listeners[l].pc = "open"
  /\ ~listeners[l].cancelled
  /\ ~listeners[l].packet
  /\ listeners' = [listeners EXCEPT ![l].packet = TRUE]
  /\ UNCHANGED <<paired, networkVars, sessionVars, control, taskVars, receiver>>

\* handleIncomingPacket, by then (a packet of ReceiverPlayback).
HandlePacket(l) ==
  /\ listeners[l].packet
  /\ listeners' = [listeners EXCEPT ![l].packet = FALSE]
  /\ UNCHANGED <<paired, networkVars, sessionVars, control, taskVars, receiver>>

\* The stream ends: its receiver was cancelled.
StreamEnds(l) ==
  /\ listeners[l].pc = "open"
  /\ listeners[l].cancelled
  /\ ~listeners[l].packet
  /\ listeners' = [listeners EXCEPT ![l].pc = "ended"]
  /\ UNCHANGED <<paired, networkVars, sessionVars, control, taskVars, receiver>>

\* Or its listener failed.
StreamFails(l) ==
  /\ listeners[l].pc = "open"
  /\ ~listeners[l].cancelled
  /\ ~listeners[l].packet
  /\ listeners' = [listeners EXCEPT ![l].pc = "ended"]
  /\ UNCHANGED <<paired, networkVars, sessionVars, control, taskVars, receiver>>

\* Mutant of Tail: nothing is stopped.
TailIdle(l) ==
  /\ listeners[l].pc = "ended"
  /\ listeners' = [listeners EXCEPT ![l] = FreeListener]
  /\ UNCHANGED <<paired, networkVars, sessionVars, control, taskVars, receiver>>

\* The last hop of an audio task: it stops what listens by then.
Tail(l) ==
  /\ listeners[l].pc = "ended"
  /\ LET others == [listeners EXCEPT ![l] = FreeListener]
     IN IF isListening
        THEN StopAudio(others)
        ELSE /\ listeners' = others
             /\ UNCHANGED <<sessionVars, taskVars, receiver>>
  /\ UNCHANGED <<paired, networkVars, control>>

-----------------------------------------------------------------------------
TaskSteps(t) == BeginStart(t) \/ RestartCancelled(t) \/ RestartWakes(t)

AudioTaskSteps(l) == HandlePacket(l) \/ StreamEnds(l) \/ Tail(l)

Next == \/ StartAudio \/ PressStop \/ ForgetPairing \/ Pair \/ OnAppear
        \/ PathLost \/ PathChanged
        \/ \E t \in TaskId : TaskSteps(t) \/ OpenFails(t) \/ OpenReady(t)
        \/ \E l \in ListenerId : AudioTaskSteps(l) \/ TakePacket(l) \/ StreamFails(l)

\* Tasks that are runnable run.  A listener need never become ready (it may wait for
\* the network), and nothing is assumed of the user, the path or the packets.
Fairness == /\ \A t \in TaskId : WF_vars(TaskSteps(t))
            /\ \A l \in ListenerId : WF_vars(AudioTaskSteps(l))

Spec == Init /\ [][Next]_vars /\ Fairness

-----------------------------------------------------------------------------
(* Properties                                                              *)

Opening == \E t \in TaskId : tasks[t].pc = "opening"

Settled == \A t \in TaskId : tasks[t].pc = "free"

Alive(t) == t # 0 /\ tasks[t].pc # "free" /\ ~tasks[t].cancelled

\* The restart flag, under which startAudio does nothing, is always backed: by a
\* restart that will clear it, or by a network that is down and will restart when it
\* returns.  Five places set, clear or cancel one of the two.
RestartIsBacked == isRestarting => ~networkUp \/ Alive(restartTask)

\* While the receiver shows that it listens, its audio task is there to stop it when
\* the stream ends, also after tasks of earlier listeners came to their end.
ListeningIsBacked ==
  isListening => receiver # 0 /\ listeners[receiver].pc # "free" /\ ~listeners[receiver].cancelled

\* A receiver that listens because its user wants it to can be pinged, unless making
\* the control channel failed: a stop calls off the restart that would make it again,
\* and so the next start has to.
Starting == \E t \in TaskId : tasks[t].pc = "begin"
ControlIsBacked ==
  isListening /\ listeningIntent => control # "none" \/ isRestarting \/ Starting

\* A network change does not lock the user out: with the network back the flag goes
\* away unless the listener waits for ever to become ready.
RestartSettles == isRestarting /\ networkUp ~> ~isRestarting \/ ~networkUp \/ Opening

\* "iPhone restarts listener" (docs/overview.md:187): a restart of a receiver that
\* was to listen listens again, unless the user stops it, the network goes away or
\* the new listener does not become ready.
ResumesListening ==
  Alive(restartTask) /\ tasks[restartTask].resume /\ listeningIntent /\ paired
    ~> isListening \/ ~listeningIntent \/ ~paired \/ ~networkUp \/ Opening

\* "Start / Stop Listening: Open or close the UDP receiver" (docs/overview.md:38):
\* when nothing is under way and the button offers to start, no receiver is open.
StopCloses ==
  Settled /\ ~isListening =>
    \A l \in ListenerId : listeners[l].pc = "open" => listeners[l].cancelled

=============================================================================
