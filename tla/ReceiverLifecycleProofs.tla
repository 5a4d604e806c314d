----------------------- MODULE ReceiverLifecycleProofs -----------------------
(***************************************************************************)
(* Proofs about ReceiverLifecycle, for any number of tasks, listeners and  *)
(* path changes.  Everything turns on one fact: of the restart tasks that  *)
(* are still on their way only the one in networkRestartTask was not       *)
(* cancelled, and its flag and handle go together.                         *)
(***************************************************************************)
EXTENDS ReceiverLifecycle, TLAPS

Task == {FreeTask} \cup [pc : {"begin", "asleep", "opening"}, restart : BOOLEAN,
                         cancelled : BOOLEAN, resume : BOOLEAN]
Listener == {FreeListener} \cup [pc : {"open", "ended"}, cancelled : BOOLEAN, packet : BOOLEAN]

\* A restart that will clear isRestarting when it ends.
WillClear(task) == task.pc # "free" /\ task.restart /\ ~task.cancelled

\* networkRestartTask is nil or a restart on its way, and there is no other.
HandleIsRestart == restartTask # 0 => WillClear(tasks[restartTask])
OneRestart == \A t \in TaskId : WillClear(tasks[t]) => t = restartTask

\* A restart opens its listener after it made the control channel; only the next path
\* change takes the channel away, and cancels the restart.
OpensWithControl ==
  \A t \in TaskId : tasks[t].pc = "opening" /\ WillClear(tasks[t]) => control # "none"

\* ControlIsBacked from the moment the user asks to listen.
IntentIsServed == listeningIntent => control # "none" \/ isRestarting \/ Starting

IInv == /\ TypeOK
        /\ HandleIsRestart
        /\ OneRestart
        /\ OpensWithControl
        /\ IntentIsServed
        /\ RestartIsBacked
        /\ ListeningIsBacked

-----------------------------------------------------------------------------
(* The pieces that several handlers share                                  *)

LEMMA BoundsAreNat == {MaxTasks, MaxListeners, MaxChanges} \subseteq Nat /\ MaxChanges \in Nat
  BY ReceiverAssumption

LEMMA TaskTypes ==
  ASSUME NEW task \in Task
  PROVE  /\ task.pc \in {"free", "begin", "asleep", "opening"}
         /\ task.restart \in BOOLEAN
         /\ task.cancelled \in BOOLEAN
         /\ task.resume \in BOOLEAN
         /\ task.pc = "free" => task = FreeTask /\ [task EXCEPT !.cancelled = FALSE] = task
         /\ task.pc # "free" =>
              /\ \A c \in BOOLEAN : [task EXCEPT !.cancelled = c] \in Task
              /\ [task EXCEPT !.pc = "opening"] \in Task
<1>1. CASE task = FreeTask
  <2>1. task \in [pc : {"free"}, restart : {FALSE}, cancelled : {FALSE}, resume : {FALSE}]
    BY <1>1 DEF FreeTask
  <2> QED
    BY <1>1, <2>1
<1>2. CASE task \in [pc : {"begin", "asleep", "opening"}, restart : BOOLEAN,
                    cancelled : BOOLEAN, resume : BOOLEAN]
  BY <1>2 DEF Task
<1> QED
  BY <1>1, <1>2 DEF Task

LEMMA ListenerTypes ==
  ASSUME NEW listener \in Listener
  PROVE  /\ listener.pc \in {"free", "open", "ended"}
         /\ listener.cancelled \in BOOLEAN
         /\ listener.packet \in BOOLEAN
         /\ listener.pc = "free" =>
              listener = FreeListener /\ [listener EXCEPT !.cancelled = FALSE] = listener
         /\ listener.pc # "free" =>
              /\ \A c \in BOOLEAN : [listener EXCEPT !.cancelled = c] \in Listener
              /\ \A p \in BOOLEAN : [listener EXCEPT !.packet = p] \in Listener
              /\ [listener EXCEPT !.pc = "ended"] \in Listener
<1>1. CASE listener = FreeListener
  <2>1. listener \in [pc : {"free"}, cancelled : {FALSE}, packet : {FALSE}]
    BY <1>1 DEF FreeListener
  <2> QED
    BY <1>1, <2>1
<1>2. CASE listener \in [pc : {"open", "ended"}, cancelled : BOOLEAN, packet : BOOLEAN]
  BY <1>2 DEF Listener
<1> QED
  BY <1>1, <1>2 DEF Listener

\* networkRestartTask?.cancel() leaves no restart that would clear the flag, and
\* otherwise every task where it is.
LEMMA CancelledRestartLeavesNone ==
  ASSUME TypeOK, OneRestart
  PROVE  /\ CancelledRestart \in [TaskId -> Task]
         /\ \A t \in TaskId : /\ CancelledRestart[t].pc = tasks[t].pc
                              /\ CancelledRestart[t].restart = tasks[t].restart
                              /\ ~WillClear(CancelledRestart[t])
<1>1. tasks \in [TaskId -> Task]
  BY DEF TypeOK, Task
<1>2. ASSUME NEW t \in TaskId
      PROVE  /\ CancelledRestart[t] \in Task
             /\ CancelledRestart[t].pc = tasks[t].pc
             /\ CancelledRestart[t].restart = tasks[t].restart
             /\ ~WillClear(CancelledRestart[t])
  <2>1. tasks[t] \in Task
    BY <1>1
  <2> DEFINE c == tasks[t].cancelled \/ (t = restartTask /\ tasks[t].pc # "free")
  <2>2. CancelledRestart[t] = [tasks[t] EXCEPT !.cancelled = c]
    BY DEF CancelledRestart
  <2>3. c \in BOOLEAN
    BY <2>1, TaskTypes
  <2>4. CASE tasks[t].pc = "free"
    <3>1. tasks[t] = FreeTask /\ c = FALSE
      BY <2>1, <2>4, TaskTypes DEF FreeTask
    <3>2. CancelledRestart[t] = tasks[t]
      BY <2>1, <2>2, <2>4, <3>1, TaskTypes
    <3> QED
      BY <2>1, <2>4, <3>2 DEF WillClear
  <2>5. CASE tasks[t].pc # "free"
    <3>1. CancelledRestart[t] \in Task
      BY <2>1, <2>2, <2>3, <2>5, TaskTypes
    <3>2. /\ CancelledRestart[t].pc = tasks[t].pc
          /\ CancelledRestart[t].restart = tasks[t].restart
          /\ CancelledRestart[t].cancelled = c
      BY <2>1, <2>2 DEF Task, FreeTask
    <3> QED
      BY <3>1, <3>2, <2>5 DEF WillClear, OneRestart
  <2> QED
    BY <2>4, <2>5
<1> QED
  BY <1>2 DEF CancelledRestart

\* stopAudio(preserveIntent: true) keeps the types, and nothing listens.
LEMMA SilencedTypes ==
  ASSUME NEW from \in [ListenerId -> Listener], Silenced(from)
  PROVE  /\ listeners' \in [ListenerId -> Listener]
         /\ receiver' = 0
         /\ isListening' = FALSE
<1>1. ASSUME NEW l \in ListenerId
      PROVE  [from[l] EXCEPT !.cancelled = @ \/ (l = receiver /\ from[l].pc # "free")] \in Listener
  <2>1. from[l] \in Listener
    OBVIOUS
  <2>2. CASE from[l].pc = "free"
    <3>1. from[l].cancelled = FALSE
      BY <2>1, <2>2, ListenerTypes DEF FreeListener
    <3> QED
      BY <2>1, <2>2, <3>1, ListenerTypes
  <2>3. CASE from[l].pc # "free"
    BY <2>1, <2>3, ListenerTypes
  <2> QED
    BY <2>2, <2>3
<1> QED
  BY <1>1 DEF Silenced

\* stopAudio keeps the invariant, whatever its caller did to the listeners.
LEMMA StopAudioKeeps ==
  ASSUME IInv, NEW from \in [ListenerId -> Listener], StopAudio(from), paired' \in BOOLEAN,
         UNCHANGED <<networkVars, control>>
  PROVE  IInv'
<1>1. /\ CancelledRestart \in [TaskId -> Task]
      /\ \A t \in TaskId : ~WillClear(CancelledRestart[t])
  BY CancelledRestartLeavesNone DEF IInv
<1>2. /\ listeners' \in [ListenerId -> Listener]
      /\ receiver' = 0
      /\ isListening' = FALSE
  BY SilencedTypes DEF StopAudio
<1>3. /\ tasks' = CancelledRestart
      /\ restartTask' = 0
      /\ isRestarting' = FALSE
      /\ listeningIntent' = FALSE
  BY DEF StopAudio
<1>4. TypeOK'
  BY <1>1, <1>2, <1>3 DEF IInv, TypeOK, networkVars, Task, Listener
<1> QED
  BY <1>1, <1>2, <1>3, <1>4
     DEF IInv, HandleIsRestart, OneRestart, OpensWithControl, IntentIsServed, RestartIsBacked,
         ListeningIsBacked

\* The end of a task: its slot is free, and handle and flag are cleared with it.
LEMMA EndsKeeps ==
  ASSUME IInv, NEW t \in TaskId, tasks[t].pc # "free", Ends(t)
  PROVE  /\ tasks' \in [TaskId -> Task]
         /\ isRestarting' \in BOOLEAN
         /\ restartTask' \in {0} \cup TaskId
         /\ tasks'[t].pc = "free"
         /\ \A u \in TaskId : u # t => tasks'[u] = tasks[u]
         /\ HandleIsRestart'
         /\ OneRestart'
         /\ isRestarting' => isRestarting /\ restartTask' = restartTask /\ ~WillClear(tasks[t])
         /\ ~WillClear(tasks[t]) => isRestarting' = isRestarting
<1>1. tasks \in [TaskId -> Task]
  BY DEF IInv, TypeOK, Task
<1>2. FreeTask \in Task /\ FreeTask.pc = "free"
  BY DEF Task, FreeTask
<1>3. /\ tasks' \in [TaskId -> Task]
      /\ tasks'[t] = FreeTask
      /\ \A u \in TaskId : u # t => tasks'[u] = tasks[u]
  BY <1>1, <1>2 DEF Ends
<1>4. CASE WillClear(tasks[t])
  BY <1>2, <1>3, <1>4 DEF Ends, WillClear, IInv, HandleIsRestart, OneRestart
<1>5. CASE ~WillClear(tasks[t])
  <2>1. UNCHANGED <<isRestarting, restartTask>>
    BY <1>5 DEF Ends, WillClear
  <2>2. restartTask # t
    BY <1>5 DEF IInv, HandleIsRestart, TaskId
  <2> QED
    BY <1>2, <1>3, <1>5, <2>1, <2>2 DEF WillClear, IInv, HandleIsRestart, OneRestart, TypeOK
<1> QED
  BY <1>4, <1>5

-----------------------------------------------------------------------------
(* The invariant                                                           *)

LEMMA InitIInv == Init => IInv
<1> SUFFICES ASSUME Init PROVE IInv
  OBVIOUS
<1>1. TypeOK
  <2>1. changes \in 0 .. MaxChanges
    BY BoundsAreNat DEF Init
  <2>2. tasks \in [TaskId -> {FreeTask}] /\ listeners \in [ListenerId -> {FreeListener}]
    BY DEF Init
  <2> QED
    BY <2>1, <2>2 DEF Init, TypeOK
<1>2. \A t \in TaskId : tasks[t].pc = "free"
  BY DEF Init, FreeTask
<1> QED
  BY <1>1, <1>2 DEF Init, IInv, HandleIsRestart, OneRestart, WillClear, OpensWithControl,
                    IntentIsServed, RestartIsBacked, ListeningIsBacked

LEMMA StartAudioKeeps == ASSUME IInv, StartAudio PROVE IInv'
<1> USE DEF StartAudio
<1>1. tasks \in [TaskId -> Task]
  BY DEF IInv, TypeOK, Task
<1>2. CASE isRestarting
  BY <1>2 DEF IInv, TypeOK, networkVars, listenerVars, HandleIsRestart, OneRestart,
              OpensWithControl, IntentIsServed, RestartIsBacked, Alive, ListeningIsBacked
<1>3. CASE ~isRestarting
  <2>1. PICK new \in TaskId :
          /\ tasks[new].pc = "free"
          /\ tasks' = [tasks EXCEPT ![new] = [FreeTask EXCEPT !.pc = "begin"]]
    BY <1>3 DEF FirstFree
  <2> DEFINE begun == [FreeTask EXCEPT !.pc = "begin"]
  <2>2. begun \in Task /\ begun.pc = "begin" /\ ~WillClear(begun)
    BY DEF Task, FreeTask, WillClear
  <2>3. /\ tasks' \in [TaskId -> Task]
        /\ tasks'[new] = begun
        /\ \A t \in TaskId : t # new => tasks'[t] = tasks[t]
    BY <1>1, <2>1, <2>2
  <2>4. TypeOK'
    BY <2>3 DEF IInv, TypeOK, Task, networkVars, listenerVars
  <2>5. Starting'
    BY <2>2, <2>3 DEF Starting
  <2>6. restartTask # new
    BY <2>1 DEF IInv, HandleIsRestart, WillClear, TaskId
  <2>7. HandleIsRestart' /\ OneRestart' /\ OpensWithControl'
    BY <2>2, <2>3, <2>6 DEF IInv, TypeOK, HandleIsRestart, OneRestart, OpensWithControl
  <2>8. RestartIsBacked' /\ ListeningIsBacked'
    BY <1>3 DEF IInv, RestartIsBacked, ListeningIsBacked, listenerVars
  <2> QED
    BY <2>4, <2>5, <2>7, <2>8 DEF IInv, IntentIsServed
<1> QED
  BY <1>2, <1>3 DEF IInv, TypeOK

LEMMA StopKeeps == ASSUME IInv, PressStop \/ ForgetPairing PROVE IInv'
<1>1. listeners \in [ListenerId -> Listener]
  BY DEF IInv, TypeOK, Listener
<1>2. StopAudio(listeners) /\ paired' \in BOOLEAN /\ UNCHANGED <<networkVars, control>>
  BY DEF PressStop, ForgetPairing, IInv, TypeOK
<1> QED
  BY <1>1, <1>2, StopAudioKeeps

LEMMA EnsureKeeps == ASSUME IInv, Pair \/ OnAppear PROVE IInv'
<1>1. /\ paired' \in BOOLEAN
      /\ control' \in {"up", "failed"}
      /\ UNCHANGED <<networkVars, sessionVars, taskVars, listenerVars>>
  BY DEF Pair, OnAppear, EnsureControl, StartControl, IInv, TypeOK
<1> QED
  BY <1>1 DEF IInv, TypeOK, networkVars, sessionVars, taskVars, listenerVars, HandleIsRestart,
              OneRestart, OpensWithControl, IntentIsServed, RestartIsBacked, Alive,
              ListeningIsBacked

LEMMA PathLostKeeps == ASSUME IInv, PathLost PROVE IInv'
<1> USE DEF PathLost
<1>1. /\ CancelledRestart \in [TaskId -> Task]
      /\ \A t \in TaskId : /\ CancelledRestart[t].pc = tasks[t].pc
                           /\ ~WillClear(CancelledRestart[t])
  BY CancelledRestartLeavesNone DEF IInv
<1>2. TypeOK'
  <2>1. changes' \in 0 .. MaxChanges
    BY BoundsAreNat DEF IInv, TypeOK
  <2> QED
    BY <1>1, <2>1 DEF IInv, TypeOK, Task, sessionVars, listenerVars
<1>3. HandleIsRestart' /\ OneRestart' /\ OpensWithControl'
  BY <1>1 DEF HandleIsRestart, OneRestart, OpensWithControl
<1>4. IntentIsServed'
  BY <1>1 DEF IInv, IntentIsServed, Starting, sessionVars
<1>5. RestartIsBacked' /\ ListeningIsBacked'
  BY DEF IInv, RestartIsBacked, ListeningIsBacked, sessionVars, listenerVars
<1> QED
  BY <1>2, <1>3, <1>4, <1>5 DEF IInv

LEMMA PathChangedKeeps == ASSUME IInv, PathChanged PROVE IInv'
<1> USE DEF PathChanged, RestartBegins
<1> DEFINE restart == [pc |-> "asleep", restart |-> TRUE, cancelled |-> FALSE,
                       resume |-> listeningIntent]
<1>1. /\ CancelledRestart \in [TaskId -> Task]
      /\ \A t \in TaskId : ~WillClear(CancelledRestart[t])
  BY CancelledRestartLeavesNone DEF IInv
<1>2. PICK new \in TaskId : /\ restartTask' = new
                            /\ tasks' = [CancelledRestart EXCEPT ![new] = restart]
  OBVIOUS
<1>3. restart \in Task /\ restart.pc = "asleep" /\ WillClear(restart)
  BY DEF IInv, TypeOK, Task, WillClear
<1>4. /\ tasks' \in [TaskId -> Task]
      /\ tasks'[new] = restart
      /\ \A t \in TaskId : t # new => ~WillClear(tasks'[t])
  BY <1>1, <1>2, <1>3
<1>5. listeners \in [ListenerId -> Listener]
  BY DEF IInv, TypeOK, Listener
<1>6. /\ listeners' \in [ListenerId -> Listener]
      /\ receiver' \in {0} \cup ListenerId
      /\ isListening' = FALSE
  <2>1. CASE isListening
    BY <2>1, <1>5, SilencedTypes
  <2>2. CASE ~isListening
    BY <2>2, <1>5 DEF IInv, TypeOK, listenerVars
  <2> QED
    BY <2>1, <2>2
<1>7. TypeOK'
  <2>1. changes' \in 0 .. MaxChanges
    BY BoundsAreNat DEF IInv, TypeOK
  <2> QED
    BY <1>2, <1>4, <1>6, <2>1 DEF IInv, TypeOK, Task, Listener
<1>8. HandleIsRestart' /\ OneRestart' /\ OpensWithControl' /\ RestartIsBacked'
  <2>1. new # 0
    BY DEF TaskId
  <2> QED
    BY <2>1, <1>2, <1>3, <1>4
       DEF HandleIsRestart, OneRestart, OpensWithControl, RestartIsBacked, Alive, WillClear
<1> QED
  BY <1>6, <1>7, <1>8 DEF IInv, IntentIsServed, ListeningIsBacked

LEMMA BeginStartKeeps ==
  ASSUME IInv, NEW t \in TaskId, BeginStart(t)
  PROVE  IInv'
<1> USE DEF BeginStart
<1>1. tasks[t] \in Task
  BY DEF IInv, TypeOK, Task
<1>2. control' \in {"up", "failed"}
  BY DEF EnsureControl, StartControl
<1> DEFINE opening == [tasks[t] EXCEPT !.pc = "opening"]
<1>3. /\ opening \in Task
      /\ opening.pc = "opening"
      /\ WillClear(opening) <=> WillClear(tasks[t])
  BY <1>1, TaskTypes DEF WillClear, Task, FreeTask
<1>4. /\ tasks' \in [TaskId -> Task]
      /\ tasks'[t] = opening
      /\ \A u \in TaskId : u # t => tasks'[u] = tasks[u]
  BY <1>3 DEF IInv, TypeOK, Task
<1>5. TypeOK'
  BY <1>2, <1>4 DEF IInv, TypeOK, Task, networkVars, sessionVars, listenerVars
<1>6. HandleIsRestart' /\ OneRestart' /\ OpensWithControl'
  BY <1>2, <1>3, <1>4 DEF IInv, TypeOK, HandleIsRestart, OneRestart, OpensWithControl
<1>7. RestartIsBacked'
  BY <1>6 DEF IInv, TypeOK, RestartIsBacked, HandleIsRestart, Alive, WillClear, sessionVars,
              networkVars
<1> QED
  BY <1>2, <1>5, <1>6, <1>7 DEF IInv, IntentIsServed, ListeningIsBacked, sessionVars, listenerVars

\* What a restart on its way means for the flag, whoever else ended.
LEMMA FlagKeeps ==
  ASSUME IInv, HandleIsRestart', isRestarting' => isRestarting, UNCHANGED <<networkUp, restartTask>>
  PROVE  RestartIsBacked'
  BY DEF IInv, RestartIsBacked, HandleIsRestart, Alive, WillClear

\* A task that ends where nothing but its listener may have changed: the control
\* channel it leaves serves the intent.
LEMMA EndServes ==
  ASSUME IInv, NEW t \in TaskId, tasks[t].pc \notin {"free", "begin"}, Ends(t),
         WillClear(tasks[t]) => control' # "none",
         control # "none" => control' # "none",
         UNCHANGED <<networkUp, listeningIntent>>
  PROVE  /\ OpensWithControl'
         /\ IntentIsServed'
         /\ RestartIsBacked'
<1>1. /\ tasks'[t].pc = "free"
      /\ \A u \in TaskId : u # t => tasks'[u] = tasks[u]
      /\ HandleIsRestart'
      /\ isRestarting' => isRestarting /\ restartTask' = restartTask
      /\ ~WillClear(tasks[t]) => isRestarting' = isRestarting
  BY EndsKeeps
<1>2. OpensWithControl'
  BY <1>1 DEF IInv, OpensWithControl
<1>3. RestartIsBacked'
  BY <1>1, FlagKeeps DEF IInv, RestartIsBacked
<1>4. Starting => Starting'
  BY <1>1 DEF Starting
<1>5. IntentIsServed'
  BY <1>1, <1>4 DEF IInv, IntentIsServed
<1> QED
  BY <1>2, <1>3, <1>5

LEMMA RestartCancelledKeeps ==
  ASSUME IInv, NEW t \in TaskId, RestartCancelled(t)
  PROVE  IInv'
<1> USE DEF RestartCancelled
<1>1. /\ tasks' \in [TaskId -> Task]
      /\ isRestarting' \in BOOLEAN
      /\ restartTask' \in {0} \cup TaskId
      /\ HandleIsRestart'
      /\ OneRestart'
  BY EndsKeeps
<1>2. OpensWithControl' /\ IntentIsServed' /\ RestartIsBacked'
  BY EndServes DEF WillClear, networkVars
<1>3. TypeOK'
  BY <1>1 DEF IInv, TypeOK, Task, networkVars, listenerVars
<1> QED
  BY <1>1, <1>2, <1>3 DEF IInv, ListeningIsBacked, listenerVars

LEMMA RestartWakesKeeps ==
  ASSUME IInv, NEW t \in TaskId, RestartWakes(t)
  PROVE  IInv'
<1> USE DEF RestartWakes, StartControl
<1>1. CASE tasks[t].resume /\ listeningIntent /\ paired
  <2>1. tasks[t] \in Task
    BY DEF IInv, TypeOK, Task
  <2> DEFINE opening == [tasks[t] EXCEPT !.pc = "opening"]
  <2>2. opening \in Task /\ opening.pc = "opening" /\ (WillClear(opening) <=> WillClear(tasks[t]))
    BY <2>1, TaskTypes DEF WillClear, Task, FreeTask
  <2>3. /\ tasks' \in [TaskId -> Task]
        /\ tasks'[t] = opening
        /\ \A u \in TaskId : u # t => tasks'[u] = tasks[u]
        /\ UNCHANGED <<isRestarting, restartTask>>
    BY <1>1, <2>2 DEF IInv, TypeOK, Task
  <2>4. TypeOK'
    BY <2>3 DEF IInv, TypeOK, Task, networkVars, listenerVars
  <2>5. HandleIsRestart' /\ OneRestart'
    BY <2>2, <2>3 DEF IInv, TypeOK, HandleIsRestart, OneRestart
  <2>6. RestartIsBacked'
    BY <2>3, <2>5, FlagKeeps DEF networkVars
  <2> QED
    BY <2>4, <2>5, <2>6 DEF IInv, OpensWithControl, IntentIsServed, ListeningIsBacked, listenerVars
<1>2. CASE ~(tasks[t].resume /\ listeningIntent /\ paired)
  <2>1. Ends(t)
    BY <1>2
  <2>2. /\ tasks' \in [TaskId -> Task]
        /\ isRestarting' \in BOOLEAN
        /\ restartTask' \in {0} \cup TaskId
        /\ HandleIsRestart'
        /\ OneRestart'
    BY <2>1, EndsKeeps
  <2>3. OpensWithControl' /\ IntentIsServed' /\ RestartIsBacked'
    BY <2>1, EndServes DEF networkVars
  <2>4. TypeOK'
    BY <2>2 DEF IInv, TypeOK, Task, networkVars, listenerVars
  <2> QED
    BY <2>2, <2>3, <2>4 DEF IInv, ListeningIsBacked, listenerVars
<1> QED
  BY <1>1, <1>2

LEMMA OpenFailsKeeps ==
  ASSUME IInv, NEW t \in TaskId, OpenFails(t)
  PROVE  IInv'
<1> USE DEF OpenFails
<1>1. /\ tasks' \in [TaskId -> Task]
      /\ isRestarting' \in BOOLEAN
      /\ restartTask' \in {0} \cup TaskId
      /\ HandleIsRestart'
      /\ OneRestart'
  BY EndsKeeps
<1>2. OpensWithControl' /\ IntentIsServed' /\ RestartIsBacked'
  BY EndServes DEF IInv, OpensWithControl, networkVars
<1>3. TypeOK'
  BY <1>1 DEF IInv, TypeOK, Task, networkVars, listenerVars
<1> QED
  BY <1>1, <1>2, <1>3 DEF IInv, ListeningIsBacked, listenerVars

LEMMA OpenReadyKeeps ==
  ASSUME IInv, NEW t \in TaskId, OpenReady(t)
  PROVE  IInv'
<1> USE DEF OpenReady
<1>1. /\ tasks' \in [TaskId -> Task]
      /\ isRestarting' \in BOOLEAN
      /\ restartTask' \in {0} \cup TaskId
      /\ HandleIsRestart'
      /\ OneRestart'
  BY EndsKeeps
<1>2. OpensWithControl' /\ IntentIsServed' /\ RestartIsBacked'
  BY EndServes DEF IInv, OpensWithControl, networkVars
<1> DEFINE opened == [FreeListener EXCEPT !.pc = "open"]
<1>3. opened \in Listener /\ opened.pc = "open" /\ opened.cancelled = FALSE
  BY DEF Listener, FreeListener
<1>4. listeners \in [ListenerId -> Listener]
  BY DEF IInv, TypeOK, Listener
<1>5. PICK new \in ListenerId : /\ listeners' = [listeners EXCEPT ![new] = opened]
                                /\ receiver' = new
  OBVIOUS
<1>6. listeners' \in [ListenerId -> Listener] /\ listeners'[new] = opened
  BY <1>3, <1>4, <1>5
<1>7. TypeOK'
  BY <1>1, <1>5, <1>6 DEF IInv, TypeOK, Task, Listener, networkVars
<1>8. ListeningIsBacked'
  BY <1>3, <1>5, <1>6 DEF ListeningIsBacked, ListenerId
<1> QED
  BY <1>1, <1>2, <1>7, <1>8 DEF IInv

\* A step of an audio task that changes its own record only, to one that is not free.
LEMMA AudioTaskKeeps ==
  ASSUME IInv, NEW l \in ListenerId, NEW record \in Listener,
         record.pc # "free", record.cancelled = listeners[l].cancelled,
         listeners' = [listeners EXCEPT ![l] = record],
         UNCHANGED <<paired, networkVars, sessionVars, control, taskVars, receiver>>
  PROVE  IInv'
<1>1. listeners \in [ListenerId -> Listener]
  BY DEF IInv, TypeOK, Listener
<1>2. /\ listeners' \in [ListenerId -> Listener]
      /\ listeners'[l] = record
      /\ \A k \in ListenerId : k # l => listeners'[k] = listeners[k]
  BY <1>1
<1>3. TypeOK'
  BY <1>2 DEF IInv, TypeOK, Listener, networkVars, sessionVars, taskVars
<1>4. ListeningIsBacked'
  BY <1>2 DEF IInv, TypeOK, ListeningIsBacked, sessionVars
<1> QED
  BY <1>3, <1>4 DEF IInv, networkVars, sessionVars, taskVars, HandleIsRestart, OneRestart,
                    OpensWithControl, IntentIsServed, Starting, RestartIsBacked, Alive

LEMMA PacketKeeps ==
  ASSUME IInv, NEW l \in ListenerId, TakePacket(l) \/ HandlePacket(l)
  PROVE  IInv'
<1>1. listeners[l] \in Listener
  BY DEF IInv, TypeOK, Listener
<1>2. listeners[l].pc # "free"
  <2>1. CASE TakePacket(l)
    BY <2>1 DEF TakePacket
  <2>2. CASE HandlePacket(l)
    <3>1. listeners[l].packet
      BY <2>2 DEF HandlePacket
    <3>2. listeners[l].pc = "free" => listeners[l].packet = FALSE
      BY <1>1 DEF Listener, FreeListener
    <3> QED
      BY <3>1, <3>2
  <2> QED
    BY <2>1, <2>2
<1>3. PICK p \in BOOLEAN : listeners' = [listeners EXCEPT ![l].packet = p]
  BY DEF TakePacket, HandlePacket
<1> DEFINE record == [listeners[l] EXCEPT !.packet = p]
<1>4. record \in Listener /\ record.pc # "free" /\ record.cancelled = listeners[l].cancelled
  <2>1. record \in Listener
    BY <1>1, <1>2, <1>3, ListenerTypes
  <2>2. record.pc = listeners[l].pc /\ record.cancelled = listeners[l].cancelled
    BY <1>1 DEF Listener, FreeListener
  <2> QED
    BY <1>2, <2>1, <2>2
<1>5. listeners' = [listeners EXCEPT ![l] = record]
  BY <1>3
<1> QED
  BY <1>4, <1>5, AudioTaskKeeps DEF TakePacket, HandlePacket

LEMMA StreamEndKeeps ==
  ASSUME IInv, NEW l \in ListenerId, StreamEnds(l) \/ StreamFails(l)
  PROVE  IInv'
<1>1. listeners[l] \in Listener
  BY DEF IInv, TypeOK, Listener
<1> DEFINE record == [listeners[l] EXCEPT !.pc = "ended"]
<1>2. record \in Listener /\ record.pc # "free" /\ record.cancelled = listeners[l].cancelled
  BY <1>1, ListenerTypes DEF Listener, StreamEnds, StreamFails
<1>3. listeners' = [listeners EXCEPT ![l] = record]
  BY DEF StreamEnds, StreamFails
<1> QED
  BY <1>2, <1>3, AudioTaskKeeps DEF StreamEnds, StreamFails

LEMMA TailKeeps ==
  ASSUME IInv, NEW l \in ListenerId, Tail(l)
  PROVE  IInv'
<1> DEFINE others == [listeners EXCEPT ![l] = FreeListener]
<1>1. others \in [ListenerId -> Listener]
  BY DEF IInv, TypeOK, Listener
<1>2. CASE isListening
  <2>1. StopAudio(others) /\ paired' \in BOOLEAN /\ UNCHANGED <<networkVars, control>>
    BY <1>2 DEF Tail, IInv, TypeOK
  <2> QED
    BY <1>1, <2>1, StopAudioKeeps
<1>3. CASE ~isListening
  <2>1. /\ listeners' = others
        /\ UNCHANGED <<paired, networkVars, sessionVars, control, taskVars, receiver>>
    BY <1>3 DEF Tail
  <2>2. TypeOK'
    BY <1>1, <2>1 DEF IInv, TypeOK, Listener, networkVars, sessionVars, taskVars
  <2> QED
    BY <1>3, <2>1, <2>2
       DEF IInv, networkVars, sessionVars, taskVars, HandleIsRestart, OneRestart, OpensWithControl,
           IntentIsServed, Starting, RestartIsBacked, Alive, ListeningIsBacked
<1> QED
  BY <1>2, <1>3

\* IInv is inductive: every handler, task and path change keeps it.
THEOREM Inductive == IInv /\ [Next]_vars => IInv'
<1> SUFFICES ASSUME IInv, [Next]_vars PROVE IInv'
  OBVIOUS
<1>1. CASE StartAudio \/ PressStop \/ ForgetPairing \/ Pair \/ OnAppear \/ PathLost \/ PathChanged
  BY <1>1, StartAudioKeeps, StopKeeps, EnsureKeeps, PathLostKeeps, PathChangedKeeps
<1>2. ASSUME NEW t \in TaskId, TaskSteps(t) \/ OpenFails(t) \/ OpenReady(t)
      PROVE  IInv'
  BY <1>2, BeginStartKeeps, RestartCancelledKeeps, RestartWakesKeeps, OpenFailsKeeps,
     OpenReadyKeeps DEF TaskSteps
<1>3. ASSUME NEW l \in ListenerId, AudioTaskSteps(l) \/ TakePacket(l) \/ StreamFails(l)
      PROVE  IInv'
  BY <1>3, PacketKeeps, StreamEndKeeps, TailKeeps DEF AudioTaskSteps
<1>4. CASE UNCHANGED vars
  BY <1>4 DEF vars, IInv, TypeOK, HandleIsRestart, OneRestart, OpensWithControl, IntentIsServed,
              Starting, RestartIsBacked, Alive, ListeningIsBacked
<1> QED
  BY <1>1, <1>2, <1>3, <1>4 DEF Next

LEMMA Invariance == Spec => []IInv
  BY InitIInv, Inductive, PTL DEF Spec

-----------------------------------------------------------------------------
(* The properties                                                          *)

\* The state of ReceiverModel's life cycle is of its type.
THEOREM ReceiverTypeCorrect == Spec => []TypeOK
<1>1. IInv => TypeOK
  BY DEF IInv
<1> QED
  BY <1>1, Invariance, PTL

\* isRestartingAfterNetworkChange, under which Start does nothing, never stands without a
\* restart that will clear it or a network that is down.
THEOREM RestartFlagIsBacked == Spec => []RestartIsBacked
<1>1. IInv => RestartIsBacked
  BY DEF IInv
<1> QED
  BY <1>1, Invariance, PTL

\* A receiver that shows that it listens has an audio task nobody cancelled, in every
\* order of starts, stops, restarts and tails of earlier tasks.
THEOREM ListeningHasItsTask == Spec => []ListeningIsBacked
<1>1. IInv => ListeningIsBacked
  BY DEF IInv
<1> QED
  BY <1>1, Invariance, PTL

\* A receiver that listens because its user wants it to has a control channel, or a task
\* that will make one, or making it failed.
THEOREM ListeningCanBePinged == Spec => []ControlIsBacked
<1>1. IInv => ControlIsBacked
  BY DEF IInv, IntentIsServed, ControlIsBacked
<1> QED
  BY <1>1, Invariance, PTL

=============================================================================
