-------------------------- MODULE MacSessionProofs --------------------------
(***************************************************************************)
(* Proofs about MacSession, for any endpoints, any number of attempts,     *)
(* tasks, stream tasks and generations.  A cancelled task changes nothing  *)
(* but itself, so the argument is about the tasks nobody cancelled: there  *)
(* is at most one connect or reconnect task, the one in reconnectTask, and *)
(* at most one stream task, the one in streamTask and of the active        *)
(* binding.                                                                *)
(***************************************************************************)
EXTENDS MacSession, TLAPS

Task == [pc : {"free", "begin", "asleep", "verify", "wake", "retry"},
         reconnect : BOOLEAN, cancelled : BOOLEAN,
         attempt : 0 .. MaxAttempts, route : Route, wasMuted : BOOLEAN]
Session == [pc : {"free", "prepare", "stream"}, cancelled : BOOLEAN, binding : Binding]

\* A task (of either kind) that will act on what it finds when it runs.
Live(task) == task.pc # "free" /\ ~task.cancelled

\* Revisions and onChange tasks are no more than the changes, and an entry of the
\* registry has a revision.
RevisionsCount == /\ registry.revision <= events
                  /\ updates <= events
                  /\ Present(registry) => registry.revision > 0

\* A new connect or reconnect task cancels the one before it.
OneTask == \A t \in TaskId : Live(tasks[t]) => t = reconnectTask

\* What a task on its way may rely on when it resumes: the user still wants the
\* stream, the probe was made for a paired phone, no stream is bound any more once the
\* half second is over, and until then its revision is on record.
TaskServes ==
  \A t \in TaskId : Live(tasks[t]) =>
    /\ wanted
    /\ tasks[t].pc = "verify" => paired
    /\ tasks[t].pc # "asleep" => binding = NoBinding
    /\ tasks[t].pc = "asleep" => lastScheduled # 0

\* A new stream task cancels the one before it, and so does everything that takes the
\* binding away from it.
OneStream == \A s \in SessionId : Live(sessions[s]) => s = streamTask /\ IsCurrent(s)

\* Each stream task has a generation of its own, up to the latest.
GenerationsDiffer ==
  /\ \A s \in SessionId : sessions[s].pc # "free" =>
       sessions[s].binding.generation \in 1 .. streamGeneration
  /\ \A s, w \in SessionId :
       sessions[s].pc # "free" /\ sessions[w].pc # "free" /\ s # w =>
         sessions[s].binding.generation # sessions[w].binding.generation
  /\ lastSender <= streamGeneration

\* What is being sent is wanted.
SendingIsWanted == isSending => wanted /\ paired

IInv == /\ TypeOK
        /\ RevisionsCount
        /\ OneTask
        /\ TaskServes
        /\ OneStream
        /\ GenerationsDiffer
        /\ SendingIsWanted
        /\ StreamNeverOrphaned
        /\ StatusIsHonest

-----------------------------------------------------------------------------
(* Types                                                                   *)

LEMMA BoundsAreNat ==
  /\ MaxEvents \in Nat /\ MaxGeneration \in Nat
  /\ MaxAttempts \in Nat /\ MaxAttempts > 0
  BY MacSessionAssumption

LEMMA NoneTypes ==
  /\ Absent \in Route
  /\ NoBinding \in Binding
  /\ FreeTask \in Task
  /\ FreeSession \in Session
<1>1. Absent \in Route
  BY BoundsAreNat DEF Absent, Route, Advertised
<1>2. NoBinding \in Binding
  BY <1>1, BoundsAreNat DEF NoBinding, Binding
<1>3. FreeTask \in Task
  BY <1>1, BoundsAreNat DEF FreeTask, Task
<1>4. FreeSession \in Session
  BY <1>2 DEF FreeSession, Session
<1> QED
  BY <1>1, <1>2, <1>3, <1>4

\* Lookup and Unrouted leave an attempt at the probe, at the wake-up or at its wait, and a
\* probe only for a paired phone.
LEMMA LookupTypes ==
  ASSUME TypeOK, NEW task \in Task
  PROVE  /\ Lookup(task) \in Task
         /\ Lookup(task).pc \in {"verify", "wake", "retry"}
         /\ Lookup(task).cancelled = task.cancelled
         /\ Lookup(task).pc = "verify" => paired
         /\ Unrouted(task) \in Task
         /\ Unrouted(task).pc \in {"wake", "retry"}
         /\ Unrouted(task).cancelled = task.cancelled
<1> DEFINE wakes == (task.attempt - 1) % 4 = 0 /\ paired /\ registry.control # None
<1>1. /\ Unrouted(task) \in Task
      /\ Unrouted(task).pc \in {"wake", "retry"}
      /\ Unrouted(task).cancelled = task.cancelled
  <2>1. \A p \in {"wake", "retry"} :
          LET left == [task EXCEPT !.pc = p, !.route = Absent]
          IN left \in Task /\ left.pc = p /\ left.cancelled = task.cancelled
    BY NoneTypes DEF Task
  <2>2. PICK p \in {"wake", "retry"} : Unrouted(task) = [task EXCEPT !.pc = p, !.route = Absent]
    BY DEF Unrouted
  <2> QED
    BY <2>1, <2>2
<1>2. CASE paired /\ IsReady(registry)
  <2>1. registry \in Route
    BY DEF TypeOK
  <2>2. Lookup(task) = [task EXCEPT !.pc = "verify", !.route = registry]
    BY <1>2 DEF Lookup
  <2> QED
    BY <1>1, <1>2, <2>1, <2>2 DEF Task
<1>3. CASE ~(paired /\ IsReady(registry))
  <2>1. Lookup(task) = Unrouted(task)
    BY <1>3 DEF Lookup
  <2> QED
    BY <1>1, <2>1
<1> QED
  BY <1>2, <1>3

-----------------------------------------------------------------------------
(* The pieces that several handlers share                                  *)

\* reconnectTask?.cancel() leaves nothing on its way.
LEMMA CancelledLeavesNone ==
  ASSUME TypeOK, OneTask
  PROVE  /\ Cancelled(reconnectTask) \in [TaskId -> Task]
         /\ \A t \in TaskId : /\ ~Live(Cancelled(reconnectTask)[t])
                              /\ Cancelled(reconnectTask)[t].pc = tasks[t].pc
<1>1. tasks \in [TaskId -> Task]
  BY DEF TypeOK, Task
<1>2. CASE reconnectTask = 0
  BY <1>1, <1>2 DEF Cancelled, OneTask, TaskId
<1>3. CASE reconnectTask # 0
  <2>1. reconnectTask \in TaskId
    BY <1>3 DEF TypeOK
  <2> DEFINE last == [tasks[reconnectTask] EXCEPT !.cancelled = TRUE]
  <2>2. last \in Task /\ ~Live(last) /\ last.pc = tasks[reconnectTask].pc
    BY <1>1, <2>1 DEF Task, Live
  <2>3. Cancelled(reconnectTask) = [tasks EXCEPT ![reconnectTask] = last]
    BY <1>3 DEF Cancelled
  <2> QED
    BY <1>1, <2>1, <2>2, <2>3 DEF OneTask
<1> QED
  BY <1>2, <1>3

\* After reconnectTask = Task { ... } the new task is the only one on its way.
LEMMA StartTaskLeavesOne ==
  ASSUME TypeOK, OneTask, NEW isReconnect \in BOOLEAN, StartTask(isReconnect)
  PROVE  /\ tasks' \in [TaskId -> Task]
         /\ reconnectTask' \in TaskId
         /\ Live(tasks'[reconnectTask'])
         /\ tasks'[reconnectTask'].pc = IF isReconnect THEN "asleep" ELSE "begin"
         /\ \A t \in TaskId : t # reconnectTask' => ~Live(tasks'[t])
<1> DEFINE new == CHOOSE t \in TaskId : tasks[t].pc = "free"
           started == [FreeTask EXCEPT !.pc = IF isReconnect THEN "asleep" ELSE "begin",
                                       !.reconnect = isReconnect]
<1>1. new \in TaskId
  BY DEF StartTask
<1>2. /\ tasks' = [Cancelled(reconnectTask) EXCEPT ![new] = started]
      /\ reconnectTask' = new
  BY DEF StartTask
<1>3. /\ started \in Task
      /\ started.pc = IF isReconnect THEN "asleep" ELSE "begin"
      /\ ~started.cancelled
  <2>1. FreeTask \in Task /\ FreeTask.cancelled = FALSE
    BY NoneTypes DEF FreeTask
  <2> QED
    BY <2>1 DEF Task
<1>4. Live(started)
  BY <1>3 DEF Live
<1> QED
  BY <1>1, <1>2, <1>3, <1>4, CancelledLeavesNone

\* streamTask?.cancel() leaves no stream task on its way.
LEMMA CancelledStreamLeavesNone ==
  ASSUME TypeOK, OneStream
  PROVE  /\ CancelledStream \in [SessionId -> Session]
         /\ \A s \in SessionId : /\ ~Live(CancelledStream[s])
                                 /\ CancelledStream[s].pc = sessions[s].pc
                                 /\ CancelledStream[s].binding = sessions[s].binding
<1>1. ASSUME NEW s \in SessionId
      PROVE  /\ CancelledStream[s] \in Session
             /\ ~Live(CancelledStream[s])
             /\ CancelledStream[s].pc = sessions[s].pc
             /\ CancelledStream[s].binding = sessions[s].binding
  <2>1. sessions[s] \in Session
    BY DEF TypeOK, Session
  <2> DEFINE c == sessions[s].cancelled \/ (s = streamTask /\ sessions[s].pc # "free")
  <2>2. CancelledStream[s] = [sessions[s] EXCEPT !.cancelled = c]
    BY DEF CancelledStream
  <2>3. c \in BOOLEAN
    BY <2>1 DEF Session
  <2>4. /\ CancelledStream[s] \in Session
        /\ CancelledStream[s].pc = sessions[s].pc
        /\ CancelledStream[s].binding = sessions[s].binding
        /\ CancelledStream[s].cancelled = c
    BY <2>1, <2>2, <2>3 DEF Session
  <2> QED
    BY <2>4 DEF Live, OneStream
<1> QED
  BY <1>1 DEF CancelledStream

\* scheduleReconnect for what is in the registry, while something is to be sent: the new
\* task has all it relies on, and the stream that is not bound has its successor.
LEMMA ScheduleKeeps ==
  ASSUME IInv, NEW receiver \in Route, isSending, ScheduleReconnect(receiver),
         Present(receiver) => receiver.revision > 0,
         UNCHANGED <<paired, wanted, streamGeneration, binding, isSending, sessions>>
  PROVE  /\ lastScheduled' \in 0 .. MaxEvents
         /\ tasks' \in [TaskId -> Task]
         /\ reconnectTask' \in {0} \cup TaskId
         /\ OneTask'
         /\ TaskServes'
         /\ StreamNeverOrphaned'
<1>1. CASE UNCHANGED <<lastScheduled, tasks, reconnectTask>>
  BY <1>1 DEF IInv, TypeOK, Task, OneTask, TaskServes, StreamNeverOrphaned, IsCurrent
<1>2. CASE /\ paired /\ IsReady(receiver)
           /\ lastScheduled' = receiver.revision
           /\ StartTask(TRUE)
  <2>1. /\ tasks' \in [TaskId -> Task]
        /\ reconnectTask' \in TaskId
        /\ Live(tasks'[reconnectTask'])
        /\ tasks'[reconnectTask'].pc = "asleep"
        /\ \A t \in TaskId : t # reconnectTask' => ~Live(tasks'[t])
    BY <1>2, StartTaskLeavesOne DEF IInv
  <2>2. lastScheduled' \in 0 .. MaxEvents /\ lastScheduled' # 0
    BY <1>2 DEF Route, IsReady, Present
  <2>3. OneTask'
    BY <2>1 DEF OneTask
  <2>4. TaskServes'
    BY <2>1, <2>2 DEF TaskServes, IInv, SendingIsWanted
  <2>5. StreamNeverOrphaned'
    BY <2>1 DEF IInv, StreamNeverOrphaned, IsCurrent, Live, TaskId
  <2> QED
    BY <2>1, <2>2, <2>3, <2>4, <2>5
<1> QED
  BY <1>1, <1>2 DEF ScheduleReconnect

\* disconnect leaves no task and no stream on its way, and nothing bound or sent.
LEMMA DisconnectedKeeps ==
  ASSUME IInv, NEW state \in {"searching", "idle"}, Disconnected(state), paired' \in BOOLEAN
  PROVE  IInv'
<1>1. /\ tasks' = Cancelled(reconnectTask)
      /\ tasks' \in [TaskId -> Task]
      /\ \A t \in TaskId : ~Live(tasks'[t])
  BY CancelledLeavesNone DEF Disconnected, IInv
<1>2. /\ sessions' \in [SessionId -> Session]
      /\ \A s \in SessionId : /\ ~Live(sessions'[s])
                              /\ sessions'[s].pc = sessions[s].pc
                              /\ sessions'[s].binding = sessions[s].binding
  BY CancelledStreamLeavesNone DEF Disconnected, IInv
<1>3. /\ streamGeneration' = streamGeneration + 1
      /\ streamGeneration' \in 0 .. MaxGeneration
      /\ streamGeneration \in Nat
  BY BoundsAreNat DEF Disconnected, IInv, TypeOK
<1>4. /\ binding' = NoBinding /\ isSending' = FALSE /\ isMuted' = FALSE /\ wanted' = FALSE
      /\ reconnectTask' = 0 /\ streamTask' = 0 /\ lastScheduled' = 0
      /\ connectionState' = state
      /\ UNCHANGED <<registry, updates, events, lastSender>>
  BY DEF Disconnected, registryVars
<1>5. TypeOK'
  <2>1. 0 \in 0 .. MaxEvents
    BY BoundsAreNat
  <2> QED
    BY <1>1, <1>2, <1>3, <1>4, <2>1, NoneTypes DEF IInv, TypeOK, Task, Session
<1>6. GenerationsDiffer'
  <2>1. \A s \in SessionId : sessions'[s].pc # "free" =>
          sessions'[s].binding.generation \in 1 .. streamGeneration'
    BY <1>2, <1>3 DEF IInv, GenerationsDiffer
  <2>2. lastSender' <= streamGeneration'
    BY <1>3, <1>4 DEF IInv, TypeOK, GenerationsDiffer
  <2> QED
    BY <1>2, <2>1, <2>2 DEF IInv, GenerationsDiffer
<1> QED
  BY <1>1, <1>2, <1>4, <1>5, <1>6
     DEF IInv, RevisionsCount, OneTask, TaskServes, OneStream, SendingIsWanted,
         StreamNeverOrphaned, StatusIsHonest

\* A step of a task that was on its way, or its end: it goes on only with nothing bound.
LEMMA TaskGoesOn ==
  ASSUME IInv, NEW t \in TaskId, NEW task \in Task,
         tasks' = [tasks EXCEPT ![t] = task],
         Live(task) => /\ Live(tasks[t])
                       /\ task.pc # "asleep"
                       /\ task.pc = "verify" => paired
                       /\ binding' = NoBinding,
         binding' \in {binding, NoBinding},
         UNCHANGED <<paired, wanted, lastScheduled, reconnectTask>>
  PROVE  /\ tasks' \in [TaskId -> Task]
         /\ tasks'[t] = task
         /\ \A u \in TaskId : u # t => tasks'[u] = tasks[u]
         /\ OneTask'
         /\ TaskServes'
<1>1. /\ tasks' \in [TaskId -> Task]
      /\ tasks'[t] = task
      /\ \A u \in TaskId : u # t => tasks'[u] = tasks[u]
  BY DEF IInv, TypeOK, Task
<1>2. OneTask'
  BY <1>1 DEF IInv, OneTask
<1>3. TaskServes'
  BY <1>1 DEF IInv, TaskServes
<1> QED
  BY <1>1, <1>2, <1>3

\* finishStreamSession: it clears the controller's state for the stream of the active
\* binding only, and then no other stream task is on its way.
LEMMA FinishStreamKeeps ==
  ASSUME IInv, NEW s \in SessionId, sessions[s].pc # "free",
         NEW state \in {"searching", "idle", "connecting", "streaming", "error"},
         FinishStream(s, state),
         UNCHANGED <<registryVars, paired, streamGeneration, isMuted, lastScheduled, tasks,
                     reconnectTask, historyVars>>
  PROVE  IInv'
<1>1. FreeSession \in Session /\ FreeSession.pc = "free"
  BY NoneTypes DEF FreeSession
<1>2. /\ sessions' \in [SessionId -> Session]
      /\ sessions'[s].pc = "free"
      /\ \A w \in SessionId : w # s => sessions'[w] = sessions[w]
  BY <1>1 DEF FinishStream, IInv, TypeOK, Session
<1>3. GenerationsDiffer'
  BY <1>2 DEF IInv, GenerationsDiffer, historyVars
<1>4. CASE IsCurrent(s)
  <2>1. /\ binding' = NoBinding
        /\ isSending' = FALSE
        /\ streamTask' = 0
        /\ connectionState' \in {"searching", "idle", "connecting", "error"}
    BY <1>4 DEF FinishStream
  <2>2. \A w \in SessionId : w # s /\ sessions[w].pc # "free" => ~IsCurrent(w)
    BY <1>4 DEF IInv, GenerationsDiffer, IsCurrent
  <2>3. OneStream'
    BY <1>2, <2>2 DEF IInv, OneStream, Live
  <2>4. TypeOK'
    BY <1>2, <2>1, NoneTypes DEF IInv, TypeOK, Session, registryVars, historyVars
  <2>5. TaskServes'
    BY <2>1 DEF IInv, TaskServes, historyVars
  <2> QED
    BY <1>3, <2>1, <2>3, <2>4, <2>5
       DEF IInv, RevisionsCount, OneTask, SendingIsWanted, StreamNeverOrphaned, StatusIsHonest,
           registryVars, historyVars
<1>5. CASE ~IsCurrent(s)
  <2>1. UNCHANGED <<binding, isSending, streamTask, connectionState>>
    BY <1>5 DEF FinishStream
  <2>2. TypeOK'
    BY <1>2, <2>1 DEF IInv, TypeOK, Session, registryVars, historyVars
  <2>3. OneStream'
    BY <1>2, <2>1 DEF IInv, OneStream, Live, IsCurrent
  <2>4. StreamNeverOrphaned'
    <3>1. \A w \in SessionId : sessions[w].pc # "free" /\ IsCurrent(w) =>
            sessions'[w].pc # "free" /\ IsCurrent(w)'
      BY <1>2, <1>5, <2>1 DEF IsCurrent
    <3> QED
      BY <2>1, <3>1 DEF IInv, StreamNeverOrphaned
  <2> QED
    BY <1>3, <2>1, <2>2, <2>3, <2>4
       DEF IInv, RevisionsCount, OneTask, TaskServes, SendingIsWanted, StatusIsHonest,
           registryVars, historyVars
<1> QED
  BY <1>4, <1>5

-----------------------------------------------------------------------------
(* The invariant                                                           *)

LEMMA InitIInv == Init => IInv
<1> SUFFICES ASSUME Init PROVE IInv
  OBVIOUS
<1>1. /\ \A t \in TaskId : tasks[t].pc = "free"
      /\ \A s \in SessionId : sessions[s].pc = "free"
  BY DEF Init, FreeTask, FreeSession
<1>2. TypeOK
  <2>1. /\ tasks \in [TaskId -> Task]
        /\ sessions \in [SessionId -> Session]
        /\ registry \in Route
        /\ binding \in Binding
    BY NoneTypes DEF Init
  <2>2. 0 \in 0 .. MaxEvents /\ 0 \in 0 .. MaxGeneration
    BY BoundsAreNat
  <2> QED
    BY <2>1, <2>2 DEF Init, TypeOK, Task, Session
<1>3. RevisionsCount /\ GenerationsDiffer
  BY <1>1 DEF Init, RevisionsCount, GenerationsDiffer, Absent, Present
<1> QED
  BY <1>1, <1>2, <1>3 DEF Init, IInv, OneTask, TaskServes, OneStream, Live, SendingIsWanted,
                          StreamNeverOrphaned, StatusIsHonest

\* A change in the registry that leaves all else alone.
LEMMA UpdatedTypes ==
  ASSUME TypeOK, RevisionsCount, events < MaxEvents, NEW service \in DOMAIN Advertised,
         NEW endpoint \in Advertised[service]
  PROVE  /\ Updated(service, endpoint) \in Route
         /\ Updated(service, endpoint).revision <= events + 1
         /\ Present(Updated(service, endpoint)) => Updated(service, endpoint).revision > 0
<1> DEFINE receiver == [registry EXCEPT ![service] = endpoint, !.revision = @ + 1]
<1>1. registry \in Route /\ events \in Nat /\ registry.revision \in Nat
  BY BoundsAreNat DEF TypeOK, Route
<1>2. service \in {"audio", "control"}
  BY DEF Advertised
<1>3. /\ receiver \in Route
      /\ receiver.revision = registry.revision + 1
  <2>1. registry.revision + 1 \in 0 .. MaxEvents
    BY <1>1, BoundsAreNat DEF RevisionsCount
  <2>2. CASE service = "audio"
    <3>1. endpoint \in Advertised.audio
      BY <2>2
    <3>2. receiver = [registry EXCEPT !.audio = endpoint, !.revision = @ + 1]
      BY <2>2
    <3> QED
      BY <1>1, <2>1, <3>1, <3>2 DEF Route
  <2>3. CASE service = "control"
    <3>1. endpoint \in Advertised.control
      BY <2>3
    <3>2. receiver = [registry EXCEPT !.control = endpoint, !.revision = @ + 1]
      BY <2>3
    <3> QED
      BY <1>1, <2>1, <3>1, <3>2 DEF Route
  <2> QED
    BY <1>2, <2>2, <2>3
<1>4. CASE Present(receiver)
  <2>1. Updated(service, endpoint) = receiver
    BY <1>4 DEF Updated
  <2>2. registry.revision + 1 <= events + 1 /\ registry.revision + 1 > 0
    BY <1>1 DEF RevisionsCount
  <2> HIDE DEF receiver
  <2> QED
    BY <1>3, <2>1, <2>2
<1>5. CASE ~Present(receiver)
  <2>1. Updated(service, endpoint) = Absent
    BY <1>5 DEF Updated
  <2> QED
    BY <1>1, <2>1, NoneTypes DEF Absent, Present
<1> QED
  BY <1>4, <1>5

LEMMA BrowseKeeps ==
  ASSUME IInv, NEW service \in DOMAIN Advertised, NEW endpoint \in Advertised[service],
         Browse(service, endpoint)
  PROVE  IInv'
<1> USE DEF Browse
<1>1. /\ registry' \in Route
      /\ registry'.revision <= events + 1
      /\ Present(registry') => registry'.revision > 0
  BY UpdatedTypes DEF IInv
<1>2. /\ events' = events + 1 /\ events' \in 0 .. MaxEvents
      /\ updates' = updates + 1 /\ updates' \in 0 .. MaxEvents /\ updates' <= events'
  BY BoundsAreNat DEF IInv, TypeOK, RevisionsCount
<1>3. TypeOK' /\ RevisionsCount'
  BY <1>1, <1>2 DEF IInv, TypeOK, RevisionsCount, streamVars
<1> QED
  BY <1>3 DEF IInv, OneTask, TaskServes, OneStream, GenerationsDiffer, SendingIsWanted,
              StreamNeverOrphaned, StatusIsHonest, streamVars, IsCurrent

LEMMA ConnectKeeps == ASSUME IInv, ConnectAndStream PROVE IInv'
<1> USE DEF ConnectAndStream
<1>1. /\ tasks' \in [TaskId -> Task]
      /\ reconnectTask' \in TaskId
      /\ tasks'[reconnectTask'].pc = "begin"
      /\ \A t \in TaskId : t # reconnectTask' => ~Live(tasks'[t])
  BY StartTaskLeavesOne DEF IInv
<1>2. binding = NoBinding
  BY DEF IInv, StreamNeverOrphaned
<1>3. TypeOK'
  BY <1>1 DEF IInv, TypeOK, Task, streamVars
<1>4. OneTask' /\ TaskServes'
  BY <1>1, <1>2 DEF OneTask, TaskServes
<1>5. OneStream' /\ GenerationsDiffer'
  BY DEF IInv, OneStream, GenerationsDiffer, IsCurrent, streamVars
<1> QED
  BY <1>2, <1>3, <1>4, <1>5
     DEF IInv, RevisionsCount, SendingIsWanted, StreamNeverOrphaned, StatusIsHonest

LEMMA RestStateTypes == RestState \in {"searching", "idle"}
  BY DEF RestState

LEMMA StopKeeps == ASSUME IInv, Disconnect \/ ForgetPairing PROVE IInv'
<1>1. PICK state \in {"searching", "idle"} : Disconnected(state)
  BY RestStateTypes DEF Disconnect, ForgetPairing
<1>2. paired' \in BOOLEAN
  BY DEF Disconnect, ForgetPairing, IInv, TypeOK
<1> QED
  BY <1>1, <1>2, DisconnectedKeeps

\* A request to pair finds nothing being sent, so that "idle" is true.
LEMMA PairRequestKeeps == ASSUME IInv, PairRequest PROVE IInv'
<1> USE DEF PairRequest
<1>1. isSending = FALSE
  BY DEF IInv, TypeOK, SendingIsWanted
<1>2. TypeOK'
  BY DEF IInv, TypeOK, streamVars, historyVars
<1>3. StreamNeverOrphaned' /\ StatusIsHonest' /\ SendingIsWanted'
  BY <1>1 DEF IInv, StreamNeverOrphaned, StatusIsHonest, SendingIsWanted, IsCurrent, streamVars
<1> QED
  BY <1>2, <1>3 DEF IInv, RevisionsCount, OneTask, TaskServes, OneStream, GenerationsDiffer,
                    IsCurrent, streamVars, historyVars

LEMMA ToggleMuteKeeps == ASSUME IInv, ToggleMute PROVE IInv'
<1> USE DEF ToggleMute
<1>1. TypeOK'
  BY DEF IInv, TypeOK, streamVars
<1> QED
  BY <1>1 DEF IInv, RevisionsCount, OneTask, TaskServes, OneStream, GenerationsDiffer,
              SendingIsWanted, StreamNeverOrphaned, StatusIsHonest, IsCurrent, streamVars

\* The three handlers that end in scheduleReconnect, with what they change beside it.
LEMMA RescheduleKeeps ==
  ASSUME IInv, TypeOK', RevisionsCount', OneTask', TaskServes', StreamNeverOrphaned',
         StatusIsHonest',
         UNCHANGED <<paired, wanted, streamGeneration, binding, isSending, sessions, streamTask,
                     lastSender>>
  PROVE  IInv'
  BY DEF IInv, OneStream, GenerationsDiffer, SendingIsWanted, IsCurrent

LEMMA HandleUpdateKeeps == ASSUME IInv, HandleUpdate PROVE IInv'
<1> USE DEF HandleUpdate
<1>1. /\ updates' \in 0 .. MaxEvents
      /\ updates' <= events
      /\ UNCHANGED <<registry, paired, streamGeneration, binding, isSending, isMuted, sessions,
                     streamTask, lastSender, events, wanted>>
  BY BoundsAreNat DEF IInv, TypeOK, RevisionsCount, streamVars, historyVars
<1>2. RevisionsCount'
  BY <1>1 DEF IInv, RevisionsCount
<1>3. CASE /\ isSending
           /\ ScheduleReconnect(registry)
           /\ UNCHANGED connectionState
  <2>1. registry \in Route /\ (Present(registry) => registry.revision > 0)
    BY DEF IInv, TypeOK, RevisionsCount
  <2>2. /\ lastScheduled' \in 0 .. MaxEvents
        /\ tasks' \in [TaskId -> Task]
        /\ reconnectTask' \in {0} \cup TaskId
        /\ OneTask' /\ TaskServes' /\ StreamNeverOrphaned'
    BY <1>1, <1>3, <2>1, ScheduleKeeps
  <2>3. TypeOK' /\ StatusIsHonest'
    BY <1>1, <1>3, <2>2 DEF IInv, TypeOK, Task, StatusIsHonest
  <2> QED
    BY <1>1, <1>2, <2>2, <2>3, RescheduleKeeps
<1>4. CASE /\ UNCHANGED <<lastScheduled, tasks, reconnectTask>>
           /\ \/ isSending /\ UNCHANGED connectionState
              \/ ~isSending /\ connectionState' = RestState
  <2>1. TypeOK' /\ StatusIsHonest'
    BY <1>1, <1>4, RestStateTypes DEF IInv, TypeOK, StatusIsHonest
  <2>2. OneTask' /\ TaskServes' /\ StreamNeverOrphaned'
    BY <1>1, <1>4 DEF IInv, OneTask, TaskServes, StreamNeverOrphaned, IsCurrent
  <2> QED
    BY <1>1, <1>2, <2>1, <2>2, RescheduleKeeps
<1> QED
  BY <1>3, <1>4

LEMMA PathChangeKeeps ==
  ASSUME IInv, NEW ipChanged \in BOOLEAN, NetworkPathChange(ipChanged)
  PROVE  IInv'
<1> USE DEF NetworkPathChange
<1>1. /\ events' = events + 1 /\ events' \in 0 .. MaxEvents
      /\ UNCHANGED <<updates, paired, streamGeneration, binding, isSending, connectionState,
                     isMuted, sessions, streamTask, lastSender, wanted>>
  BY BoundsAreNat DEF IInv, TypeOK, streamVars
<1>2. registry' \in Route /\ registry'.revision <= events' /\ (Present(registry') => registry'.revision > 0)
  <2>1. CASE registry' = Absent
    BY <1>1, <2>1, NoneTypes DEF Absent, Present
  <2>2. CASE registry' = registry
    BY <1>1, <2>2, BoundsAreNat DEF IInv, TypeOK, RevisionsCount, Route
  <2> QED
    BY <2>1, <2>2
<1>3. RevisionsCount'
  BY <1>1, <1>2, BoundsAreNat DEF IInv, TypeOK, RevisionsCount
<1>4. /\ lastScheduled' \in 0 .. MaxEvents
      /\ tasks' \in [TaskId -> Task]
      /\ reconnectTask' \in {0} \cup TaskId
      /\ OneTask' /\ TaskServes' /\ StreamNeverOrphaned'
  <2>1. CASE isSending
    BY <1>1, <1>2, <2>1, ScheduleKeeps
  <2>2. CASE ~isSending
    BY <1>1, <2>2 DEF IInv, TypeOK, Task, OneTask, TaskServes, StreamNeverOrphaned, IsCurrent
  <2> QED
    BY <2>1, <2>2
<1>5. TypeOK' /\ StatusIsHonest'
  BY <1>1, <1>2, <1>4 DEF IInv, TypeOK, Task, StatusIsHonest
<1> QED
  BY <1>1, <1>3, <1>4, <1>5, RescheduleKeeps

LEMMA PongKeeps == ASSUME IInv, Pong PROVE IInv'
<1> USE DEF Pong
<1>1. UNCHANGED <<registry, updates, paired, streamGeneration, binding, isSending,
                  connectionState, isMuted, sessions, streamTask, lastSender, events, wanted>>
  BY DEF streamVars, historyVars
<1>2. registry \in Route /\ (Present(registry) => registry.revision > 0)
  BY DEF IInv, TypeOK, RevisionsCount
<1>3. /\ lastScheduled' \in 0 .. MaxEvents
      /\ tasks' \in [TaskId -> Task]
      /\ reconnectTask' \in {0} \cup TaskId
      /\ OneTask' /\ TaskServes' /\ StreamNeverOrphaned'
  BY <1>1, <1>2, ScheduleKeeps
<1>4. TypeOK' /\ RevisionsCount' /\ StatusIsHonest'
  BY <1>1, <1>3 DEF IInv, TypeOK, Task, RevisionsCount, StatusIsHonest
<1> QED
  BY <1>1, <1>3, <1>4, RescheduleKeeps

-----------------------------------------------------------------------------
(* Connect and reconnect tasks                                             *)

\* A step that changes a task's own record only.
LEMMA TaskAloneKeeps ==
  ASSUME IInv, NEW t \in TaskId, NEW task \in Task,
         tasks' = [tasks EXCEPT ![t] = task],
         ~Live(tasks[t]) \/ tasks[t].pc # "asleep",
         Live(task) <=> Live(tasks[t]),
         Live(task) => task.pc # "asleep" /\ (task.pc = "verify" => paired),
         UNCHANGED <<registry, updates, paired, streamGeneration, binding, isSending,
                     connectionState, isMuted, lastScheduled, reconnectTask, sessions, streamTask,
                     lastSender, events, wanted>>
  PROVE  IInv'
<1>1. Live(task) => binding' = NoBinding
  BY DEF IInv, TaskServes
<1>2. /\ tasks' \in [TaskId -> Task]
      /\ tasks'[t] = task
      /\ \A u \in TaskId : u # t => tasks'[u] = tasks[u]
      /\ OneTask' /\ TaskServes'
  BY <1>1, TaskGoesOn
<1>3. TypeOK'
  BY <1>2 DEF IInv, TypeOK, Task
<1>4. StreamNeverOrphaned'
  BY <1>2 DEF IInv, StreamNeverOrphaned, IsCurrent, Live, TypeOK
<1> QED
  BY <1>2, <1>3, <1>4 DEF IInv, RevisionsCount, OneStream, GenerationsDiffer, SendingIsWanted,
                          StatusIsHonest, IsCurrent

LEMMA TaskCancelledKeeps ==
  ASSUME IInv, NEW t \in TaskId, TaskCancelled(t)
  PROVE  IInv'
<1>1. ~Live(tasks[t]) /\ ~Live(FreeTask) /\ FreeTask \in Task
  BY NoneTypes DEF TaskCancelled, Live, FreeTask
<1> QED
  BY <1>1, TaskAloneKeeps DEF TaskCancelled, Ends, registryVars, streamVars, historyVars

\* The steps of an attempt between two suspensions.
LEMMA AttemptKeeps ==
  ASSUME IInv, NEW t \in TaskId, Retry(t) \/ VerifyFails(t) \/ WakeDone(t)
  PROVE  IInv'
<1>1. tasks[t] \in Task /\ Live(tasks[t]) /\ tasks[t].pc # "asleep" /\ TypeOK
  BY DEF IInv, TypeOK, Task, Retry, VerifyFails, WakeDone, Live
<1>2. UNCHANGED <<registry, updates, paired, streamGeneration, binding, isSending,
                  connectionState, isMuted, lastScheduled, reconnectTask, sessions, streamTask,
                  lastSender, events, wanted>>
  BY DEF Retry, VerifyFails, WakeDone, registryVars, streamVars, historyVars
<1>3. CASE Retry(t)
  <2> DEFINE next == [tasks[t] EXCEPT !.attempt = @ + 1]
  <2>1. next \in Task /\ next.cancelled = tasks[t].cancelled
    BY <1>1, <1>3, BoundsAreNat DEF Task, Retry
  <2>2. tasks' = [tasks EXCEPT ![t] = Lookup(next)]
    BY <1>3 DEF Retry
  <2>3. /\ Lookup(next) \in Task /\ Live(Lookup(next)) /\ Lookup(next).pc # "asleep"
        /\ Lookup(next).pc = "verify" => paired
    BY <1>1, <2>1, LookupTypes DEF Live
  <2> QED
    BY <1>1, <1>2, <2>2, <2>3, TaskAloneKeeps
<1>4. CASE VerifyFails(t)
  <2>1. tasks' = [tasks EXCEPT ![t] = Unrouted(tasks[t])]
    BY <1>4 DEF VerifyFails
  <2>2. /\ Unrouted(tasks[t]) \in Task /\ Live(Unrouted(tasks[t]))
        /\ Unrouted(tasks[t]).pc \notin {"asleep", "verify"}
    BY <1>1, LookupTypes DEF Live
  <2> QED
    BY <1>1, <1>2, <2>1, <2>2, TaskAloneKeeps
<1>5. CASE WakeDone(t)
  <2> DEFINE next == [tasks[t] EXCEPT !.pc = "retry"]
  <2>1. tasks' = [tasks EXCEPT ![t] = next]
    BY <1>5 DEF WakeDone
  <2>2. next \in Task /\ next.pc = "retry" /\ next.cancelled = tasks[t].cancelled
    BY <1>1 DEF Task
  <2>3. Live(next)
    BY <1>1, <2>2 DEF Live
  <2> QED
    BY <1>1, <1>2, <2>1, <2>2, <2>3, TaskAloneKeeps
<1> QED
  BY <1>3, <1>4, <1>5

\* The beginning of a connect or reconnect: it cancels the stream task and leaves nothing
\* bound, and it is the task that will start the next stream.
LEMMA BeginKeeps ==
  ASSUME IInv, NEW t \in TaskId, BeginConnect(t) \/ BeginReconnect(t)
  PROVE  IInv'
<1>1. tasks[t] \in Task /\ Live(tasks[t]) /\ TypeOK
  BY DEF IInv, TypeOK, Task, BeginConnect, BeginReconnect, Live
<1>2. /\ sessions' \in [SessionId -> Session]
      /\ \A s \in SessionId : /\ ~Live(sessions'[s])
                              /\ sessions'[s].pc = sessions[s].pc
                              /\ sessions'[s].binding = sessions[s].binding
  BY CancelledStreamLeavesNone DEF IInv, BeginConnect, BeginReconnect
<1>3. UNCHANGED <<registry, updates, paired, streamGeneration, isSending, connectionState,
                  isMuted, lastScheduled, reconnectTask, streamTask, lastSender, events, wanted>>
  BY DEF BeginConnect, BeginReconnect, registryVars, historyVars
<1>4. binding' = NoBinding
  <2>1. CASE BeginConnect(t)
    BY <1>1, <2>1 DEF BeginConnect, IInv, TaskServes
  <2>2. CASE BeginReconnect(t)
    BY <2>2 DEF BeginReconnect
  <2> QED
    BY <2>1, <2>2
<1>5. PICK from \in Task : /\ from.cancelled = tasks[t].cancelled
                           /\ tasks' = [tasks EXCEPT ![t] = Lookup(from)]
  <2>1. CASE BeginConnect(t)
    <3> DEFINE from == [tasks[t] EXCEPT !.attempt = 1]
    <3>1. from \in Task /\ from.cancelled = tasks[t].cancelled
      BY <1>1, BoundsAreNat DEF Task
    <3> QED
      BY <2>1, <3>1 DEF BeginConnect
  <2>2. CASE BeginReconnect(t)
    <3> DEFINE from == [tasks[t] EXCEPT !.attempt = 1, !.wasMuted = isMuted]
    <3>1. from \in Task /\ from.cancelled = tasks[t].cancelled
      <4>1. isMuted \in BOOLEAN
        BY <1>1 DEF TypeOK
      <4>2. 1 \in 0 .. MaxAttempts
        BY BoundsAreNat
      <4> QED
        BY <1>1, <4>1, <4>2 DEF Task
    <3> QED
      BY <2>2, <3>1 DEF BeginReconnect
  <2> QED
    BY <2>1, <2>2
<1>6. /\ Lookup(from) \in Task /\ Live(Lookup(from)) /\ Lookup(from).pc # "asleep"
      /\ Lookup(from).pc = "verify" => paired
  BY <1>1, <1>5, LookupTypes DEF Live
<1>7. /\ tasks' \in [TaskId -> Task]
      /\ Live(tasks'[t])
      /\ OneTask' /\ TaskServes'
  BY <1>1, <1>3, <1>4, <1>5, <1>6, TaskGoesOn
<1>8. TypeOK'
  BY <1>1, <1>2, <1>3, <1>4, <1>7, NoneTypes DEF TypeOK, Task, Session
<1>9. StreamNeverOrphaned'
  <2>1. reconnectTask' = t /\ t # 0
    BY <1>7 DEF OneTask, TaskId
  <2> QED
    BY <1>4, <1>7, <2>1 DEF StreamNeverOrphaned, Live
<1>10. GenerationsDiffer'
  BY <1>2, <1>3 DEF IInv, GenerationsDiffer
<1> QED
  BY <1>2, <1>3, <1>7, <1>8, <1>9, <1>10
     DEF IInv, RevisionsCount, OneStream, SendingIsWanted, StatusIsHonest

\* The mute state a task leaves.
LEMMA MuteTypes ==
  ASSUME TypeOK, NEW t \in TaskId
  PROVE  MuteAfter(t) \in BOOLEAN
  BY DEF TypeOK, MuteAfter

\* A reconnect that gives up clears isSending, and nothing was bound.
LEMMA GiveUpKeeps ==
  ASSUME IInv, NEW t \in TaskId, GiveUp(t)
  PROVE  IInv'
<1> USE DEF GiveUp
<1>1. /\ binding = NoBinding /\ binding' = NoBinding
      /\ isSending' = FALSE
      /\ connectionState' \in {"searching", "idle"}
      /\ isMuted' \in BOOLEAN
      /\ UNCHANGED <<registry, updates, paired, streamGeneration, lastScheduled, reconnectTask,
                     sessions, streamTask, lastSender, events, wanted>>
  BY RestStateTypes, MuteTypes
     DEF IInv, TaskServes, Live, registryVars, streamVars, historyVars
<1>2. FreeTask \in Task /\ ~Live(FreeTask)
  BY NoneTypes DEF FreeTask, Live
<1>3. tasks' \in [TaskId -> Task] /\ OneTask' /\ TaskServes'
  BY <1>1, <1>2, TaskGoesOn DEF Ends
<1>4. TypeOK'
  BY <1>1, <1>3 DEF IInv, TypeOK, Task
<1> QED
  BY <1>1, <1>3, <1>4 DEF IInv, RevisionsCount, OneStream, GenerationsDiffer, SendingIsWanted,
                          StreamNeverOrphaned, StatusIsHonest, IsCurrent

\* startStreaming: the new stream task has the binding, a generation above every other, and
\* is the only one on its way; so was the task that started it.
LEMMA VerifySucceedsKeeps ==
  ASSUME IInv, NEW t \in TaskId, VerifySucceeds(t)
  PROVE  IInv'
<1> DEFINE route == tasks[t].route
           bound == [generation |-> streamGeneration + 1, route |-> route]
           started == [FreeSession EXCEPT !.pc = "prepare", !.binding = bound]
<1>1. tasks[t] \in Task /\ Live(tasks[t]) /\ tasks[t].pc = "verify" /\ TypeOK
  BY DEF IInv, TypeOK, Task, VerifySucceeds, Live
<1>2. wanted /\ paired /\ \A u \in TaskId : Live(tasks[u]) => u = t
  BY <1>1 DEF IInv, TaskServes, OneTask
<1>3. PICK new \in SessionId : /\ sessions[new] = FreeSession
                               /\ sessions' = [CancelledStream EXCEPT ![new] = started]
                               /\ streamTask' = new
  BY DEF VerifySucceeds, StartStreaming
<1>4. /\ streamGeneration < MaxGeneration
      /\ streamGeneration' = streamGeneration + 1
      /\ binding' = bound
      /\ lastScheduled' = 0 /\ isSending' = TRUE /\ connectionState' = "connecting"
  BY DEF VerifySucceeds, StartStreaming
<1>5. /\ isMuted' \in BOOLEAN
      /\ tasks' = [tasks EXCEPT ![t] = FreeTask]
      /\ UNCHANGED <<registry, updates, paired, reconnectTask, lastSender, events, wanted>>
  BY <1>1, MuteTypes DEF VerifySucceeds, Ends, registryVars, historyVars
<1>6. /\ streamGeneration \in Nat
      /\ streamGeneration' \in 0 .. MaxGeneration
      /\ bound \in Binding
      /\ bound.generation = streamGeneration + 1
      /\ bound # NoBinding
  <2>1. streamGeneration \in Nat /\ streamGeneration + 1 \in 0 .. MaxGeneration
    BY <1>1, <1>4, BoundsAreNat DEF TypeOK
  <2>2. route \in Route
    BY <1>1 DEF Task
  <2> QED
    BY <1>4, <2>1, <2>2 DEF Binding, NoBinding
<1> HIDE DEF bound
<1>7. /\ started \in Session
      /\ started.pc = "prepare" /\ ~started.cancelled /\ started.binding = bound
  <2>1. FreeSession \in Session /\ FreeSession.cancelled = FALSE
    BY NoneTypes DEF FreeSession
  <2> QED
    BY <1>6, <2>1 DEF Session
<1> HIDE DEF started
<1>8. /\ sessions' \in [SessionId -> Session]
      /\ sessions'[new] = started
      /\ \A s \in SessionId : s # new => /\ ~Live(sessions'[s])
                                         /\ sessions'[s].pc = sessions[s].pc
                                         /\ sessions'[s].binding = sessions[s].binding
  BY <1>3, <1>4, <1>7, CancelledStreamLeavesNone DEF IInv
<1>9. tasks' \in [TaskId -> Task] /\ \A u \in TaskId : ~Live(tasks'[u])
  <2>1. FreeTask \in Task /\ ~Live(FreeTask)
    BY NoneTypes DEF FreeTask, Live
  <2> QED
    BY <1>1, <1>2, <1>5, <2>1 DEF TypeOK, Task
<1>10. IsCurrent(new)'
  BY <1>4, <1>6, <1>7, <1>8 DEF IsCurrent
<1>11. TypeOK'
  <2>1. 0 \in 0 .. MaxEvents
    BY BoundsAreNat
  <2> QED
    BY <1>1, <1>3, <1>4, <1>5, <1>6, <1>8, <1>9, <2>1 DEF TypeOK, Task, Session
<1>12. GenerationsDiffer'
  <2>1. \A s \in SessionId : s # new /\ sessions'[s].pc # "free" =>
          /\ sessions'[s].binding.generation \in 1 .. streamGeneration
          /\ sessions'[s].binding.generation = sessions[s].binding.generation
          /\ sessions[s].pc # "free"
    BY <1>8 DEF IInv, GenerationsDiffer
  <2>2. sessions'[new].binding.generation = streamGeneration + 1
    BY <1>6, <1>7, <1>8
  <2>3. lastSender' <= streamGeneration'
    BY <1>1, <1>4, <1>5, <1>6 DEF IInv, TypeOK, GenerationsDiffer
  <2>4. \A s \in SessionId : sessions'[s].pc # "free" =>
          sessions'[s].binding.generation \in 1 .. streamGeneration'
    BY <1>4, <1>6, <2>1, <2>2
  <2>5. ASSUME NEW s \in SessionId, NEW w \in SessionId, s # w,
               sessions'[s].pc # "free", sessions'[w].pc # "free"
        PROVE  sessions'[s].binding.generation # sessions'[w].binding.generation
    <3>1. CASE s # new /\ w # new
      BY <2>1, <2>5, <3>1 DEF IInv, GenerationsDiffer
    <3>2. CASE s = new \/ w = new
      BY <1>6, <2>1, <2>2, <2>5, <3>2
    <3> QED
      BY <3>1, <3>2
  <2> QED
    BY <2>3, <2>4, <2>5 DEF GenerationsDiffer
<1>13. OneStream' /\ StreamNeverOrphaned'
  BY <1>3, <1>4, <1>6, <1>7, <1>8, <1>10 DEF OneStream, StreamNeverOrphaned
<1> QED
  BY <1>2, <1>4, <1>5, <1>9, <1>11, <1>12, <1>13
     DEF IInv, RevisionsCount, OneTask, TaskServes, SendingIsWanted, StatusIsHonest

-----------------------------------------------------------------------------
(* Stream tasks                                                            *)

\* A stream task that is current is that of the active binding, so that it is being sent.
LEMMA CurrentIsSending ==
  ASSUME IInv, NEW s \in SessionId, sessions[s].pc # "free", IsCurrent(s)
  PROVE  binding # NoBinding /\ isSending
<1>1. sessions[s].binding.generation # 0
  BY DEF IInv, TypeOK, GenerationsDiffer
<1> QED
  BY <1>1 DEF IInv, IsCurrent, NoBinding, StreamNeverOrphaned

LEMMA PrepareKeeps ==
  ASSUME IInv, NEW s \in SessionId, PrepareDone(s) \/ PrepareFails(s) \/ StreamStops(s)
  PROVE  IInv'
<1>1. /\ sessions[s].pc # "free"
      /\ UNCHANGED <<registryVars, paired, streamGeneration, isMuted, lastScheduled, tasks,
                     reconnectTask, historyVars>>
  BY DEF PrepareDone, PrepareFails, StreamStops
<1>2. CASE \E state \in {"searching", "idle", "connecting", "streaming", "error"} :
             FinishStream(s, state)
  BY <1>1, <1>2, FinishStreamKeeps
<1>3. CASE /\ IsCurrent(s)
           /\ sessions' = [sessions EXCEPT ![s].pc = "stream"]
           /\ connectionState' = "streaming"
           /\ UNCHANGED <<binding, isSending, streamTask>>
  <2>1. isSending
    BY <1>1, <1>3, CurrentIsSending
  <2>2. /\ sessions' \in [SessionId -> Session]
        /\ \A w \in SessionId : /\ sessions'[w].pc = "free" <=> sessions[w].pc = "free"
                                /\ sessions'[w].cancelled = sessions[w].cancelled
                                /\ sessions'[w].binding = sessions[w].binding
    BY <1>1, <1>3 DEF IInv, TypeOK, Session
  <2>3. \A w \in SessionId : /\ Live(sessions'[w]) <=> Live(sessions[w])
                             /\ IsCurrent(w)' <=> IsCurrent(w)
    BY <1>1, <1>3, <2>2 DEF Live, IsCurrent
  <2>4. TypeOK'
    BY <1>1, <1>3, <2>2 DEF IInv, TypeOK, Session, registryVars, historyVars
  <2>5. OneStream' /\ GenerationsDiffer' /\ StreamNeverOrphaned'
    BY <1>1, <1>3, <2>2, <2>3
       DEF IInv, OneStream, GenerationsDiffer, StreamNeverOrphaned, historyVars
  <2>6. TaskServes' /\ OneTask' /\ RevisionsCount'
    BY <1>1, <1>3 DEF IInv, TaskServes, OneTask, RevisionsCount, registryVars, historyVars
  <2> QED
    BY <1>1, <1>3, <2>1, <2>4, <2>5, <2>6 DEF IInv, SendingIsWanted, StatusIsHonest, historyVars
<1>4. connectionState \in {"searching", "idle", "connecting", "streaming", "error"}
  BY DEF IInv, TypeOK
<1> QED
  BY <1>2, <1>3, <1>4 DEF PrepareDone, PrepareFails, StreamStops

\* A packet is sent by the stream task of the latest generation.
LEMMA SendPacketKeeps ==
  ASSUME IInv, NEW s \in SessionId, SendPacket(s)
  PROVE  IInv' /\ lastSender' = streamGeneration /\ isSending
<1> USE DEF SendPacket
<1>1. isSending
  BY CurrentIsSending
<1>2. lastSender' = streamGeneration /\ lastSender' \in 0 .. MaxGeneration
  BY DEF IsCurrent, IInv, TypeOK
<1>3. TypeOK'
  BY <1>2 DEF IInv, TypeOK, registryVars, streamVars
<1>4. GenerationsDiffer'
  BY <1>2, BoundsAreNat DEF IInv, TypeOK, GenerationsDiffer, streamVars
<1>5. UNCHANGED <<registry, updates, paired, streamGeneration, binding, isSending,
                  connectionState, isMuted, lastScheduled, tasks, reconnectTask, sessions,
                  streamTask, events, wanted>>
  BY DEF registryVars, streamVars
<1> QED
  BY <1>1, <1>2, <1>3, <1>4, <1>5
     DEF IInv, RevisionsCount, OneTask, TaskServes, OneStream, SendingIsWanted,
         StreamNeverOrphaned, StatusIsHonest, IsCurrent

-----------------------------------------------------------------------------
(* The invariant and what a step may do                                    *)

\* IInv is inductive: every handler and every stretch of a task keeps it.
THEOREM Inductive == IInv /\ [Next]_vars => IInv'
<1> SUFFICES ASSUME IInv, [Next]_vars PROVE IInv'
  OBVIOUS
<1>1. ASSUME NEW service \in DOMAIN Advertised, NEW e \in Advertised[service], Browse(service, e)
      PROVE  IInv'
  BY <1>1, BrowseKeeps
<1>2. CASE \/ ConnectAndStream \/ Disconnect \/ ForgetPairing \/ PairRequest \/ ToggleMute
           \/ HandleUpdate \/ Pong
  BY <1>2, ConnectKeeps, StopKeeps, PairRequestKeeps, ToggleMuteKeeps, HandleUpdateKeeps, PongKeeps
<1>3. ASSUME NEW ipChanged \in BOOLEAN, NetworkPathChange(ipChanged)
      PROVE  IInv'
  BY <1>3, PathChangeKeeps
<1>4. ASSUME NEW t \in TaskId,
             TaskSteps(t) \/ WakeDone(t) \/ VerifyFails(t) \/ VerifySucceeds(t)
      PROVE  IInv'
  BY <1>4, TaskCancelledKeeps, BeginKeeps, AttemptKeeps, GiveUpKeeps, VerifySucceedsKeeps
     DEF TaskSteps
<1>5. ASSUME NEW s \in SessionId,
             PrepareDone(s) \/ PrepareFails(s) \/ SendPacket(s) \/ StreamStops(s)
      PROVE  IInv'
  BY <1>5, PrepareKeeps, SendPacketKeeps
<1>6. CASE UNCHANGED vars
  BY <1>6 DEF vars, IInv, TypeOK, RevisionsCount, OneTask, TaskServes, OneStream,
              GenerationsDiffer, SendingIsWanted, StreamNeverOrphaned, StatusIsHonest, IsCurrent
<1> QED
  BY <1>1, <1>2, <1>3, <1>4, <1>5, <1>6 DEF Next

LEMMA Invariance == Spec => []IInv
  BY InitIInv, Inductive, PTL DEF Spec

\* Only a packet that is sent changes who sent the last one.
LEMMA SendersRise ==
  ASSUME IInv, [Next]_vars, lastSender' # lastSender
  PROVE  lastSender' > lastSender /\ isSending
<1>1. CASE \E s \in SessionId : SendPacket(s)
  <2>1. lastSender' = streamGeneration /\ isSending
    BY <1>1, SendPacketKeeps
  <2>2. lastSender <= streamGeneration /\ streamGeneration \in Nat /\ lastSender \in Nat
    BY BoundsAreNat DEF IInv, TypeOK, GenerationsDiffer
  <2> QED
    BY <2>1, <2>2
<1>2. CASE ~\E s \in SessionId : SendPacket(s)
  <2>1. ASSUME NEW t \in TaskId,
               TaskSteps(t) \/ WakeDone(t) \/ VerifyFails(t) \/ VerifySucceeds(t)
        PROVE  FALSE
    BY <2>1 DEF TaskSteps, TaskCancelled, BeginConnect, BeginReconnect, Retry, GiveUp, WakeDone,
                VerifyFails, VerifySucceeds, historyVars
  <2>2. ASSUME NEW s \in SessionId, PrepareDone(s) \/ PrepareFails(s) \/ StreamStops(s)
        PROVE  FALSE
    BY <2>2 DEF PrepareDone, PrepareFails, StreamStops, historyVars
  <2>3. CASE \/ ConnectAndStream \/ Disconnect \/ ForgetPairing \/ PairRequest \/ ToggleMute
             \/ HandleUpdate \/ Pong
    BY <2>3 DEF ConnectAndStream, Disconnect, ForgetPairing, Disconnected, PairRequest,
                ToggleMute, HandleUpdate, Pong, historyVars
  <2>4. ASSUME NEW service \in DOMAIN Advertised, NEW e \in Advertised[service],
               Browse(service, e)
        PROVE  FALSE
    BY <2>4 DEF Browse
  <2>5. ASSUME NEW ipChanged \in BOOLEAN, NetworkPathChange(ipChanged)
        PROVE  FALSE
    BY <2>5 DEF NetworkPathChange
  <2>6. CASE UNCHANGED vars
    BY <2>6 DEF vars
  <2> QED
    BY <1>2, <2>1, <2>2, <2>3, <2>4, <2>5, <2>6 DEF Next
<1> QED
  BY <1>1, <1>2

\* What cancels a reconnect in its half second: a newer revision, or a user who stops or,
\* with nothing sent, connects.
Postponed(t) ==
  /\ tasks[t].pc = "asleep" /\ ~tasks[t].cancelled
  /\ tasks'[t].pc = "asleep" /\ tasks'[t].cancelled

LEMMA PostponedFor ==
  ASSUME IInv, [Next]_vars, NEW t \in TaskId, Postponed(t)
  PROVE  lastScheduled' # lastScheduled \/ ~isSending
<1>1. lastScheduled # 0
  BY DEF IInv, TaskServes, Live, Postponed
<1>2. CASE ConnectAndStream
  BY <1>2 DEF ConnectAndStream
<1>3. CASE Disconnect \/ ForgetPairing
  BY <1>1, <1>3 DEF Disconnect, ForgetPairing, Disconnected
<1>4. ASSUME NEW receiver, ScheduleReconnect(receiver)
      PROVE  lastScheduled' # lastScheduled
  BY <1>4 DEF ScheduleReconnect, Postponed
<1>5. CASE HandleUpdate \/ Pong \/ \E ipChanged \in BOOLEAN : NetworkPathChange(ipChanged)
  <2>1. UNCHANGED tasks \/ \E receiver : ScheduleReconnect(receiver)
    BY <1>5 DEF HandleUpdate, Pong, NetworkPathChange
  <2> QED
    BY <1>4, <2>1 DEF Postponed
<1>6. ASSUME NEW u \in TaskId,
             TaskSteps(u) \/ WakeDone(u) \/ VerifyFails(u) \/ VerifySucceeds(u)
      PROVE  FALSE
  <2>1. tasks \in [TaskId -> Task]
    BY DEF IInv, TypeOK, Task
  <2>2. u = t
    BY <1>6, <2>1 DEF TaskSteps, TaskCancelled, BeginConnect, BeginReconnect, Retry, GiveUp,
                      WakeDone, VerifyFails, VerifySucceeds, Ends, Postponed
  <2>3. BeginReconnect(t)
    BY <1>6, <2>2 DEF TaskSteps, TaskCancelled, BeginConnect, Retry, GiveUp, WakeDone,
                      VerifyFails, VerifySucceeds, Postponed
  <2> DEFINE from == [tasks[t] EXCEPT !.attempt = 1, !.wasMuted = isMuted]
  <2>4. tasks'[t] = Lookup(from)
    BY <2>1, <2>3 DEF BeginReconnect
  <2>5. from \in Task
    <3>1. isMuted \in BOOLEAN
      BY DEF IInv, TypeOK
    <3>2. 1 \in 0 .. MaxAttempts
      BY BoundsAreNat
    <3> QED
      BY <2>1, <3>1, <3>2 DEF Task
  <2> QED
    BY <2>4, <2>5, LookupTypes DEF IInv, Postponed
<1>7. CASE \/ PairRequest \/ ToggleMute
           \/ \E service \in DOMAIN Advertised : \E e \in Advertised[service] : Browse(service, e)
           \/ \E s \in SessionId : \/ PrepareDone(s) \/ PrepareFails(s) \/ SendPacket(s)
                                   \/ StreamStops(s)
           \/ UNCHANGED vars
  BY <1>7 DEF PairRequest, ToggleMute, Browse, PrepareDone, PrepareFails, SendPacket, StreamStops,
              vars, Postponed
<1> QED
  BY <1>2, <1>3, <1>5, <1>6, <1>7 DEF Next

-----------------------------------------------------------------------------
(* MacSession implements StreamSession                                     *)

Unseen == UNCHANGED <<wanted, isSending, binding, streamGeneration, lastSender>>

LEMMA UnseenStutters ==
  ASSUME Unseen
  PROVE  UNCHANGED Promised!vars
  BY DEF Unseen, Promised!vars

\* A task of the connect or reconnect kind begins a stream, gives one up to begin another,
\* or gives up.
LEMMA TaskSimulates ==
  ASSUME IInv, NEW t \in TaskId,
         TaskSteps(t) \/ WakeDone(t) \/ VerifyFails(t) \/ VerifySucceeds(t)
  PROVE  [Promised!Next]_(Promised!vars)
<1>1. CASE TaskCancelled(t) \/ BeginConnect(t) \/ Retry(t) \/ WakeDone(t) \/ VerifyFails(t)
  <2>1. Unseen
    BY <1>1 DEF Unseen, TaskCancelled, BeginConnect, Retry, WakeDone, VerifyFails, historyVars
  <2> QED
    BY <2>1, UnseenStutters
<1>2. CASE BeginReconnect(t)
  <2>1. binding' = NoBinding /\ UNCHANGED <<wanted, isSending, streamGeneration, lastSender>>
    BY <1>2 DEF BeginReconnect, historyVars
  <2>2. binding'.generation = 0
    BY <2>1 DEF NoBinding
  <2>3. CASE binding.generation = 0
    BY <2>1, <2>2, <2>3 DEF Promised!vars
  <2>4. CASE binding.generation # 0
    BY <2>1, <2>2, <2>4 DEF Promised!Next, Promised!Break
  <2> QED
    BY <2>3, <2>4
<1>3. CASE GiveUp(t)
  <2>1. tasks[t].pc = "retry" /\ ~tasks[t].cancelled
    BY <1>3 DEF GiveUp
  <2>2. binding = NoBinding
    BY <2>1 DEF IInv, TaskServes, Live
  <2>3. isSending' = FALSE /\ UNCHANGED <<wanted, binding, streamGeneration, lastSender>>
    BY <1>3 DEF GiveUp, historyVars
  <2>4. binding'.generation = 0
    BY <2>2, <2>3 DEF NoBinding
  <2>5. CASE isSending
    BY <2>3, <2>4, <2>5 DEF Promised!Next, Promised!End
  <2>6. CASE ~isSending
    <3>1. isSending' = isSending
      BY <2>3, <2>6 DEF IInv, TypeOK
    <3> QED
      BY <2>3, <3>1 DEF Promised!vars
  <2> QED
    BY <2>5, <2>6
<1>4. CASE VerifySucceeds(t)
  <2>1. tasks[t].pc = "verify" /\ ~tasks[t].cancelled
    BY <1>4 DEF VerifySucceeds
  <2>2. binding = NoBinding /\ wanted
    BY <2>1 DEF IInv, TaskServes, Live
  <2>3. /\ isSending' = TRUE
        /\ streamGeneration' = streamGeneration + 1
        /\ binding' = [generation |-> streamGeneration + 1, route |-> tasks[t].route]
        /\ UNCHANGED <<wanted, lastSender>>
    BY <1>4 DEF VerifySucceeds, StartStreaming, historyVars
  <2>4. binding.generation = 0 /\ binding'.generation = streamGeneration + 1
    BY <2>2, <2>3 DEF NoBinding
  <2> QED
    BY <2>2, <2>3, <2>4 DEF Promised!Next, Promised!Begin
<1> QED
  BY <1>1, <1>2, <1>3, <1>4 DEF TaskSteps

\* A stream task that ends takes the stream with it when it is the current one; a packet
\* is that stream's.
LEMMA StreamSimulates ==
  ASSUME IInv, NEW s \in SessionId,
         PrepareDone(s) \/ PrepareFails(s) \/ SendPacket(s) \/ StreamStops(s)
  PROVE  [Promised!Next]_(Promised!vars)
<1>1. ASSUME NEW state, FinishStream(s, state), sessions[s].pc # "free",
             UNCHANGED <<streamGeneration, lastSender, wanted>>
      PROVE  [Promised!Next]_(Promised!vars)
  <2>1. CASE IsCurrent(s)
    <3>1. isSending
      BY <1>1, <2>1, CurrentIsSending
    <3>2. binding' = NoBinding /\ isSending' = FALSE
      BY <1>1, <2>1 DEF FinishStream
    <3>3. binding'.generation = 0
      BY <3>2 DEF NoBinding
    <3> QED
      BY <1>1, <3>1, <3>2, <3>3 DEF Promised!Next, Promised!End
  <2>2. CASE ~IsCurrent(s)
    <3>1. Unseen
      BY <1>1, <2>2 DEF FinishStream, Unseen
    <3> QED
      BY <3>1, UnseenStutters
  <2> QED
    BY <2>1, <2>2
<1>2. CASE SendPacket(s)
  <2>1. isSending /\ sessions[s].pc # "free" /\ IsCurrent(s)
    BY <1>2, SendPacketKeeps DEF SendPacket
  <2>2. binding.generation # 0 /\ lastSender' = binding.generation
    BY <1>2, <2>1 DEF IInv, TypeOK, GenerationsDiffer, IsCurrent, SendPacket
  <2>3. UNCHANGED <<wanted, isSending, binding, streamGeneration>>
    BY <1>2 DEF SendPacket
  <2> QED
    BY <2>1, <2>2, <2>3 DEF Promised!Next, Promised!Send
<1>3. CASE PrepareDone(s) \/ PrepareFails(s) \/ StreamStops(s)
  <2>1. sessions[s].pc # "free" /\ UNCHANGED <<streamGeneration, lastSender, wanted>>
    BY <1>3 DEF PrepareDone, PrepareFails, StreamStops, historyVars
  <2>2. UNCHANGED <<binding, isSending>> \/ \E state : FinishStream(s, state)
    BY <1>3 DEF PrepareDone, PrepareFails, StreamStops
  <2>3. CASE UNCHANGED <<binding, isSending>>
    BY <2>1, <2>3, UnseenStutters DEF Unseen
  <2> QED
    BY <1>1, <2>1, <2>2, <2>3
<1> QED
  BY <1>2, <1>3

\* What the user does, and what others do that the user does not see.
LEMMA HandlerSimulates ==
  ASSUME IInv,
         \/ ConnectAndStream \/ Disconnect \/ ForgetPairing \/ PairRequest \/ ToggleMute
         \/ HandleUpdate \/ Pong
         \/ \E service \in DOMAIN Advertised : \E e \in Advertised[service] : Browse(service, e)
         \/ \E ipChanged \in BOOLEAN : NetworkPathChange(ipChanged)
         \/ UNCHANGED vars
  PROVE  [Promised!Next]_(Promised!vars)
<1>1. CASE ConnectAndStream
  <2>1. /\ ~isSending /\ wanted' = TRUE
        /\ UNCHANGED <<isSending, binding, streamGeneration, lastSender>>
    BY <1>1 DEF ConnectAndStream
  <2> QED
    BY <2>1 DEF Promised!Next, Promised!Ask
<1>2. CASE Disconnect \/ ForgetPairing
  <2>1. /\ wanted' = FALSE /\ isSending' = FALSE /\ binding' = NoBinding
        /\ streamGeneration' = streamGeneration + 1 /\ UNCHANGED lastSender
    BY <1>2 DEF Disconnect, ForgetPairing, Disconnected
  <2>2. binding'.generation = 0
    BY <2>1 DEF NoBinding
  <2> QED
    BY <2>1, <2>2 DEF Promised!Next, Promised!Stop
<1>3. CASE PairRequest \/ ToggleMute \/ HandleUpdate \/ Pong \/ UNCHANGED vars
  <2>1. Unseen
    BY <1>3 DEF Unseen, PairRequest, ToggleMute, HandleUpdate, Pong, historyVars, vars
  <2> QED
    BY <2>1, UnseenStutters
<1>4. CASE \/ \E service \in DOMAIN Advertised : \E e \in Advertised[service] : Browse(service, e)
           \/ \E ipChanged \in BOOLEAN : NetworkPathChange(ipChanged)
  <2>1. Unseen
    BY <1>4 DEF Unseen, Browse, NetworkPathChange
  <2> QED
    BY <2>1, UnseenStutters
<1> QED
  BY <1>1, <1>2, <1>3, <1>4

-----------------------------------------------------------------------------
(* The properties                                                          *)

\* The controller's state and that of its tasks is of its type.
THEOREM SessionTypeCorrect == Spec => []TypeOK
<1>1. IInv => TypeOK
  BY DEF IInv
<1> QED
  BY <1>1, Invariance, PTL

\* isSending never stands without a stream task that will end it or a reconnect task that
\* will follow it, whatever was cancelled, probed or replaced meanwhile.
THEOREM StreamHasItsTask == Spec => []StreamNeverOrphaned
<1>1. IInv => StreamNeverOrphaned
  BY DEF IInv
<1> QED
  BY <1>1, Invariance, PTL

\* A stream task that was not cancelled is the one of the active binding: the cleanup of a
\* stale one (finishStreamSession) never takes the binding from its successor.
THEOREM StreamKeepsItsBinding == Spec => []UncancelledIsCurrent
<1>1. IInv => UncancelledIsCurrent
  BY DEF IInv, OneStream, Live, UncancelledIsCurrent
<1> QED
  BY <1>1, Invariance, PTL

\* After disconnect() or forgetPairing() nothing is bound until the user connects again,
\* wherever the connect and reconnect tasks were at that moment.
THEOREM NothingStreamsAfterStop == Spec => []StopSticks
<1>1. IInv => StopSticks
  BY DEF IInv, StopSticks, SendingIsWanted, StreamNeverOrphaned
<1> QED
  BY <1>1, Invariance, PTL

\* connectionState and isSending agree, although discovery, failed attempts, requests to
\* pair and late stream tasks all write one of them.
THEOREM StatusIsAlwaysHonest == Spec => []StatusIsHonest
<1>1. IInv => StatusIsHonest
  BY DEF IInv
<1> QED
  BY <1>1, Invariance, PTL

\* No two stream tasks' packets interleave: whoever sends next is of the same or a later
\* generation.
THEOREM SendersNeverAlternate ==
  Spec => [][lastSender' # lastSender => lastSender' > lastSender /\ isSending]_vars
<1>1. IInv /\ [Next]_vars
        => [lastSender' # lastSender => lastSender' > lastSender /\ isSending]_vars
  BY SendersRise
<1> QED
  BY <1>1, Invariance, PTL DEF Spec

\* Neither repeated updates nor pongs nor path changes without a newer revision put a
\* scheduled reconnect off.
THEOREM ReconnectComes == Spec => ReconnectNotPostponed
<1>1. IInv /\ [Next]_vars
        => [\A t \in TaskId :
              tasks[t].pc = "asleep" /\ ~tasks[t].cancelled /\ tasks'[t].pc = "asleep" /\ tasks'[t].cancelled
                => lastScheduled' # lastScheduled \/ ~isSending]_vars
  BY PostponedFor DEF Postponed
<1> QED
  BY <1>1, Invariance, PTL DEF Spec, ReconnectNotPostponed

\* The controller implements StreamSession: what its tasks, probes, cancellations and
\* handles do amounts to one stream at a time that the user asked for and can stop.
THEOREM SessionIsKept == Spec => ImplementsSession
<1>1. Init => Promised!Init
  BY DEF Init, Promised!Init, NoBinding
<1>2. IInv /\ [Next]_vars => [Promised!Next]_(Promised!vars)
  BY TaskSimulates, StreamSimulates, HandlerSimulates DEF Next
<1> QED
  BY <1>1, <1>2, Invariance, PTL DEF Spec, Promised!Spec, ImplementsSession

=============================================================================
