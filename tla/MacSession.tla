----------------------------- MODULE MacSession -----------------------------
(***************************************************************************)
(* The sender's session control: HushPortMac/MacSessionController.swift    *)
(* with the ReceiverRegistry that ReceiverDiscovery keeps for it.          *)
(*                                                                         *)
(* Everything the controller does runs on the main actor, so a handler or  *)
(* a task is atomic from one suspension (await) to the next: one action    *)
(* per such stretch.  What makes it hard is what happens in between.  The  *)
(* registry changes on the browsers' queue, the discovery's onChange       *)
(* arrives as a task of its own some time later, a probe of the receiver   *)
(* takes seconds or for ever, a cancelled task goes on until it looks, and *)
(* the user stops, mutes, or forgets the pairing at any point.             *)
(*                                                                         *)
(* There is one phone.  The manual address field is empty, the test tone   *)
(* (the same task with another payload) and status texts are left out, and *)
(* so are the packets' contents, which AdaptivePlaybackBuffer receives,    *)
(* and the keepalive task, which pings the receiver while its binding is   *)
(* the active one and changes nothing here.                                *)
(***************************************************************************)
EXTENDS Naturals, FiniteSets

CONSTANTS AudioEndpoints,    \* what Bonjour may report for the phone's audio service
          ControlEndpoints,  \* and for its control service
          None,           \* no endpoint
          MaxAttempts,    \* waitForStreamRoute's maxAttempts
          MaxTasks,       \* bound: connect and reconnect tasks alive at once
          MaxSessions,    \* bound: stream tasks alive at once
          MaxGeneration,  \* bound: streamGeneration
          MaxEvents       \* bound: changes that Bonjour and the network path report

ASSUME MacSessionAssumption ==
  /\ None \notin AudioEndpoints \cup ControlEndpoints
  /\ {MaxAttempts, MaxTasks, MaxSessions} \subseteq Nat \ {0}
  /\ {MaxGeneration, MaxEvents} \subseteq Nat

VARIABLES registry,         \* the phone's entry in the ReceiverRegistry
          updates,          \* onChange tasks not run yet
          paired,           \* pairedPhone is set
          streamGeneration,
          binding,          \* activeSessionBinding (and activeStreamRoute)
          isSending,
          connectionState,
          isMuted,
          lastScheduled,    \* lastScheduledReconnectRevision, 0 for nil
          tasks,            \* connect and reconnect tasks
          reconnectTask,    \* handle of one of them, 0 for nil
          sessions,         \* stream tasks
          streamTask,       \* handle of one of them, 0 for nil
          lastSender,       \* history: generation of the last packet sent
          events,           \* history: what Bonjour and the path reported so far
          wanted            \* history: the user asked to stream, not to stop since

registryVars == <<registry, updates>>
streamVars == <<sessions, streamTask>>
historyVars == <<lastSender, events, wanted>>
vars == <<registry, updates, paired, streamGeneration, binding, isSending,
          connectionState, isMuted, lastScheduled, tasks, reconnectTask,
          sessions, streamTask, lastSender, events, wanted>>

Advertised == [audio |-> AudioEndpoints \cup {None}, control |-> ControlEndpoints \cup {None}]
Route == [audio : Advertised.audio, control : Advertised.control, revision : 0 .. MaxEvents]
Binding == [generation : 0 .. MaxGeneration, route : Route]

Absent == [audio |-> None, control |-> None, revision |-> 0]
NoBinding == [generation |-> 0, route |-> Absent]

TaskId == 1 .. MaxTasks
SessionId == 1 .. MaxSessions

FreeTask == [pc |-> "free", reconnect |-> FALSE, cancelled |-> FALSE, attempt |-> 0,
             route |-> Absent, wasMuted |-> FALSE]
FreeSession == [pc |-> "free", cancelled |-> FALSE, binding |-> NoBinding]

IsReady(receiver) == receiver.audio # None /\ receiver.control # None

\* The registry drops an entry with no endpoint left, its revision with it.
Present(receiver) == receiver.audio # None \/ receiver.control # None

IsCurrent(s) == /\ sessions[s].binding = binding
                /\ sessions[s].binding.generation = streamGeneration

\* connectionState when nothing is streaming.
RestState == IF paired /\ Present(registry) THEN "idle" ELSE "searching"

TypeOK ==
  /\ registry \in Route
  /\ updates \in 0 .. MaxEvents
  /\ {paired, isSending, isMuted, wanted} \subseteq BOOLEAN
  /\ streamGeneration \in 0 .. MaxGeneration
  /\ binding \in Binding
  /\ connectionState \in {"searching", "idle", "connecting", "streaming", "error"}
  /\ lastScheduled \in 0 .. MaxEvents
  /\ tasks \in [TaskId -> [pc : {"free", "begin", "asleep", "verify", "wake", "retry"},
                           reconnect : BOOLEAN, cancelled : BOOLEAN,
                           attempt : 0 .. MaxAttempts, route : Route, wasMuted : BOOLEAN]]
  /\ reconnectTask \in {0} \cup TaskId
  /\ sessions \in [SessionId -> [pc : {"free", "prepare", "stream"}, cancelled : BOOLEAN,
                                 binding : Binding]]
  /\ streamTask \in {0} \cup SessionId
  /\ lastSender \in 0 .. MaxGeneration
  /\ events \in 0 .. MaxEvents

\* The program starts paired (saved trust) or not, with nothing discovered.
Init == /\ registry = Absent
        /\ updates = 0
        /\ paired \in BOOLEAN
        /\ streamGeneration = 0
        /\ binding = NoBinding
        /\ isSending = FALSE
        /\ connectionState = "searching"
        /\ isMuted = FALSE
        /\ lastScheduled = 0
        /\ tasks = [t \in TaskId |-> FreeTask]
        /\ reconnectTask = 0
        /\ sessions = [s \in SessionId |-> FreeSession]
        /\ streamTask = 0
        /\ lastSender = 0
        /\ events = 0
        /\ wanted = FALSE

-----------------------------------------------------------------------------
(* ReceiverDiscovery and ReceiverRegistry, on the browsers' queue          *)

\* updateAudio, removeAudio, updateControl and removeControl with an endpoint
\* that differs from the one known; the same one again changes nothing.
Updated(service, endpoint) ==
  LET receiver == [registry EXCEPT ![service] = endpoint, !.revision = @ + 1]
  IN IF Present(receiver) THEN receiver ELSE Absent

Browse(service, endpoint) ==
  /\ endpoint # registry[service]
  /\ events < MaxEvents
  /\ registry' = Updated(service, endpoint)
  /\ updates' = updates + 1
  /\ events' = events + 1
  /\ UNCHANGED <<paired, streamGeneration, binding, isSending, connectionState, isMuted,
                 lastScheduled, tasks, reconnectTask, streamVars, lastSender, wanted>>

-----------------------------------------------------------------------------
(* Pieces that several handlers share                                      *)

Cancelled(t) == IF t = 0 THEN tasks ELSE [tasks EXCEPT ![t].cancelled = TRUE]

\* reconnectTask?.cancel(); reconnectTask = Task { ... }
StartTask(isReconnect) ==
  /\ \E t \in TaskId : tasks[t].pc = "free"
  /\ LET new == CHOOSE t \in TaskId : tasks[t].pc = "free"
     IN /\ tasks' = [Cancelled(reconnectTask) EXCEPT
                       ![new] = [FreeTask EXCEPT !.pc = IF isReconnect THEN "asleep" ELSE "begin",
                                                 !.reconnect = isReconnect]]
        /\ reconnectTask' = new

\* streamTask?.cancel()
CancelledStream ==
  [s \in SessionId |-> [sessions[s] EXCEPT !.cancelled =
                           @ \/ (s = streamTask /\ sessions[s].pc # "free")]]

\* Mutant of ScheduleReconnect: a revision is scheduled however often it is seen.
ScheduleReconnectTwice(receiver) ==
  IF paired /\ IsReady(receiver)
  THEN lastScheduled' = receiver.revision /\ StartTask(TRUE)
  ELSE UNCHANGED <<lastScheduled, tasks, reconnectTask>>

ScheduleReconnect(receiver) ==
  IF paired /\ IsReady(receiver) /\ receiver.revision # lastScheduled
  THEN lastScheduled' = receiver.revision /\ StartTask(TRUE)
  ELSE UNCHANGED <<lastScheduled, tasks, reconnectTask>>

\* What disconnect() does, with the connectionState it or its caller leaves.
Disconnected(state) ==
  /\ streamGeneration < MaxGeneration
  /\ streamGeneration' = streamGeneration + 1
  /\ tasks' = Cancelled(reconnectTask)
  /\ reconnectTask' = 0
  /\ sessions' = CancelledStream
  /\ streamTask' = 0
  /\ binding' = NoBinding
  /\ lastScheduled' = 0
  /\ isSending' = FALSE
  /\ isMuted' = FALSE
  /\ connectionState' = state
  /\ wanted' = FALSE
  /\ UNCHANGED <<registryVars, events, lastSender>>

\* Mutant of FinishStream: a stream task that ends cleans up unconditionally.
FinishStreamUnchecked(s, state) ==
  /\ sessions' = [sessions EXCEPT ![s] = FreeSession]
  /\ binding' = NoBinding
  /\ isSending' = FALSE
  /\ streamTask' = 0
  /\ connectionState' = IF state = "streaming" THEN "idle" ELSE state

\* finishStreamSession: only the current stream task clears the controller's
\* state; state is the connectionState it has set so far.
FinishStream(s, state) ==
  /\ sessions' = [sessions EXCEPT ![s] = FreeSession]
  /\ IF IsCurrent(s)
     THEN /\ binding' = NoBinding
          /\ isSending' = FALSE
          /\ streamTask' = 0
          /\ connectionState' = IF state = "streaming" THEN "idle" ELSE state
     ELSE UNCHANGED <<binding, isSending, streamTask, connectionState>>

-----------------------------------------------------------------------------
(* The user, the control channel and the network path                      *)

\* connectAndStream, from the button that stands there while nothing is sent.
ConnectAndStream ==
  /\ ~isSending
  /\ connectionState' = "connecting"
  /\ StartTask(FALSE)
  /\ wanted' = TRUE
  /\ UNCHANGED <<registry, updates, paired, streamGeneration, binding, isSending, isMuted,
                 lastScheduled, streamVars, lastSender, events>>

\* disconnect, from the button that replaces it while isSending.
Disconnect == /\ isSending
              /\ Disconnected(RestState)
              /\ UNCHANGED paired

\* forgetPairing, from the user or for the phone's .unpair.
ForgetPairing == /\ paired
                 /\ Disconnected("searching")
                 /\ paired' = FALSE

\* handleControl(.pairRequest) with the right code.
PairRequest == /\ ~paired
               /\ paired' = TRUE
               /\ connectionState' = "idle"
               /\ UNCHANGED <<registry, updates, streamGeneration, binding, isSending, isMuted,
                              lastScheduled, tasks, reconnectTask, streamVars, historyVars>>

\* The button stands there while isSending.
ToggleMute == /\ isSending
              /\ isMuted' = ~isMuted
              /\ UNCHANGED <<registry, updates, paired, streamGeneration, binding, isSending,
                             connectionState, lastScheduled, tasks, reconnectTask, streamVars,
                             lastSender, events, wanted>>

\* The onChange task of the discovery.
HandleUpdate ==
  /\ updates > 0
  /\ updates' = updates - 1
  /\ \/ /\ isSending
        /\ IF binding # NoBinding /\ paired /\ Present(registry)
              /\ registry.revision # binding.route.revision
           THEN ScheduleReconnect(registry)
           ELSE UNCHANGED <<lastScheduled, tasks, reconnectTask>>
        /\ UNCHANGED connectionState
     \/ /\ ~isSending
        /\ connectionState' = RestState
        /\ UNCHANGED <<lastScheduled, tasks, reconnectTask>>
  /\ UNCHANGED <<registry, paired, streamGeneration, binding, isSending, isMuted, streamVars,
                 historyVars>>

\* handleNetworkPathChange when the interfaces or the address changed; a new
\* address restarts the discovery, whose registry starts empty.
NetworkPathChange(ipChanged) ==
  /\ events < MaxEvents
  /\ events' = events + 1
  /\ registry' = IF ipChanged /\ paired THEN Absent ELSE registry
  /\ IF isSending
     THEN ScheduleReconnect(registry')
     ELSE UNCHANGED <<lastScheduled, tasks, reconnectTask>>
  /\ UNCHANGED <<updates, paired, streamGeneration, binding, isSending, connectionState, isMuted,
                 streamVars, lastSender, wanted>>

\* handleControl(.pong) on the control listener and its reconcileActiveStream.  The
\* iPhone answers a ping on the ping's own flow, which the keepalive has cancelled
\* by then, so nobody may count on it.
Pong == /\ isSending
        /\ paired
        /\ binding # NoBinding
        /\ IsReady(registry)
        /\ registry # binding.route
        /\ ScheduleReconnect(registry)
        /\ UNCHANGED <<registry, updates, paired, streamGeneration, binding, isSending,
                       connectionState, isMuted, streamVars, historyVars>>

-----------------------------------------------------------------------------
(* Connect and reconnect tasks                                             *)

Ends(t) == tasks' = [tasks EXCEPT ![t] = FreeTask]

\* The end of an attempt without a route: the first and every fourth after it
\* wake the phone (wakePairedPhone) if its control service is known, and then
\* half a second passes.
Unrouted(task) ==
  LET wakes == (task.attempt - 1) % 4 = 0 /\ paired /\ registry.control # None
  IN [task EXCEPT !.pc = IF wakes THEN "wake" ELSE "retry", !.route = Absent]

\* Up to the first suspension of an attempt: automaticStreamRouteIfReady reads
\* the registry and probes the receiver it found.
Lookup(task) ==
  IF paired /\ IsReady(registry)
  THEN [task EXCEPT !.pc = "verify", !.route = registry]
  ELSE Unrouted(task)

\* The task resumes after it was cancelled: every path returns at the next check.
TaskCancelled(t) ==
  /\ tasks[t].pc # "free"
  /\ tasks[t].cancelled
  /\ Ends(t)
  /\ UNCHANGED <<registryVars, paired, streamGeneration, binding, isSending, connectionState,
                 isMuted, lastScheduled, reconnectTask, streamVars, historyVars>>

\* connectAndStreamAsync from connectAndStream.
BeginConnect(t) ==
  /\ tasks[t].pc = "begin"
  /\ ~tasks[t].cancelled
  /\ sessions' = CancelledStream
  /\ tasks' = [tasks EXCEPT ![t] = Lookup([tasks[t] EXCEPT !.attempt = 1])]
  /\ UNCHANGED <<registryVars, paired, streamGeneration, binding, isSending, connectionState,
                 isMuted, lastScheduled, reconnectTask, streamTask, historyVars>>

\* scheduleReconnect's task after its half second.
BeginReconnect(t) ==
  /\ tasks[t].pc = "asleep"
  /\ ~tasks[t].cancelled
  /\ sessions' = CancelledStream
  /\ binding' = NoBinding
  /\ tasks' = [tasks EXCEPT ![t] =
                 Lookup([tasks[t] EXCEPT !.attempt = 1, !.wasMuted = isMuted])]
  /\ UNCHANGED <<registryVars, paired, streamGeneration, isSending, connectionState, isMuted,
                 lastScheduled, reconnectTask, streamTask, historyVars>>

\* Mutant of Retry: one attempt more than maxAttempts.
RetryOnceMore(t) ==
  /\ tasks[t].pc = "retry"
  /\ ~tasks[t].cancelled
  /\ tasks[t].attempt <= MaxAttempts
  /\ tasks' = [tasks EXCEPT ![t] = Lookup([tasks[t] EXCEPT !.attempt = @ + 1])]
  /\ UNCHANGED <<registryVars, paired, streamGeneration, binding, isSending, connectionState,
                 isMuted, lastScheduled, reconnectTask, streamVars, historyVars>>

\* The half second is over: the next attempt of waitForStreamRoute.
Retry(t) ==
  /\ tasks[t].pc = "retry"
  /\ ~tasks[t].cancelled
  /\ tasks[t].attempt < MaxAttempts
  /\ tasks' = [tasks EXCEPT ![t] = Lookup([tasks[t] EXCEPT !.attempt = @ + 1])]
  /\ UNCHANGED <<registryVars, paired, streamGeneration, binding, isSending, connectionState,
                 isMuted, lastScheduled, reconnectTask, streamVars, historyVars>>

\* A reconnect puts back the mute state it found half a second in.
MuteAfter(t) == IF tasks[t].reconnect THEN tasks[t].wasMuted ELSE isMuted

\* Mutant of GiveUp: the failed reconnect leaves isSending set.
GiveUpSending(t) ==
  /\ tasks[t].pc = "retry"
  /\ ~tasks[t].cancelled
  /\ tasks[t].attempt = MaxAttempts
  /\ Ends(t)
  /\ connectionState' = RestState
  /\ isMuted' = MuteAfter(t)
  /\ UNCHANGED <<registryVars, paired, streamGeneration, binding, isSending, lastScheduled,
                 reconnectTask, streamVars, historyVars>>

GiveUp(t) ==
  /\ tasks[t].pc = "retry"
  /\ ~tasks[t].cancelled
  /\ tasks[t].attempt = MaxAttempts
  /\ Ends(t)
  /\ isSending' = FALSE
  /\ connectionState' = RestState
  /\ isMuted' = MuteAfter(t)
  /\ UNCHANGED <<registryVars, paired, streamGeneration, binding, lastScheduled, reconnectTask,
                 streamVars, historyVars>>

\* verifyReceiver found no matching pong within its time.
VerifyFails(t) ==
  /\ tasks[t].pc = "verify"
  /\ ~tasks[t].cancelled
  /\ tasks' = [tasks EXCEPT ![t] = Unrouted(@)]
  /\ UNCHANGED <<registryVars, paired, streamGeneration, binding, isSending, connectionState,
                 isMuted, lastScheduled, reconnectTask, streamVars, historyVars>>

\* The ping of wakePairedPhone is sent, or its connection failed.
WakeDone(t) ==
  /\ tasks[t].pc = "wake"
  /\ ~tasks[t].cancelled
  /\ tasks' = [tasks EXCEPT ![t].pc = "retry"]
  /\ UNCHANGED <<registryVars, paired, streamGeneration, binding, isSending, connectionState,
                 isMuted, lastScheduled, reconnectTask, streamVars, historyVars>>

\* startStreaming(route) in a task that was not cancelled.
StartStreaming(route) ==
  /\ streamGeneration < MaxGeneration
  /\ \E s \in SessionId : sessions[s] = FreeSession
  /\ LET new == CHOOSE s \in SessionId : sessions[s] = FreeSession
         bound == [generation |-> streamGeneration + 1, route |-> route]
     IN /\ streamGeneration' = streamGeneration + 1
        /\ binding' = bound
        /\ sessions' = [CancelledStream EXCEPT
                          ![new] = [FreeSession EXCEPT !.pc = "prepare", !.binding = bound]]
        /\ streamTask' = new
  /\ lastScheduled' = 0
  /\ isSending' = TRUE
  /\ connectionState' = "connecting"

\* Mutant of VerifySucceeds: the task does not look whether it was cancelled.
VerifySucceedsUnchecked(t) ==
  /\ tasks[t].pc = "verify"
  /\ StartStreaming(tasks[t].route)
  /\ isMuted' = MuteAfter(t)
  /\ Ends(t)
  /\ UNCHANGED <<registryVars, paired, reconnectTask, historyVars>>

\* The pong came: the task streams to the route it read before the probe.
VerifySucceeds(t) ==
  /\ tasks[t].pc = "verify"
  /\ ~tasks[t].cancelled
  /\ StartStreaming(tasks[t].route)
  /\ isMuted' = MuteAfter(t)
  /\ Ends(t)
  /\ UNCHANGED <<registryVars, paired, reconnectTask, historyVars>>

-----------------------------------------------------------------------------
(* Stream tasks                                                            *)

\* The connection is ready and the receiver notified.
PrepareDone(s) ==
  /\ sessions[s].pc = "prepare"
  /\ \/ /\ ~sessions[s].cancelled
        /\ IsCurrent(s)
        /\ sessions' = [sessions EXCEPT ![s].pc = "stream"]
        /\ connectionState' = "streaming"
        /\ UNCHANGED <<binding, isSending, streamTask>>
     \/ /\ sessions[s].cancelled \/ ~IsCurrent(s)
        /\ FinishStream(s, "streaming")
  /\ UNCHANGED <<registryVars, paired, streamGeneration, isMuted, lastScheduled, tasks,
                 reconnectTask, historyVars>>

PrepareFails(s) ==
  /\ sessions[s].pc = "prepare"
  /\ FinishStream(s, "error")
  /\ UNCHANGED <<registryVars, paired, streamGeneration, isMuted, lastScheduled, tasks,
                 reconnectTask, historyVars>>

\* Mutant of SendPacket: the sleep is not followed by a second look at the binding.
SendPacketUnchecked(s) ==
  /\ sessions[s].pc = "stream"
  /\ lastSender' = sessions[s].binding.generation
  /\ UNCHANGED <<registryVars, paired, streamGeneration, binding, isSending, connectionState,
                 isMuted, lastScheduled, tasks, reconnectTask, streamVars, events, wanted>>

\* The send loop wakes at a deadline and is still the current one.
SendPacket(s) ==
  /\ sessions[s].pc = "stream"
  /\ IsCurrent(s)
  /\ lastSender' = sessions[s].binding.generation
  /\ UNCHANGED <<registryVars, paired, streamGeneration, binding, isSending, connectionState,
                 isMuted, lastScheduled, tasks, reconnectTask, streamVars, events, wanted>>

\* The loop ends because the task was cancelled or replaced.
StreamStops(s) ==
  /\ sessions[s].pc = "stream"
  /\ sessions[s].cancelled \/ ~IsCurrent(s)
  /\ FinishStream(s, connectionState)
  /\ UNCHANGED <<registryVars, paired, streamGeneration, isMuted, lastScheduled, tasks,
                 reconnectTask, historyVars>>

-----------------------------------------------------------------------------
TaskSteps(t) == TaskCancelled(t) \/ BeginConnect(t) \/ BeginReconnect(t) \/ Retry(t) \/ GiveUp(t)

\* A task that waits for the network may wait for ever, cancelled or not: ReadyGate
\* resumes nobody while the connection stays in .waiting.
OnNetwork(t) == tasks[t].pc \in {"verify", "wake"}

Next == \/ \E service \in DOMAIN Advertised : \E e \in Advertised[service] : Browse(service, e)
        \/ ConnectAndStream \/ Disconnect \/ ForgetPairing \/ PairRequest \/ ToggleMute
        \/ HandleUpdate \/ Pong
        \/ \E ipChanged \in BOOLEAN : NetworkPathChange(ipChanged)
        \/ \E t \in TaskId : \/ TaskSteps(t) \/ WakeDone(t)
                              \/ VerifyFails(t) \/ VerifySucceeds(t)
        \/ \E s \in SessionId : \/ PrepareDone(s) \/ PrepareFails(s) \/ SendPacket(s)
                                \/ StreamStops(s)

\* Tasks that are runnable run.  Nothing is assumed of the user, of Bonjour, or of
\* a probe and a connection that becomes ready: those may be silent for ever.
Fairness == /\ WF_vars(HandleUpdate)
            /\ \A t \in TaskId : WF_vars(~OnNetwork(t) /\ TaskSteps(t))
            /\ \A s \in SessionId : WF_vars(StreamStops(s))

Spec == Init /\ [][Next]_vars /\ Fairness

-----------------------------------------------------------------------------
(* Properties                                                              *)

\* The controller always has somebody to end what it shows: while isSending,
\* either the stream task of the active binding is alive, or a reconnect task
\* that will start the next stream or clear isSending.  Between the two the
\* binding is nil, the old task's cleanup is ignored (finishStreamSession), and
\* every way to cancel the reconnect has to leave a successor or clear isSending.
StreamNeverOrphaned ==
  /\ binding # NoBinding => isSending /\ \E s \in SessionId : sessions[s].pc # "free" /\ IsCurrent(s)
  /\ isSending /\ binding = NoBinding =>
       /\ reconnectTask # 0
       /\ tasks[reconnectTask].pc # "free"
       /\ ~tasks[reconnectTask].cancelled

\* A stream task nobody cancelled is the active one: the cleanup of a stale task
\* that ends late never takes the binding away from its successor.
UncancelledIsCurrent ==
  \A s \in SessionId : sessions[s].pc # "free" /\ ~sessions[s].cancelled => IsCurrent(s)

\* After the user stopped or forgot the pairing, or the phone unpaired, nothing
\* streams, whatever probe or sleep a connect task was in at that moment.
StopSticks == binding # NoBinding => wanted /\ paired

\* What the menu bar shows agrees with what is going on: "streaming" only while
\* isSending, and while isSending never "idle", "searching" or "error", although
\* the discovery, failed attempts and late stream tasks all write the state.
StatusIsHonest == /\ connectionState = "streaming" => isSending
                  /\ isSending => connectionState \in {"connecting", "streaming"}

\* Seen from the user and the phone there is one stream at a time: it begins while the
\* user wants it and no other is bound, a stop ends it with all that was to begin another,
\* and each packet comes from it, although stream tasks end late, are cancelled between a
\* sleep and a send, and connect tasks are stopped in the middle of a probe.
Promised == INSTANCE StreamSession WITH
             sending <- isSending,
             stream  <- binding.generation,
             latest  <- streamGeneration,
             sender  <- lastSender
ImplementsSession == Promised!Spec

\* A reconnect that waits its half second is cancelled only for a newer revision,
\* by the user's stop, or by the user's connect once nothing is sent: pongs, path
\* changes and repeated updates cannot put it off again and again
\* (lastScheduledReconnectRevision).
ReconnectNotPostponed ==
  [][\A t \in TaskId :
       tasks[t].pc = "asleep" /\ ~tasks[t].cancelled /\ tasks'[t].pc = "asleep" /\ tasks'[t].cancelled
         => lastScheduled' # lastScheduled \/ ~isSending]_vars

\* A reconnect does not leave the controller half connected: isSending with no
\* stream ends in a stream or with isSending cleared, unless it waits for the
\* network.
Probing == \E t \in TaskId : OnNetwork(t) /\ ~tasks[t].cancelled
ReconnectSettles ==
  isSending /\ binding = NoBinding ~> ~isSending \/ binding # NoBinding \/ Probing

\* "Mac reconnects with fresh IP" (docs/overview.md:187): with no update and no
\* connect task outstanding, the stream goes to the endpoints the phone has.  Only a
\* pong could still help, and that need not come (Pong).
Quiescent == updates = 0 /\ \A t \in TaskId : tasks[t].pc = "free"
FollowsTheReceiver ==
  Quiescent /\ binding # NoBinding /\ IsReady(registry) =>
    /\ binding.route.audio = registry.audio
    /\ binding.route.control = registry.control

\* "Use Mute or Stop on the Mac when finished" (README.md:134): what goes on to be
\* sent after a step was muted by the user, and unmuted by the user.
MuteSticks == [][isSending' /\ isMuted' # isMuted => ToggleMute]_vars
=============================================================================
