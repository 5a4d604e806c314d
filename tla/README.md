# A TLA+ model of HushPort

HushPort sends a Mac's system audio to an iPhone over the local network: a HAL driver in
`coreaudiod` captures what is played, a menu-bar app packs it into 5 ms UDP packets, and an
iPhone app buffers and plays them. This directory models the parts of it whose correctness is a
matter of order, timing and failure. Every definition is translated from the code under `src/`;
`PROJECT.json` (`map`) names the lines each one stands for.

## The system

```
 Core Audio ── HAL driver ──▶ shared file ──▶ SharedAudioCapture ─┐        Mac
              (coreaudiod)     (mmap, 1 s)      send loop          │ UDP audio
                                                 ▲                 ▼
      user ──▶ MacSessionController ──┐     stream task ═══════▶ UDPAudioReceiver ──▶ ReceiverModel
                 ▲          ▲         │                             (512 newest)         │ ingest
   ReceiverRegistry   control channel │◀═ ping/pong/pair/unpair/mute ═▶ ControlChannel   ▼
         ▲                                                            AdaptivePlaybackBuffer
   Bonjour browsers ◀┈┈┈┈┈┈┈┈ advertises audio and control services ┈┈┈┈    │ popReadyPayload, 1 ms pump
                                                                      IOSAudioPlaybackEngine
```

| component | state it keeps | operations | interacts with | what is hard | what makes it correct |
|---|---|---|---|---|---|
| Jitter buffer (`JitterBuffer.swift`) | packets by sequence number, next number | insert, popNext, skip one / to next, trim | owned by the playback buffer | loss, repetition, reordering, capacity, 32-bit wrap against a plain `<` | window above the play position, at most 64 packets, no packet twice |
| Adaptive playback buffer (`AdaptivePlaybackBuffer.swift`) | jitter buffer, prebuffer count, stall clock, backlog clock, concealment count | ingest, popReadyPayload, reset | network on one side, playback pump on the other | two clocks, three ways past a gap | plays in order, never holds a packet for ever, a backlog is always timed, reset leaves nothing |
| Ring buffer (`HushPortRingBuffer.c`) | storage, two atomic counters | write, read, reset | one producer and one consumer thread | no lock: each side computes from a counter the other moves | a bounded FIFO, no slot touched by both |
| Shared audio file (`HushPortSharedAudio.c`) | header (magic, version, `writeFrame`), samples; each reader's own position | open, write, read, close | driver process and app process | the writer never looks at the reader; either process can be killed | a read that is not lapped is exact; nothing not yet written is read |
| Mac session (`MacSessionController.swift`) | active binding, stream generation, stream and reconnect task handles, `isSending`, `connectionState`, mute, pairing | connect, disconnect, mute, forget, discovery update, path change, control messages, send loop | registry, control channel, shared file, UDP | every await is a window: cancelled tasks continue, probes hang, discovery changes meanwhile | one stream at a time, stop means stop, nothing half connected, the status is true |
| Receiver registry (`ReceiverRegistry.swift`, `ReceiverDiscovery`) | endpoints and a revision per phone | update/remove audio/control, restart | Bonjour queue → main actor | revisions start again when an entry vanishes | the controller notices every change of the phone it streams to |
| UDP transport (`UDPTransport.swift`) | connection, listener, bounded event stream | send, listen, cancel | both apps | bounded queue, peers that change | newest packets are kept |
| Receiver model (`ReceiverModel.swift`) | listening intent, listener tasks, pairing continuation, idle and restart flags | start/stop listening, network restart, pairing, pump, control messages | playback buffer, engine, control channel | awaits inside start, tails of replaced tasks, restart against stop | the intent and what listens agree; every wait is resumed once |
| Playback engine (`IOSAudioPlaybackEngine.swift`) | scheduled count, generation, limit | prepare, enqueue, stop, completion | receiver model | completions that arrive after a stop | the count is that of the current generation |
| Control channel (`ControlChannel.swift`) | flows, reply paths, event stream | ping/pong, pair, unpair, mute | both apps | single datagrams, lost or late | both sides agree on the pairing |
| Ready gates (`ReadyGate.swift`) | waiters of a connection | wait | every connect | state changes around the installation of the handler; `.waiting` for ever | every waiter is resumed exactly once |
| HAL driver (`HushPortAudioPlugin.c`) | IO count, time line anchor, box, its name, volume, mute, stream; tables of properties | StartIO, StopIO, zero time stamps, DoIO, get and set of properties | Core Audio's host and its storage, shared file | two mutexes and reads under neither, several clients and threads, notices that are late, a host that dies; the same tables written five times | one time line, an exact IO count, a host that ends up with the driver's values, balanced references, tables that agree |

`PROJECT.json` lists these and the remaining parts (codecs, identity and trust store, activity
tracker, statistics, user interfaces, installer) with what is modelled of each, and 40 hazards,
each at the line where it bites with the properties that watch it.

## Modules

| module | models | state and actions |
|---|---|---|
| `JitterBuffer` | `JitterBuffer.swift` | operators over a record with the two fields of the struct (`packets`, `next`). No variables: the playback buffer owns the only instance. The two loops (drop on overflow, trim) are in closed form. |
| `AdaptivePlaybackBuffer` (extends `JitterBuffer`) | `AdaptivePlaybackBuffer.swift`, its callers in `ReceiverModel` (`handleIncomingPacket`, pump, `drainReadyPayloads`), the packet numbering in `MacSessionController`'s send loop, and a UDP path | one variable per field; `Ingest`, one action per path through `popReadyPayload`, `Reset`, `Tick`. The network is `InFlight`: any of the last `Window` packets of any session, at any time, any number of times. |
| `BoundedFifo` | – (what a ring buffer promises) | the abstract queue: `Put`, `Take`, `Clear` |
| `PHRingBuffer` | `HushPortRingBuffer.c` | counters and slots; each call is begin (loads), one step per frame copied, end (the releasing store). A frame is its number. |
| `SharedAudio` | `HushPortSharedAudio.c`, `SharedAudioCapture`, the driver's use of it | the file survives; writer and reader may be stopped at any step. A frame is the writer's life and a position in it. The reader's arithmetic is modulo 2^64 (`FrameMod`). |
| `MacSession` | `MacSessionController.swift`, `ReceiverDiscovery`, `ReceiverRegistry` | one action per stretch between two awaits; tasks are records with a program counter, their handles variables of their own, as in the code, so that a task can outlive its handle. |
| `StreamSession` | – (what the controller promises) | the user's wish, what the menu bar offers, the one stream's number and that of the last packet: `Ask`, `Stop`, `Begin`, `Break`, `End`, `Send` |
| `ReceiverLifecycle` | `ReceiverModel`: start, stop, forget, path changes, restarts, audio tasks | the handlers of the user and the path; tasks and receivers are records in slots with their handles (`restartTask`, `receiver`) beside them, so that what a handle forgets lives on. What is played is left to the next module. |
| `PlaybackEngine` | `IOSAudioPlaybackEngine.swift` | operators over a record; generations are two counts of buffers in flight, the current one's and the earlier ones' |
| `ReceiverPlayback` (extends `PlaybackEngine`) | `ReceiverModel`: packets, pump, drain, completions, suspension, mute, interruptions | one action per handler; each ends in `Drain`. Which packets the playback buffer gives up is any number, because `AdaptivePlaybackBuffer` has the answer. |
| `HALProperties` | `HushPortAudioPlugin.c`: the five switch families for every object, their dispatchers, the IO operations | pure operators: an object, an address (selector, scope, element), `gBox_Acquired` and the files of the driver's bundle (`Resources`) give sizes, statuses and the objects of a list. Of the data only the length and the object numbers are kept. |
| `HALTimeline` | `StartIO`, `StopIO`, `GetZeroTimeStamp` | the IO count, the anchor, the stamp count and the host's clock; `StartIO` of the first client in two steps (it anchors the line outside the IO mutex), a poll in two (clock read, stamp settled) |
| `HALDriver` (extends both) | `Initialize`, the getters and setters of what can be set, their mutex, notices and storage | one action per critical section; the host's threads are in calls (`storing`, `notifying`, `sized`, `named`, `refused`) between their steps. `view` is what the host last read, `stale` what it was told has changed. |
| `*Proofs`, `RingSlots` | – | lemmas about the operators; the theorems. `RingSlots` has the arithmetic both ring buffers share. |
| `MC*` | – | the modules TLC starts from |

Abstractions worth knowing:

* **Times are ages.** `stalledFor` is `now - stalledSince`, saturating at the timeout it is
  compared with; a longer age is indistinguishable to the code.
* **One release store, one step.** In `PHRingBuffer` the two loads of a call are one step,
  because a thread's own counter changes under its own stores only; the copies are per frame
  because that is what the other thread can see in the middle.
* **Main-actor atomicity.** Handlers of the controller and the receiver run on the main actor; a
  step of `MacSession` is the code from one `await` to the next. The registry changes in steps of
  its own (it lives on the browsers' queue), and the `onChange` it causes is a task that runs later.
* **Keepalive.** The keepalive task pings only while its binding is the active
  one and changes no state of the controller. The iPhone answers on the ping's own flow, which the
  keepalive has cancelled by then; `Pong` is a pong that reaches the control listener all the same,
  and nothing relies on it.
* **Two views of the iPhone.** `ReceiverLifecycle` and `ReceiverPlayback` share `isListening` and
  the packets only. The second therefore lets a packet be handled at any time, also after a stop:
  the first shows that one can be on its way to the main actor then.
* **The driver's host.** Of Core Audio, which is not in the repository, `HALDriver` assumes that it
  polls the clock at least once per period of the ring while a client runs, and only between
  StartIO and StopIO; that it reads an address again when it is told of a change, by one thread at a
  time for an address, forgetting the notice before it reads; that it asks for the size of a list
  before the list; and that it holds one reference to the name it was given last. Its process may
  die at any step. Setting a value to what it was is no step, because it changes and reports nothing.
* **Volume.** A step of `0 .. Loudest` and, in decibels, its square, as the driver's own mapping
  is a square and a root; `Float32` rounding is left out.

## Runs

| run | question | bounds, and why they are enough | result |
|---|---|---|---|
| `playback_buffer` | does the buffer keep its window, clocks and order, and does every packet leave it? | capacity 4, numbers modulo 5, prebuffer and latency limit 2, one concealment, jumps over gaps above 2, two sessions of up to 6 packets, of which the last 5 may still arrive: overflow, trim, stepping, jumping, wrap and restart all happen | holds, 94 302 states |
| `restarted_stream` | is a stream heard that starts again while the phone listens? | as above, 4 packets | violated (finding 1) |
| `ring_buffer` | is the ring buffer a bounded FIFO without a shared slot? | capacity 3, requests of 1 to 4 frames, 10 frames: short calls, calls that wrap, empty and full, each slot used three times | holds, 50 662 states |
| `shared_audio` | what is a read worth while the writer goes on, laps it or dies? | 3 frames of file, packets of 2, 7 frames per life (two laps), two lives, and a counter modulo 16, which 3 does not divide, as 48 000 does not divide 2^64 | holds, 40 701 states |
| `writer_restart` | does a reader that stayed open hear only the running driver? | as above | violated (finding 2) |
| `mac_session` | in every order of user, discovery, path and tasks: is it a session with one stream (`StreamSession`), with an honest status, no orphan, no postponed reconnect? | two tasks and two streams alive (a cancelled one beside a live one), two generations, two attempts, three reported changes, two audio endpoints and one control endpoint | holds, 386 229 states |
| `stale_route` | once everything is quiet, does the stream go where the phone is? | one attempt, four changes | violated (finding 3) |
| `mute_lost` | does only the user change the mute of what is being sent? | one attempt, four changes | violated (finding 4) |
| `receiver` | in every order of user, path, start, restart and audio tasks: is every flag backed by the task that will clear it, does a restart listen again? | three tasks, two receivers, two path changes: a start beside a cancelled and a live restart, an old receiver beside a new one | holds, 242 682 states |
| `stop_leaks` | does Stop close every receiver? | two tasks, one path change | violated (finding 5) |
| `playback` | is the schedule counted exactly, bounded, and does it yield to a backlog? | a schedule of 1 to 3 buffers, a latency of 4, a queue of 6: every branch of the limit, in the proportions of the code | holds, 792 states |
| `hal` | with several IO clients, several threads that get and set, late notices and a restart: one time line, an exact count, balanced references, a host that settles on the driver's values, a mutex nobody keeps; and do the tables agree? | two clients (first and second start, either stops first), two threads (each reads while the other sets), two strings (a name replaced while it is read), period 2 and time 4 (two stamps, one due and one not), a volume of 0 to 2, three sets, one restart, and together at most four ticks, sets and restarts (`MaxWork`): each pair of them meets in every order | holds, 1 695 387 states |

`CHECK_DEADLOCK FALSE` in the `MacSession` runs: with its bounds used up the controller may rest
for ever with nobody asking anything of it. And in `hal`: a host thread that was refused the box's
device list keeps the mutex (below), and the driver then really stops. The other runs check deadlock.

Each property of a passing run has a mutant in its module: an operator that changes one action
the way a plausible bug would (`... Mutant of ...`), under which TLC finds that property violated.

### Fairness

* `AdaptivePlaybackBuffer`: weak fairness of `PopReadyPayload` (the pump calls it every
  millisecond while the receiver listens) and of `Tick`. Nothing is assumed of the Mac or the
  network, and `Reset` may come at any time.
* `MacSession`: weak fairness of the `onChange` task, of each connect or reconnect task except while
  it waits for the network, and of the end of a stream task that was cancelled or replaced: a runnable main-actor
  task runs. Nothing is assumed of the user, of Bonjour, of a probe or of a connection, because
  `ReadyGate` does not resume a waiter while a connection stays in `.waiting`.
  `ReconnectSettles` therefore makes an exception of a task that waits for a probe or for the ping
  that wakes the phone. `MaxEvents` bounds the
  reported changes, so a network that flaps for ever is outside what that property says.
* `ReceiverLifecycle`: weak fairness of start, restart and audio tasks where they are runnable. A
  listener need not become ready, so `RestartSettles` and `ResumesListening` make an exception of a
  task that waits for one; nothing is assumed of the user, the path or the packets.
* The ring buffer, the shared file, the receiver's playback and the driver have safety properties only
  and no fairness; `HostViewSettles` is about the states in which nothing is under way.

## Proofs

Proved with TLAPS for every value of the constants under `JitterAssumption` and
`PlaybackAssumption` (modulus and capacity positive, prebuffer positive, latency limit above 1 and
within the capacity, as the constants of the code satisfy):

* `TypeCorrect`, `BufferWindowHolds`, `FreshUntilPrimedHolds`, `BacklogIsTimedHolds`: the
  invariants `TypeOK`, `BufferWindow`, `FreshUntilPrimed` and `BacklogIsTimed` of the run
  `playback_buffer`.
* `PlayedInOrderHolds`: the action property `PlayedInOrder`.

The argument is one inductive invariant, `IInv`: types, `IsBuffer` (the dictionary is finite and
lies in the number space, at or above `next`), `BufferWindow`, `FreshUntilPrimed`,
`BacklogIsTimed` and `PlayPosition`. `BufferWindow` is not inductive without finiteness, since
`Min`, `Max` and `Cardinality` of the keys mean nothing otherwise. `PlayPosition` carries the order
of play: after something was played and as long as no number has wrapped, `next` is above the last number played;
`PlayedInOrder` follows because every pop plays `next` or a number above it. The first part of
`AdaptivePlaybackBufferProofs` has what each operator of `JitterBuffer` preserves (`InsertKeeps`,
`TrimKeeps`, the skips and the pop); the invariance proof has one step per action and cites them.

About `ReceiverPlayback`, under `EngineAssumption` (natural limits, the lowest positive and not above
the highest) and `PlaybackAssumption` of that module:

* `PlaybackTypeCorrect`, `ScheduleCountIsExact`: its invariants `TypeOK` and `ScheduleCountExact`,
  which are inductive together (`IInv`): the count says nothing without the engine's type.
* `BacklogComesFirst`: the action property `BacklogFirst`. `ScheduleLimitRange` and `RoomRange` bound
  the limit and the room; `DrainKeeps` says once what a drain does, for the four handlers that end
  in one.
* `SuspensionEndsWithSession`: the invariant `SuspendedWhileListening`, inductive as it stands.

About `PHRingBuffer`, under `RingAssumption` (positive capacity and request):

* `RingTypeCorrect`, `CountsCovered`, `NoSharedSlot`: the invariants `TypeOK`, `CountsStayCovered` and
  `NoDataRace` of the run `ring_buffer`.
* `RingIsFifo`: the refinement `ImplementsFifo` of `BoundedFifo`.

`IInv` speaks of positions, which count on for ever, and `RingSlots` translates: positions less
than a capacity apart have different slots (`SlotsDiffer`), and the two `memcpy`s of a call reach
the slots of successive positions (`WrappedSlot`). Its parts are `CountsStayCovered`, `CallsInOrder`
(a call's locals are those of no call outside one), `Content` (from the reader's position to the
last frame the producer copied, the slot holds the number of its position) and `Taken` (what the
consumer has copied are the oldest numbers). `TypeOK` alone is not inductive: that no slot is read
before it is written is `Content`. The mapped queue is then a run of consecutive numbers
(`AlwaysRun`); runs are joined by `WriteEnd` (`RunsJoin`) and cut by `ReadEnd` (`RunSplits`), and
every other step leaves the counters, hence the run, alone.

About `SharedAudio`, under `SharedAudioAssumption` (a packet and a HAL buffer fit the file, and the
modulus is out of reach of a life's counter):

* `FileTypeCorrect`, `ReaderStaysBehind`, `ReadsAreClean`: `TypeOK`, `NeverAheadOfWriter` and `CleanReads`.

`Lives` ties handles to lives, `Counts` the copies to their calls. `Content` is what the writer
promises at any time, also after it was killed in the middle of a call: from one capacity before the
end of its call to the last frame copied, each slot holds the frame of its position and life. A
read that is neither lapped nor outlived lies in that interval, because within a life the modulus
does nothing (`ReadFromInLife`).

About `HALDriver`, under `TimelineAssumption` and `DriverAssumption` (finitely many clients and threads, a
positive period):

* `DriverTypeCorrect`, `IOCountIsExact`, `OneTimeLine`, `StampsAreCurrent`, `NameReferencesBalance`,
  `MutexHeldInsideCalls`: its invariants `TypeOK`, `CountIsClients`, `StampsOnLine`, `StampsCurrent`,
  `NamesBalanced` and `HeldInsideCalls`.
* `HostNeverKeepsOldValues`: `HostViewSettles`.

`IInv` is `ClockInv` and `DriverInv`. The clock needs that a client that anchors is the only one
started (`AnchorAlone`), that one client polls at a time (`OnePolls`), that only running clients have
stamps (`StampedRuns`), and `LineKept`: the line's latest stamp is at most one behind between the two
halves of a reply and none outside, which holds because a client asks once per period. The mutex
needs `RefusedHolds`: while a refused thread keeps it the box cannot change. `HostViewSettles` is
about rest only and far from inductive; `SettleInv` says of every moment that each value the host
holds is current, or a notice of it is on its way (`Told`), or a read of it is (`Reading`), and that a
read that began with an older size or name is followed by a notice.

The switch families are the last part. `SwitchesAlwaysAgree` and `ObjectsAlwaysOwnEachOther` are the
invariants `TablesAgree` and `ObjectsOwnEachOther`; of the state they need only that `boxAcquired` is a
Boolean, and nothing of `Resources`: the theorem says of a bundle with the icon's file that the icon is
read, and of one without it that every read of the reported size is refused. Each kind of object has its lemmas: a buffer of the reported size is filled and set with
(`PlugInAgrees`, `BoxAgrees`, `DeviceAgrees`, `StreamAgrees`, `ControlAgrees`), a selector the object
does not have is unknown to all switches (`PlugInHides` and so on), and what its lists hold
(`PlugInListed`, `BoxListed`, `DeviceListed`, `LeafListed`). They are about any address, so also about
elements and selectors outside the run's `Addresses`; `RepliesNeverOverrun` is about any buffer length.

About `MacSession`, under `MacSessionAssumption` (`None` is no endpoint; positive numbers of tasks,
stream tasks and attempts; any number of generations and changes):

* `SessionTypeCorrect`, `StreamHasItsTask`, `StreamKeepsItsBinding`, `NothingStreamsAfterStop`,
  `StatusIsAlwaysHonest`: all invariants of the run `mac_session`, `TypeOK`, `StreamNeverOrphaned`,
  `UncancelledIsCurrent`, `StopSticks` and `StatusIsHonest`.
* `SessionIsKept`: the refinement `ImplementsSession` of `StreamSession`, in which the stream's number is
  the generation of the active binding. `SendersNeverAlternate`, that generations of senders never go
  back, is proved beside it.
* `ReconnectComes`: its action property `ReconnectNotPostponed`.

A cancelled task changes nothing but itself, so `IInv` is about the tasks nobody cancelled: there is
at most one connect or reconnect task and `reconnectTask` is its handle (`OneTask`), at most one
stream task, that of `streamTask` and of the active binding (`OneStream`). `TaskServes` says what a
task may rely on when it resumes after an await: the user still wants the stream, nothing is bound
once the half second is over, and its revision is on record until then. `GenerationsDiffer` gives each stream task a positive generation of its own. In
the refinement a verified probe is `Begin`, which needs `TaskServes` (still wanted, nothing bound); a
stream task that ends is `End` if it is current and invisible otherwise; the reconnect's half second
ends in `Break`. `StopSticks` is not inductive: that
stop ends the reconnect task too is `TaskServes`.

About `ReceiverLifecycle`, under `ReceiverAssumption` (positive numbers of tasks, receivers and
changes):

* `ReceiverTypeCorrect`, `RestartFlagIsBacked`, `ListeningHasItsTask`, `ListeningCanBePinged`: all
  invariants of the run `receiver`, `TypeOK`, `RestartIsBacked`, `ListeningIsBacked` and `ControlIsBacked`.

`IInv` adds that the restart handle names a restart (`HandleIsRestart`), that at most one restart is
not cancelled and the handle is its (`OneRestart`), that whoever opens the audio listener has
started the control listener (`OpensWithControl`), and that while the user intends to listen there
is a control listener, a restart or a start under way (`IntentIsServed`). `RestartIsBacked` needs the first two, because a
cancelled restart clears nothing.

Only model-checked: `NoPacketStuck`, `ReconnectSettles`, `RestartSettles` and `ResumesListening`, which
are liveness under fairness, out of the prover's reach. Every other property of a passing run is a
theorem. The five properties of the findings are violated and have no theorem.

## Findings

1. **A restarted stream is silent** (`RestartedStreamIsHeard`). Each stream session numbers its
   packets from 0; the phone's jitter buffer rejects what is below its play position and is reset
   only when listening starts or stops. After a reconnect to a phone that went on listening,
   everything is "too late" for as long as the earlier session had lasted.
2. **A restarted driver replays old audio** (`OnlyLiveAudio`). Opening as the writer sets
   `writeFrame` to 0 and keeps the samples; an open reader's distance underflows, the overrun clamp
   takes it one capacity back, and it reads samples of the driver's previous life.
3. **A route read before the probe is used after it** (`FollowsTheReceiver`). An update that
   arrives during the probe finds no active binding and is dropped; the stream goes to an endpoint
   the phone no longer has, until some later update or pong. An entry that vanishes and comes back also
   repeats its revisions.
4. **A mute during a reconnect is lost** (`MuteSticks`). The reconnect writes back the mute state
   it saved, seconds later, over what the user chose in between.
5. **Stop leaves a receiver open** (`StopCloses`). `startAudio` is guarded by `isListening`, which
   is set only when the listener is ready. A second tap on Start before that, or a path change in
   it, opens two receivers; the first is overwritten, not cancelled. After Stop it still holds the
   port and feeds the playback.

Also seen, and not contradicted by any text: Start tapped in the half second of a restart is lost
if listening was not intended before; forgetting the pairing while the listener opens leaves the
phone listening without a button to stop it; a playback suspended for idleness starts its engine
again while packets too few to play wait in the buffer.

In the driver, much of it in code it was derived from:

* the early exit of the box's device list (1629) leaves without unlocking the mutex: a host that
  asked for the size while the box was not acquired, and for the list when it was, blocks the driver.
  `HeldInsideCalls` allows exactly this;
* the name of the box is retained after the mutex is released (1515–1521): replaced in between by
  a caller whose string nobody else holds, it is freed memory. The model lets the process die there
  (`RetainFreedName`);
* the stored name is looked up under the key `box acquired` (419), so it is never restored;
* the device says it has an icon (1790) and gives eight bytes as its size (2026–2028), but reading it
  fails with `kAudioHardwareUnspecifiedError` (2451): `DeviceIcon.icns` is not in the repository, and
  the driver's Resources phase is empty (`HushPort.xcodeproj/project.pbxproj` 412–418). A bundle that
  is not found fails in the same way (2449). The files found in the bundle are the constant
  `Resources`, which the run leaves empty; `Unreadable` is the exception, and it is gone when the file
  is there;
* the plug-in's list of two objects writes both to the first element (1079–1080), `BoxUID` does not
  report its size (1565–1569), and `ResourceBundle` checks for four bytes and writes eight (1180–1182):
  `IncompleteList`, `SizeNotReported` and `WritesTooMuch` name them. With `Unreadable` these are all
  the exceptions; the tables' properties say exactly what is read instead (`AsReported`), and hold in
  full for everything else.

## Not modelled

* Contents of packets and messages, audio formats, status texts and statistics
  (`StreamHealthTracker`, gap and trim counters): no property depends on them.
* `PHSharedAudioCatchUp`, `peekReadyPayload`, `StreamTargetResolver`: not called by the program.
* Several phones, the manual address, the test tone: variations of what `MacSession` models.
* Weak memory beyond release and acquire: the counters' stores release and their loads acquire,
  and the steps of the models are interleaved accordingly. In `SharedAudio` a lapped read copies
  a mixture of old and new frames, which `CleanReads` excludes.
* 64-bit overflow of counters that only grow, and the check for it in StartIO.
* Of the driver: the plug-in's reference count (`AddRef`, `Release`, `QueryInterface`), which nothing
  reads; the change of the sample rate, which no request reaches, because the only rate accepted is
  the one the device has; checks of null pointers and of the driver's own reference; the notice for the
  box's `Identify`. The input objects and the data sources are listed nowhere; their tables are checked.
* User interfaces, identity storage, interface enumeration and the installer (I/O and presentation).

## Plan

What is left, in this order:

1. `Pairing`: both sides and a lossy control channel, retries, the 12 s timer and the continuation.
   Agreement of the two sides, each attempt resumed exactly once, what a lost `pairAccept` does.
2. `ReadyGate`: waiters, handlers and the states a connection reports before, between or never.
   The exception in `ReconnectSettles` is its result.
3. `AudioActivity`: idle and resume thresholds against the send loop.
4. The same for the receiver: an abstract listener that `ReceiverLifecycle` implements.
