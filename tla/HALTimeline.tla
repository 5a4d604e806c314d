----------------------------- MODULE HALTimeline -----------------------------
(***************************************************************************)
(* The clock of the audio driver (HushPortAudioPlugin.c: StartIO, StopIO,  *)
(* GetZeroTimeStamp).  The device keeps a line of time stamps, one per     *)
(* ring buffer of frames, from the host time at which the first client     *)
(* started.  StartIO and StopIO hold the state mutex, GetZeroTimeStamp     *)
(* holds the IO mutex and reads the same variables, and each call moves    *)
(* the line on by one stamp at most.                                       *)
(*                                                                         *)
(* Host time is counted in ticks, Period of them per ring buffer; sample   *)
(* time in ring buffers.  Of the host it is assumed that a client asks     *)
(* for stamps only between its StartIO and its StopIO, and that one of     *)
(* the running clients asks at least once per Period (an IO cycle is much  *)
(* shorter than the ring of 16384 frames).  The count of clients is a      *)
(* UInt64 whose overflow check no number of clients reaches.               *)
(***************************************************************************)
EXTENDS Integers, FiniteSets

CONSTANTS Clients, Period, MaxTime, Free

ASSUME TimelineAssumption ==
  /\ Period \in Nat \ {0}
  /\ MaxTime \in Nat
  /\ IsFiniteSet(Clients)
  /\ Free \notin Clients

VARIABLES
  now,               \* mach_absolute_time()
  stateMutex,        \* gPlugIn_StateMutex: Free or who holds it
  ioIsRunning,       \* gDevice_IOIsRunning
  numberTimeStamps,  \* gDevice_NumberTimeStamps
  anchorHostTime,    \* gDevice_AnchorHostTime
  currentHostTime,   \* theCurrentHostTime of the latest GetZeroTimeStamp
  io,                \* where each client is
  zero               \* the latest zero time stamp each client was given

clock == <<now, ioIsRunning, numberTimeStamps, anchorHostTime, currentHostTime, io, zero>>

NoStamp == [sample |-> -1, host |-> -1, asked |-> -1]

TimelineInit ==
  /\ now = 0
  /\ stateMutex = Free
  /\ ioIsRunning = 0
  /\ numberTimeStamps = 0
  /\ anchorHostTime = 0
  /\ currentHostTime = 0
  /\ io = [c \in Clients |-> "stopped"]
  /\ zero = [c \in Clients |-> NoStamp]

-----------------------------------------------------------------------------
(* StartIO and StopIO                                                      *)

\* The first client resets the stamps and, still under the mutex, reads the time.
StartFirst(c) ==
  /\ io[c] = "stopped" /\ stateMutex = Free
  /\ ioIsRunning = 0
  /\ ioIsRunning' = 1
  /\ numberTimeStamps' = 0
  /\ stateMutex' = c
  /\ io' = [io EXCEPT ![c] = "anchoring"]
  /\ UNCHANGED <<now, anchorHostTime, currentHostTime, zero>>

Anchor(c) ==
  /\ io[c] = "anchoring"
  /\ anchorHostTime' = now
  /\ currentHostTime' = now
  /\ stateMutex' = Free
  /\ io' = [io EXCEPT ![c] = "running"]
  /\ UNCHANGED <<now, ioIsRunning, numberTimeStamps, zero>>

\* Mutant of StartNext: every start anchors the line again.
StartNextAnchors(c) ==
  /\ io[c] = "stopped" /\ stateMutex = Free
  /\ ioIsRunning > 0
  /\ ioIsRunning' = ioIsRunning + 1
  /\ anchorHostTime' = now
  /\ io' = [io EXCEPT ![c] = "running"]
  /\ UNCHANGED <<now, stateMutex, numberTimeStamps, currentHostTime, zero>>

StartNext(c) ==
  /\ io[c] = "stopped" /\ stateMutex = Free
  /\ ioIsRunning > 0
  /\ ioIsRunning' = ioIsRunning + 1
  /\ io' = [io EXCEPT ![c] = "running"]
  /\ UNCHANGED <<now, stateMutex, numberTimeStamps, anchorHostTime, currentHostTime, zero>>

\* Mutant of Stop: the first client that stops stops the device.
StopAll(c) ==
  /\ io[c] = "running" /\ stateMutex = Free
  /\ ioIsRunning' = 0
  /\ io' = [io EXCEPT ![c] = "stopped"]
  /\ zero' = [zero EXCEPT ![c] = NoStamp]
  /\ UNCHANGED <<now, stateMutex, numberTimeStamps, anchorHostTime, currentHostTime>>

\* A count of zero would be an error and stays zero.
Stop(c) ==
  /\ io[c] = "running" /\ stateMutex = Free
  /\ ioIsRunning' = IF ioIsRunning = 0 THEN 0 ELSE ioIsRunning - 1
  /\ io' = [io EXCEPT ![c] = "stopped"]
  /\ zero' = [zero EXCEPT ![c] = NoStamp]
  /\ UNCHANGED <<now, stateMutex, numberTimeStamps, anchorHostTime, currentHostTime>>

-----------------------------------------------------------------------------
(* GetZeroTimeStamp: the client that is polling holds the IO mutex         *)

PollBegin(c) ==
  /\ io[c] = "running"
  /\ \A d \in Clients : io[d] # "polling"
  /\ currentHostTime' = now
  /\ io' = [io EXCEPT ![c] = "polling"]
  /\ UNCHANGED <<now, stateMutex, ioIsRunning, numberTimeStamps, anchorHostTime, zero>>

HostTimeOf(stamp) == anchorHostTime + stamp * Period

\* Mutant of NextIsDue: a stamp that is due this very tick is not taken.
NextIsOver == HostTimeOf(numberTimeStamps + 1) < currentHostTime

NextIsDue == HostTimeOf(numberTimeStamps + 1) <= currentHostTime

PollEnd(c) ==
  /\ io[c] = "polling"
  /\ numberTimeStamps' = IF NextIsDue THEN numberTimeStamps + 1 ELSE numberTimeStamps
  /\ zero' = [zero EXCEPT ![c] = [sample |-> numberTimeStamps',
                                  host |-> HostTimeOf(numberTimeStamps'),
                                  asked |-> currentHostTime]]
  /\ io' = [io EXCEPT ![c] = "running"]
  /\ UNCHANGED <<now, stateMutex, ioIsRunning, anchorHostTime, currentHostTime>>

\* Time passes, but not past a whole period in which a running device is not asked.
Tick ==
  /\ now < MaxTime
  /\ (\E c \in Clients : io[c] \in {"running", "polling"}) => now < currentHostTime + Period
  /\ now' = now + 1
  /\ UNCHANGED <<stateMutex, ioIsRunning, numberTimeStamps, anchorHostTime, currentHostTime,
                 io, zero>>

-----------------------------------------------------------------------------
(* What the clock promises                                                 *)

TimelineTypeOK ==
  /\ now \in Nat
  /\ ioIsRunning \in Nat
  /\ numberTimeStamps \in Nat
  /\ anchorHostTime \in Nat
  /\ currentHostTime \in Nat
  /\ io \in [Clients -> {"stopped", "anchoring", "running", "polling"}]
  /\ zero \in [Clients -> [sample : Nat \cup {-1}, host : Nat \cup {-1}, asked : Nat \cup {-1}]]

Started == {c \in Clients : io[c] # "stopped"}

\* gDevice_IOIsRunning is the number of clients that started and did not stop, whatever the
\* order of StartIO and StopIO: the device neither stops under a running client nor runs on
\* after the last one.
CountIsClients == ioIsRunning = Cardinality(Started)

\* All the stamps given to clients that are still running lie on one line, the one from the
\* current anchor: no start, stop or reply of another client bends the line a client is on,
\* although GetZeroTimeStamp and StartIO do not share a mutex.
StampsOnLine ==
  \A c \in Clients : zero[c] # NoStamp => zero[c].host = HostTimeOf(zero[c].sample)

\* A stamp is the latest one of the line when it is asked for: GetZeroTimeStamp moves on by
\* one stamp at most, which suffices while some client asks at least once per period, also
\* across a stop of all clients and a new anchor.
StampsCurrent ==
  \A c \in Clients : zero[c] # NoStamp =>
    zero[c].host <= zero[c].asked /\ zero[c].asked < zero[c].host + Period

=============================================================================
