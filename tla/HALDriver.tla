------------------------------ MODULE HALDriver ------------------------------
(***************************************************************************)
(* The audio driver in its host (HushPortAudioPlugin.c): the settable      *)
(* state of its objects, read and written by several threads of the host   *)
(* under one mutex, the notifications after a change, the one setting that *)
(* is kept in the host's storage, and restarts of the host's process.  The *)
(* clock is HALTimeline, which shares the mutex; the tables of properties  *)
(* are HALProperties.                                                      *)
(*                                                                         *)
(* A critical section without a call to the outside is one step that needs *)
(* the mutex free.  Setting a value to what it was changes and reports     *)
(* nothing, so only changes are steps.  Volume is a step of 0 .. Loudest   *)
(* and its level in decibels the square of the step: the rounding of       *)
(* squares and roots in Float32 is left out.                               *)
(*                                                                         *)
(* Of the host it is assumed that it reads an address again when it is     *)
(* told that it changed, by one thread at a time for an address, forgets   *)
(* the notice before it reads, asks for the size of a list before the      *)
(* list, and holds one reference to the name it was given last.  The       *)
(* process that hosts the driver may die at any step.                      *)
(***************************************************************************)
EXTENDS HALTimeline, HALProperties

CONSTANTS Threads,   \* the host's threads that get and set properties
          Strings,   \* strings that can become the box's name
          Default,   \* CFSTR("HushPort"), which lives for ever
          Loudest, MaxSets, MaxRestarts, MaxWork

ASSUME DriverAssumption ==
  /\ Loudest \in Nat
  /\ IsFiniteSet(Threads) /\ IsFiniteSet(Strings)
  /\ Default \notin Strings
  /\ Threads \cap (Clients \cup {Free}) = {}

VARIABLES
  boxAcquired,    \* gBox_Acquired
  stored,      \* what the host's storage holds under "box acquired": nothing or one value
  volume,      \* gVolume_Output_Master_Value
  mute,        \* gMute_Output_Master_Value
  active,      \* gStream_Output_IsActive
  name,        \* gBox_Name
  refs,        \* the reference count of each string
  dispatched,  \* notifications of the plug-in's device list on the global queue
  stale,       \* addresses the host was told have changed and did not read since
  view,        \* what the host last read at each address
  call,        \* the call each thread is in
  sets, restarts

box == <<boxAcquired, stored, dispatched>>
controls == <<volume, mute, active>>
names == <<name, refs>>
host == <<stale, view, call>>
bounds == <<sets, restarts>>
vars == <<clock, stateMutex, box, controls, names, host, bounds>>

Lists == {"BoxDeviceList", "DeviceList"}
WordAddresses == {"Acquired", "ScalarValue", "DecibelValue", "BooleanValue", "IsActive"}
ViewAddresses == Lists \cup WordAddresses \cup {"Name"}
Idle == [step |-> "idle"]

\* The reply at an address, for the settings given.
ValueAt(a, acq, vol, muted, act, nm) ==
  CASE a \in Lists \cup {"Acquired"} -> acq
    [] a = "ScalarValue" -> vol
    [] a = "DecibelValue" -> vol * vol
    [] a = "BooleanValue" -> muted
    [] a = "IsActive" -> act
    [] OTHER -> nm

Current(a) == ValueAt(a, boxAcquired, volume, mute, active, name)

Scan(acq, vol, muted, act, nm) ==
  [a \in ViewAddresses |-> ValueAt(a, acq, vol, muted, act, nm)]

Init ==
  /\ TimelineInit
  /\ boxAcquired = TRUE /\ stored = {} /\ dispatched = 0
  /\ volume = 0 /\ mute = FALSE /\ active = TRUE
  /\ name = Default /\ refs = [s \in Strings |-> 0]
  /\ stale = {} /\ call = [t \in Threads |-> Idle]
  /\ view = Scan(TRUE, 0, FALSE, TRUE, Default)
  /\ sets = 0 /\ restarts = 0

Effort == now + sets + restarts
MaySet == sets < MaxSets /\ Effort < MaxWork

-----------------------------------------------------------------------------
(* Setting properties                                                      *)

Begin(t) == call[t] = Idle /\ stateMutex = Free
Enter(t, c) == call' = [call EXCEPT ![t] = c]
Notifying(addresses, string) ==
  [step |-> "notifying", addresses |-> addresses, string |-> string]

\* The box is acquired or let go under the mutex, which is still held when the host stores it.
SetAcquired(t, v) ==
  /\ MaySet /\ Begin(t)
  /\ v # boxAcquired
  /\ boxAcquired' = v
  /\ stateMutex' = t
  /\ Enter(t, [step |-> "storing"])
  /\ sets' = sets + 1
  /\ UNCHANGED <<stored, dispatched, controls, names, stale, view, restarts>>

\* Mutant of WriteToStorage: the plug-in's device list is not reported.
WriteToStorageOnly(t) ==
  /\ call[t].step = "storing"
  /\ stored' = {boxAcquired}
  /\ stateMutex' = Free
  /\ Enter(t, Notifying({"Acquired", "BoxDeviceList"}, Default))
  /\ UNCHANGED <<boxAcquired, dispatched, controls, names, stale, view, bounds>>

WriteToStorage(t) ==
  /\ call[t].step = "storing"
  /\ stored' = {boxAcquired}
  /\ dispatched' = dispatched + 1
  /\ stateMutex' = Free
  /\ Enter(t, Notifying({"Acquired", "BoxDeviceList"}, Default))
  /\ UNCHANGED <<boxAcquired, controls, names, stale, view, bounds>>

\* Mutant of Clamp: only silence is a bound.
ClampBelow(v, top) == IF v < 0 THEN 0 ELSE v

Clamp(v, top) == IF v < 0 THEN 0 ELSE IF v > top THEN top ELSE v

Root(level) == CHOOSE v \in 0 .. Loudest : v * v = level

ChangeVolume(t, v) ==
  /\ MaySet /\ Begin(t)
  /\ v # volume
  /\ volume' = v
  /\ Enter(t, Notifying({"ScalarValue", "DecibelValue"}, Default))
  /\ sets' = sets + 1
  /\ UNCHANGED <<stateMutex, box, mute, active, names, stale, view, restarts>>

SetScalarValue(t) == \E v \in -1 .. Loudest + 1 : ChangeVolume(t, Clamp(v, Loudest))

SetDecibelValue(t) ==
  \E level \in {-1, Loudest * Loudest + 1} \cup {v * v : v \in 0 .. Loudest} :
    ChangeVolume(t, Root(Clamp(level, Loudest * Loudest)))

SetMute(t) ==
  /\ MaySet /\ Begin(t)
  /\ mute' = ~mute
  /\ Enter(t, Notifying({"BooleanValue"}, Default))
  /\ sets' = sets + 1
  /\ UNCHANGED <<stateMutex, box, volume, active, names, stale, view, restarts>>

SetIsActive(t) ==
  /\ MaySet /\ Begin(t)
  /\ active' = ~active
  /\ Enter(t, Notifying({"IsActive"}, Default))
  /\ sets' = sets + 1
  /\ UNCHANGED <<stateMutex, box, volume, mute, names, stale, view, restarts>>

Released(counts, s) == [x \in Strings |-> IF x = s THEN counts[x] - 1 ELSE counts[x]]
Retained(counts, s) == [x \in Strings |-> IF x = s THEN counts[x] + 1 ELSE counts[x]]

\* Mutant of SetName: the new name is not retained.
SetNameUnretained(t, s) ==
  /\ MaySet /\ Begin(t)
  /\ refs[s] = 0
  /\ refs' = Released(Retained(refs, s), name)
  /\ name' = s
  /\ Enter(t, Notifying({"Name"}, s))
  /\ sets' = sets + 1
  /\ UNCHANGED <<stateMutex, box, controls, stale, view, restarts>>

\* The caller makes a string and holds it until the call returns; the driver retains it
\* and releases the name it had.
SetName(t, s) ==
  /\ MaySet /\ Begin(t)
  /\ refs[s] = 0
  /\ refs' = Released(Retained(Retained(refs, s), s), name)
  /\ name' = s
  /\ Enter(t, Notifying({"Name"}, s))
  /\ sets' = sets + 1
  /\ UNCHANGED <<stateMutex, box, controls, stale, view, restarts>>

\* After the mutex is released the host is told what changed, and the call returns.
PropertiesChanged(t) ==
  /\ call[t].step = "notifying"
  /\ stale' = stale \cup call[t].addresses
  /\ refs' = Released(refs, call[t].string)
  /\ Enter(t, Idle)
  /\ UNCHANGED <<stateMutex, box, controls, name, view, bounds>>

\* The global queue reports the plug-in's list some time later.
DeviceListChanged ==
  /\ dispatched > 0
  /\ dispatched' = dispatched - 1
  /\ stale' = stale \cup {"DeviceList"}
  /\ UNCHANGED <<stateMutex, boxAcquired, stored, controls, names, view, call, bounds>>

-----------------------------------------------------------------------------
(* Reading properties                                                      *)

GetWord(t, a) ==
  /\ Begin(t)
  /\ a \in stale
  /\ stale' = stale \ {a}
  /\ view' = [view EXCEPT ![a] = Current(a)]
  /\ UNCHANGED <<stateMutex, box, controls, names, call, bounds>>

\* The size of the box's list is read under the mutex, that of the plug-in's is not.
GetListSize(t, a) ==
  /\ call[t] = Idle /\ (a = "BoxDeviceList" => stateMutex = Free)
  /\ a \in stale
  /\ \A r \in Threads : call[r].step = "sized" => call[r].list # a
  /\ stale' = stale \ {a}
  /\ Enter(t, [step |-> "sized", list |-> a,
               size |-> GetPropertyDataSize(IF a = "BoxDeviceList" THEN Box ELSE PlugIn,
                                            Address(a, "Global", "other"), boxAcquired)])
  /\ UNCHANGED <<stateMutex, box, controls, names, view, bounds>>

\* Neither does reading the plug-in's list take the mutex.
GetDeviceList(t) ==
  /\ call[t].step = "sized" /\ call[t].list = "DeviceList"
  /\ LET reply == GetPlugInPropertyData(Address("DeviceList", "Global", "other"),
                                        call[t].size, boxAcquired)
     IN view' = [view EXCEPT !["DeviceList"] = reply.objects # <<>>]
  /\ Enter(t, Idle)
  /\ UNCHANGED <<stateMutex, box, controls, names, stale, bounds>>

\* Mutant of BoxListMutex: a list that was read leaves with the mutex, too.
BoxListMutexKept(t, status) == t

\* The early exit for a buffer that is too small leaves without unlocking; the thread
\* that was refused holds the mutex for good and its next call waits for itself.
BoxListMutex(t, status) == IF status = "ok" THEN Free ELSE t

GetBoxDeviceList(t) ==
  /\ call[t].step = "sized" /\ call[t].list = "BoxDeviceList" /\ stateMutex = Free
  /\ LET reply == BoxDeviceList(call[t].size, boxAcquired)
     IN /\ stateMutex' = BoxListMutex(t, reply.status)
        /\ view' = [view EXCEPT !["BoxDeviceList"] =
                      IF reply.status = "ok" THEN reply.objects # <<>> ELSE @]
        /\ Enter(t, IF reply.status = "ok" THEN Idle
                     ELSE [step |-> "refused", size |-> call[t].size])
  /\ UNCHANGED <<box, controls, names, stale, bounds>>

\* The name is read under the mutex and retained after it is released.
GetName(t) ==
  /\ Begin(t)
  /\ "Name" \in stale
  /\ \A r \in Threads : call[r].step # "named"
  /\ stale' = stale \ {"Name"}
  /\ Enter(t, [step |-> "named", string |-> name])
  /\ UNCHANGED <<stateMutex, box, controls, names, view, bounds>>

Live(s) == s = Default \/ refs[s] > 0

\* The host takes the new name's reference and drops that of the name it had.
RetainName(t) ==
  /\ call[t].step = "named" /\ Live(call[t].string)
  /\ refs' = Released(Retained(refs, call[t].string), view["Name"])
  /\ view' = [view EXCEPT !["Name"] = call[t].string]
  /\ Enter(t, Idle)
  /\ UNCHANGED <<stateMutex, box, controls, name, stale, bounds>>

-----------------------------------------------------------------------------
(* The host's process dies and is started again                            *)

\* The variables start as the program is loaded; Initialize reads the acquisition from the
\* storage and looks for the name under the acquisition's key, so the name is the default
\* one.  The host scans the objects before it lets anybody in.
Initialize ==
  /\ boxAcquired' = (FALSE \notin stored)
  /\ volume' = 0 /\ mute' = FALSE /\ active' = TRUE
  /\ name' = Default
  /\ view' = Scan(boxAcquired', 0, FALSE, TRUE, Default)

Restart ==
  /\ restarts < MaxRestarts /\ Effort < MaxWork
  /\ restarts' = restarts + 1
  /\ Initialize
  /\ stateMutex' = Free /\ io' = [c \in Clients |-> "stopped"]
  /\ zero' = [c \in Clients |-> NoStamp]
  /\ ioIsRunning' = 0 /\ numberTimeStamps' = 0 /\ anchorHostTime' = 0 /\ currentHostTime' = 0
  /\ refs' = [s \in Strings |-> 0]
  /\ dispatched' = 0 /\ stale' = {} /\ call' = [t \in Threads |-> Idle]
  /\ UNCHANGED <<now, stored, sets>>

\* Retaining a name that another thread replaced in between and that nobody else holds is a
\* use of freed memory: the process dies.
RetainFreedName(t) ==
  /\ call[t].step = "named" /\ ~Live(call[t].string)
  /\ Restart

-----------------------------------------------------------------------------

ClientStep(c) ==
  StartFirst(c) \/ Anchor(c) \/ StartNext(c) \/ Stop(c) \/ PollBegin(c) \/ PollEnd(c)

ClockStep ==
  /\ (\E c \in Clients : ClientStep(c)) \/ (Tick /\ Effort < MaxWork)
  /\ UNCHANGED <<box, controls, names, host, bounds>>

SetStep(t) ==
  \/ \E v \in BOOLEAN : SetAcquired(t, v)
  \/ WriteToStorage(t)
  \/ SetScalarValue(t) \/ SetDecibelValue(t) \/ SetMute(t) \/ SetIsActive(t)
  \/ \E s \in Strings : SetName(t, s)
  \/ PropertiesChanged(t)

GetStep(t) ==
  \/ \E a \in WordAddresses : GetWord(t, a)
  \/ \E a \in Lists : GetListSize(t, a)
  \/ GetDeviceList(t) \/ GetBoxDeviceList(t)
  \/ GetName(t) \/ RetainName(t)

PropertyStep ==
  /\ (\E t \in Threads : SetStep(t) \/ GetStep(t)) \/ DeviceListChanged
  /\ UNCHANGED clock

Next ==
  \/ ClockStep \/ PropertyStep \/ Restart
  \/ \E t \in Threads : RetainFreedName(t)

Spec == Init /\ [][Next]_vars

-----------------------------------------------------------------------------
(* What the driver promises                                                *)

Calls ==
  {Idle, [step |-> "storing"]}
  \cup [step : {"notifying"}, addresses : SUBSET ViewAddresses, string : Strings \cup {Default}]
  \cup [step : {"sized"}, list : Lists, size : {0, Word}]
  \cup [step : {"refused"}, size : {0, Word}]
  \cup [step : {"named"}, string : Strings \cup {Default}]

\* Every variable has its type; the volume is a step of the scale whichever property set it
\* and whatever was asked for.
TypeOK ==
  /\ TimelineTypeOK
  /\ stateMutex \in Clients \cup Threads \cup {Free}
  /\ boxAcquired \in BOOLEAN /\ stored \subseteq BOOLEAN /\ dispatched \in Nat
  /\ volume \in 0 .. Loudest /\ mute \in BOOLEAN /\ active \in BOOLEAN
  /\ name \in Strings \cup {Default} /\ refs \in [Strings -> Nat]
  /\ stale \subseteq ViewAddresses
  /\ DOMAIN view = ViewAddresses
  /\ \A a \in Lists \cup {"Acquired", "BooleanValue", "IsActive"} : view[a] \in BOOLEAN
  /\ view["ScalarValue"] \in 0 .. Loudest
  /\ view["DecibelValue"] \in {v * v : v \in 0 .. Loudest}
  /\ view["Name"] \in Strings \cup {Default}
  /\ call \in [Threads -> Calls]
  /\ sets \in Nat /\ restarts \in Nat

\* With the box as it is, the switch families describe the same objects: what one of
\* HasProperty, IsPropertySettable, GetPropertyDataSize, GetPropertyData and SetPropertyData
\* says of an address is what the others do, replies stay inside the caller's buffer, and
\* the device performs exactly the IO operations it announces.  The exceptions are named: the
\* size of BoxUID, the length of ResourceBundle, and the device's Icon, which no buffer gets
\* as long as its file is not in the driver's bundle.
TablesAgree == TablesFit[boxAcquired]

\* With the box as it is, the objects form one tree: what an object lists as its own are the
\* reachable objects that name it as their owner, the device's lists are one another's parts
\* on the scope the controls say, and the plug-in, the box and the identifiers lead to the
\* same device.
ObjectsOwnEachOther == ObjectsFit[boxAcquired]

Settled == stale = {} /\ dispatched = 0 /\ \A t \in Threads : call[t] = Idle

\* When every notification was answered and no call is under way, what the host believes of
\* every property is what the driver holds, and the storage holds the acquisition: no
\* interleaving of sets, late notifications, unlocked reads, two-step list queries and
\* restarts leaves the host with an old value, although the notice of a change is sent after
\* the mutex is released and the one for the plug-in's list at any later time.
HostViewSettles ==
  Settled => /\ view = Scan(boxAcquired, volume, mute, active, name)
             /\ boxAcquired = (FALSE \notin stored)

One(p) == IF p THEN 1 ELSE 0

\* Each string is counted once for the driver's name, once for the host's copy and once for
\* each call that sets it: the name of the box is never freed while it is the name, and no
\* string is kept for ever.
NamesBalanced ==
  \A s \in Strings :
    refs[s] = One(name = s) + One(view["Name"] = s)
              + Cardinality({t \in Threads : call[t].step = "notifying" /\ call[t].string = s})

\* The state mutex is held by a call that is inside its critical section, with one
\* exception: a read of the box's device list that was given no room, because the box was not
\* acquired when the size was asked, and was acquired when the list was read.  The driver is
\* then blocked until it is started again.
HeldInsideCalls ==
  /\ \A c \in Clients : stateMutex = c <=> io[c] = "anchoring"
  /\ \A t \in Threads : stateMutex = t <=>
       \/ call[t].step = "storing"
       \/ call[t].step = "refused" /\ call[t].size = 0 /\ boxAcquired

=============================================================================
