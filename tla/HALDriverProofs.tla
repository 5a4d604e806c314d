--------------------------- MODULE HALDriverProofs ---------------------------
(***************************************************************************)
(* Proofs about HALDriver, for every number of clients and threads, every  *)
(* period and every set of names.  The clock and the mutex are treated     *)
(* apart: the calls that get and set properties leave the clock alone, and *)
(* the clock needs of the mutex only that a client holds it while it       *)
(* anchors.  Then comes the host's view of the driver's values: what it    *)
(* holds of an address is what the driver holds, or a notice or a read is  *)
(* under way, and each step keeps the notices of what it does not read.    *)
(* At the end, the switch families: each object's five switches are        *)
(* compared selector by selector, for any address and any buffer.          *)
(***************************************************************************)
EXTENDS HALDriver, FiniteSetTheorems, TLAPS

Asks(c) == io[c] \in {"running", "polling"}

\* A client that anchors the line is the only one that started, and no stamp was given.
AnchorAlone ==
  \A c \in Clients : io[c] = "anchoring" =>
    numberTimeStamps = 0 /\ \A d \in Clients : d # c => io[d] = "stopped"

\* The IO mutex.
OnePolls == \A c, d \in Clients : io[c] = "polling" /\ io[d] = "polling" => c = d

StampedRuns == \A c \in Clients : zero[c] # NoStamp => Asks(c)

\* While a client runs, the latest reply was the line's latest stamp; between the two
\* halves of a reply the line is one stamp behind at most.
LineKept ==
  \A c \in Clients : Asks(c) =>
    /\ currentHostTime <= now /\ now <= currentHostTime + Period
    /\ HostTimeOf(numberTimeStamps) <= currentHostTime
    /\ currentHostTime < HostTimeOf(numberTimeStamps + 2)
    /\ (\A d \in Clients : io[d] # "polling") =>
         currentHostTime < HostTimeOf(numberTimeStamps + 1)

ClockInv ==
  /\ TimelineTypeOK /\ CountIsClients
  /\ AnchorAlone /\ OnePolls /\ StampedRuns /\ LineKept
  /\ StampsOnLine /\ StampsCurrent

\* A thread that was refused holds the mutex, and so the box stays as it was.
RefusedHolds ==
  \A t \in Threads : call[t].step = "refused" => call[t].size = 0 /\ boxAcquired

DriverInv == TypeOK /\ HeldInsideCalls /\ RefusedHolds /\ NamesBalanced

IInv == ClockInv /\ DriverInv

-----------------------------------------------------------------------------
(* The clock                                                               *)

\* The line's stamps are a period apart (GetZeroTimeStamp).
LEMMA StampDistance ==
  ASSUME TimelineTypeOK, NEW k \in Nat
  PROVE  /\ HostTimeOf(k) \in Nat
         /\ HostTimeOf(k + 1) = HostTimeOf(k) + Period
         /\ HostTimeOf(k + 2) = HostTimeOf(k + 1) + Period
         /\ HostTimeOf(0) = anchorHostTime
<1>1. anchorHostTime \in Nat /\ Period \in Nat /\ k * Period \in Nat
  BY TimelineAssumption DEF TimelineTypeOK
<1>2. (k + 1) * Period = k * Period + Period /\ (k + 2) * Period = k * Period + Period + Period
  BY <1>1
<1>3. 0 * Period = 0
  BY <1>1
<1> QED
  BY <1>1, <1>2, <1>3 DEF HostTimeOf

\* The clients that started are finitely many, and one more or one less is counted so.
LEMMA StartedCount ==
  /\ IsFiniteSet(Started)
  /\ Cardinality(Started) \in Nat
  /\ Cardinality(Started) = 0 <=> Started = {}
  /\ \A c : Cardinality(Started \cup {c}) =
              IF c \in Started THEN Cardinality(Started) ELSE Cardinality(Started) + 1
  /\ \A c : Cardinality(Started \ {c}) =
              IF c \in Started THEN Cardinality(Started) - 1 ELSE Cardinality(Started)
<1>1. IsFiniteSet(Started)
  <2>1. Started \in SUBSET Clients
    BY DEF Started
  <2> QED
    BY <2>1, TimelineAssumption, FS_Subset
<1> QED
  BY <1>1, FS_CardinalityType, FS_EmptySet, FS_AddElement, FS_RemoveElement

\* StartIO of the first client resets the stamps and has nobody beside it.
LEMMA StartFirstKeeps ==
  ASSUME ClockInv, NEW c \in Clients, StartFirst(c)
  PROVE  ClockInv'
<1> USE DEF ClockInv
<1>1. Started = {}
  BY StartedCount DEF StartFirst, CountIsClients
<1>2. \A d \in Clients : io[d] = "stopped" /\ zero[d] = NoStamp
  BY <1>1 DEF Started, StampedRuns, Asks
<1>3. io' = [io EXCEPT ![c] = "anchoring"] /\ zero' = zero /\ numberTimeStamps' = 0
  BY DEF StartFirst
<1>4. TimelineTypeOK'
  BY DEF StartFirst, TimelineTypeOK
<1>5. CountIsClients'
  <2>1. Started' = Started \cup {c}
    BY <1>1, <1>2, <1>3 DEF Started, TimelineTypeOK
  <2> QED
    BY <2>1, <1>1, StartedCount DEF CountIsClients, StartFirst
<1>6. AnchorAlone' /\ OnePolls' /\ StampedRuns' /\ LineKept'
  BY <1>2, <1>3 DEF AnchorAlone, OnePolls, StampedRuns, LineKept, Asks, TimelineTypeOK
<1>7. StampsOnLine' /\ StampsCurrent'
  BY <1>2, <1>3 DEF StampsOnLine, StampsCurrent
<1> QED
  BY <1>4, <1>5, <1>6, <1>7

\* The anchor is laid with every other client stopped: no stamp moves.
LEMMA AnchorKeeps ==
  ASSUME ClockInv, NEW c \in Clients, Anchor(c)
  PROVE  ClockInv'
<1> USE DEF ClockInv
<1>1. numberTimeStamps = 0 /\ \A d \in Clients : d # c => io[d] = "stopped"
  BY DEF Anchor, AnchorAlone
<1>2. \A d \in Clients : zero[d] = NoStamp
  BY <1>1 DEF Anchor, StampedRuns, Asks
<1>3. /\ io' = [io EXCEPT ![c] = "running"] /\ zero' = zero /\ numberTimeStamps' = 0
      /\ now' = now /\ anchorHostTime' = now /\ currentHostTime' = now
  BY <1>1 DEF Anchor
<1>4. TimelineTypeOK'
  BY DEF Anchor, TimelineTypeOK
<1>5. CountIsClients'
  <2>1. Started' = Started
    BY <1>3 DEF Anchor, Started, TimelineTypeOK
  <2> QED
    BY <2>1 DEF CountIsClients, Anchor
<1>6. AnchorAlone' /\ OnePolls' /\ StampedRuns'
  BY <1>1, <1>2, <1>3 DEF AnchorAlone, OnePolls, StampedRuns, Asks, TimelineTypeOK
<1>7. LineKept'
  <2>1. HostTimeOf(0)' = now /\ HostTimeOf(1)' = now + Period /\ HostTimeOf(2)' = now + Period + Period
    BY <1>3, TimelineAssumption DEF HostTimeOf, TimelineTypeOK
  <2> QED
    BY <1>3, <2>1, TimelineAssumption DEF LineKept, TimelineTypeOK, HostTimeOf
<1>8. StampsOnLine' /\ StampsCurrent'
  BY <1>2, <1>3 DEF StampsOnLine, StampsCurrent
<1> QED
  BY <1>4, <1>5, <1>6, <1>7, <1>8

\* A further client starts on the line of those that run.
LEMMA StartNextKeeps ==
  ASSUME ClockInv, NEW c \in Clients, StartNext(c),
         \A d \in Clients : stateMutex = d <=> io[d] = "anchoring"
  PROVE  ClockInv'
<1> USE DEF ClockInv
<1>1. \A d \in Clients : io[d] # "anchoring"
  BY TimelineAssumption DEF StartNext
<1>2. PICK d \in Clients : Asks(d)
  <2>1. Started # {}
    BY StartedCount DEF StartNext, CountIsClients
  <2> QED
    BY <1>1, <2>1 DEF Started, Asks, TimelineTypeOK
<1>3. /\ io[c] = "stopped" /\ io' = [io EXCEPT ![c] = "running"]
      /\ zero' = zero /\ numberTimeStamps' = numberTimeStamps
      /\ now' = now /\ anchorHostTime' = anchorHostTime /\ currentHostTime' = currentHostTime
  BY DEF StartNext
<1>4. TimelineTypeOK'
  BY DEF StartNext, TimelineTypeOK
<1>5. CountIsClients'
  <2>1. Started' = Started \cup {c} /\ c \notin Started
    BY <1>3 DEF Started, TimelineTypeOK
  <2> QED
    BY <2>1, StartedCount DEF CountIsClients, StartNext
<1>6. AnchorAlone' /\ OnePolls' /\ StampedRuns'
  BY <1>1, <1>3 DEF AnchorAlone, OnePolls, StampedRuns, Asks, TimelineTypeOK
<1>7. LineKept'
  <2>1. \A e \in Clients : io'[e] # "polling" <=> io[e] # "polling"
    BY <1>3 DEF TimelineTypeOK
  <2> QED
    BY <1>2, <1>3, <2>1 DEF LineKept, HostTimeOf
<1>8. StampsOnLine' /\ StampsCurrent'
  BY <1>3 DEF StampsOnLine, StampsCurrent, HostTimeOf
<1> QED
  BY <1>4, <1>5, <1>6, <1>7, <1>8

\* A client that stops takes its stamp along and leaves the line to the others.
LEMMA StopKeeps ==
  ASSUME ClockInv, NEW c \in Clients, Stop(c)
  PROVE  ClockInv'
<1> USE DEF ClockInv
<1>1. /\ io[c] = "running" /\ io' = [io EXCEPT ![c] = "stopped"]
      /\ zero' = [zero EXCEPT ![c] = NoStamp] /\ numberTimeStamps' = numberTimeStamps
      /\ now' = now /\ anchorHostTime' = anchorHostTime /\ currentHostTime' = currentHostTime
  BY DEF Stop
<1>2. TimelineTypeOK'
  <2>1. zero' \in [Clients -> [sample : Nat \cup {-1}, host : Nat \cup {-1}, asked : Nat \cup {-1}]]
    BY <1>1 DEF TimelineTypeOK, NoStamp
  <2>2. ioIsRunning' \in Nat
    BY DEF Stop, TimelineTypeOK
  <2> QED
    BY <1>1, <2>1, <2>2 DEF TimelineTypeOK
<1>3. CountIsClients'
  <2>1. Started' = Started \ {c} /\ c \in Started
    BY <1>1 DEF Started, TimelineTypeOK
  <2> QED
    BY <2>1, StartedCount DEF CountIsClients, Stop
<1>4. \A d \in Clients : /\ io'[d] = IF d = c THEN "stopped" ELSE io[d]
                         /\ zero'[d] = IF d = c THEN NoStamp ELSE zero[d]
  BY <1>1 DEF TimelineTypeOK
<1>5. AnchorAlone' /\ OnePolls' /\ StampedRuns'
  BY <1>1, <1>4 DEF AnchorAlone, OnePolls, StampedRuns, Asks
<1>6. LineKept'
  <2>1. \A e \in Clients : io'[e] # "polling" <=> io[e] # "polling"
    BY <1>1, <1>4
  <2> QED
    BY <1>1, <1>4, <2>1 DEF LineKept, HostTimeOf, Asks
<1>7. StampsOnLine' /\ StampsCurrent'
  BY <1>1, <1>4 DEF StampsOnLine, StampsCurrent, HostTimeOf
<1> QED
  BY <1>2, <1>3, <1>5, <1>6, <1>7

\* The client that asks holds the IO mutex and takes the time, which is a period after the
\* latest reply at most.
LEMMA PollBeginKeeps ==
  ASSUME ClockInv, NEW c \in Clients, PollBegin(c)
  PROVE  ClockInv'
<1> USE DEF ClockInv
<1>1. /\ io[c] = "running" /\ io' = [io EXCEPT ![c] = "polling"]
      /\ \A d \in Clients : io[d] # "polling"
      /\ zero' = zero /\ numberTimeStamps' = numberTimeStamps /\ currentHostTime' = now
      /\ now' = now /\ anchorHostTime' = anchorHostTime /\ ioIsRunning' = ioIsRunning
  BY DEF PollBegin
<1>2. \A d \in Clients : io'[d] = IF d = c THEN "polling" ELSE io[d]
  BY <1>1 DEF TimelineTypeOK
<1>3. TimelineTypeOK'
  BY <1>1 DEF TimelineTypeOK
<1>4. CountIsClients'
  <2>1. Started' = Started
    BY <1>1, <1>2 DEF Started
  <2> QED
    BY <1>1, <2>1 DEF CountIsClients
<1>5. AnchorAlone' /\ OnePolls' /\ StampedRuns'
  BY <1>1, <1>2 DEF AnchorAlone, OnePolls, StampedRuns, Asks
<1>6. LineKept'
  <2>1. /\ currentHostTime <= now /\ now <= currentHostTime + Period
        /\ HostTimeOf(numberTimeStamps) <= currentHostTime
        /\ currentHostTime < HostTimeOf(numberTimeStamps + 1)
    BY <1>1 DEF LineKept, Asks
  <2>2. /\ HostTimeOf(numberTimeStamps) \in Nat /\ HostTimeOf(numberTimeStamps + 1) \in Nat
        /\ HostTimeOf(numberTimeStamps + 2) = HostTimeOf(numberTimeStamps + 1) + Period
    BY StampDistance DEF TimelineTypeOK
  <2>3. /\ HostTimeOf(numberTimeStamps) <= now
        /\ now < HostTimeOf(numberTimeStamps + 2)
        /\ now <= now + Period
    BY <2>1, <2>2, TimelineAssumption DEF TimelineTypeOK
  <2>4. io'[c] = "polling"
    BY <1>2
  <2>5. /\ HostTimeOf(numberTimeStamps)' = HostTimeOf(numberTimeStamps)
        /\ HostTimeOf(numberTimeStamps + 2)' = HostTimeOf(numberTimeStamps + 2)
    BY <1>1 DEF HostTimeOf
  <2>6. now <= now
    BY DEF TimelineTypeOK
  <2> QED
    BY <1>1, <2>3, <2>4, <2>5, <2>6 DEF LineKept
<1>7. StampsOnLine' /\ StampsCurrent'
  BY <1>1 DEF StampsOnLine, StampsCurrent, HostTimeOf
<1> QED
  BY <1>3, <1>4, <1>5, <1>6, <1>7

\* The reply moves the line on if a stamp is due; one stamp is enough.
LEMMA PollEndKeeps ==
  ASSUME ClockInv, NEW c \in Clients, PollEnd(c)
  PROVE  ClockInv'
<1> USE DEF ClockInv
<1> DEFINE n == numberTimeStamps
           stamp == [sample |-> n', host |-> HostTimeOf(n'), asked |-> currentHostTime]
<1>1. /\ io[c] = "polling" /\ io' = [io EXCEPT ![c] = "running"]
      /\ n' = IF NextIsDue THEN n + 1 ELSE n
      /\ zero' = [zero EXCEPT ![c] = stamp] /\ currentHostTime' = currentHostTime
      /\ now' = now /\ anchorHostTime' = anchorHostTime /\ ioIsRunning' = ioIsRunning
  BY DEF PollEnd
<1>2. /\ currentHostTime <= now /\ now <= currentHostTime + Period
      /\ HostTimeOf(n) <= currentHostTime
      /\ currentHostTime < HostTimeOf(n + 2)
  BY <1>1 DEF LineKept, Asks
<1>3. n \in Nat /\ n' \in Nat /\ HostTimeOf(n') \in Nat
  BY <1>1, StampDistance DEF TimelineTypeOK
<1>4. HostTimeOf(n') <= currentHostTime /\ currentHostTime < HostTimeOf(n' + 1)
  <2>1. CASE NextIsDue
    <3>1. n' = n + 1 /\ n' + 1 = n + 2
      BY <1>1, <1>3, <2>1
    <3> QED
      BY <1>2, <2>1, <3>1 DEF NextIsDue
  <2>2. CASE ~ NextIsDue
    <3>1. n' = n
      BY <1>1, <2>2
    <3>2. HostTimeOf(n + 1) \in Nat /\ ~ (HostTimeOf(n + 1) <= currentHostTime)
      BY <1>3, <2>2, StampDistance DEF NextIsDue
    <3> QED
      BY <1>2, <3>1, <3>2 DEF TimelineTypeOK
  <2> QED
    BY <2>1, <2>2
<1>5. \A d \in Clients : /\ io'[d] = IF d = c THEN "running" ELSE io[d]
                         /\ zero'[d] = IF d = c THEN stamp ELSE zero[d]
  BY <1>1 DEF TimelineTypeOK
<1>6. \A k \in Nat : HostTimeOf(k)' = HostTimeOf(k)
  BY <1>1 DEF HostTimeOf
<1>7. TimelineTypeOK'
  <2>1. stamp \in [sample : Nat \cup {-1}, host : Nat \cup {-1}, asked : Nat \cup {-1}]
    BY <1>3 DEF TimelineTypeOK
  <2> QED
    BY <1>1, <1>3, <2>1 DEF TimelineTypeOK
<1>8. CountIsClients'
  <2>1. Started' = Started
    BY <1>1, <1>5 DEF Started
  <2> QED
    BY <1>1, <2>1 DEF CountIsClients
<1>9. AnchorAlone' /\ OnePolls' /\ StampedRuns'
  <2>1. \A d \in Clients : io[d] # "anchoring"
    BY <1>1 DEF AnchorAlone
  <2> QED
    BY <1>1, <1>5, <2>1 DEF AnchorAlone, OnePolls, StampedRuns, Asks
<1>10. LineKept'
  <2>1. /\ HostTimeOf(n)' = HostTimeOf(n')
        /\ HostTimeOf(n + 1)' = HostTimeOf(n' + 1) /\ HostTimeOf(n + 2)' = HostTimeOf(n' + 2)
    BY <1>1 DEF HostTimeOf
  <2>2. currentHostTime < HostTimeOf(n' + 2)
    <3>1. /\ HostTimeOf(n' + 1) \in Nat
          /\ HostTimeOf(n' + 2) = HostTimeOf(n' + 1) + Period
      BY <1>3, StampDistance
    <3> QED
      BY <1>4, <3>1, TimelineAssumption DEF TimelineTypeOK
  <2> QED
    BY <1>1, <1>2, <1>4, <2>1, <2>2 DEF LineKept
<1>11. StampsOnLine'
  BY <1>1, <1>5, <1>6 DEF StampsOnLine, HostTimeOf
<1>12. StampsCurrent'
  <2>1. HostTimeOf(n' + 1) = HostTimeOf(n') + Period
    BY <1>3, StampDistance
  <2> QED
    BY <1>4, <1>5, <2>1 DEF StampsCurrent
<1> QED
  BY <1>7, <1>8, <1>9, <1>10, <1>11, <1>12

\* Time passes while the line stands.
LEMMA TickKeeps ==
  ASSUME ClockInv, Tick
  PROVE  ClockInv'
<1> USE DEF ClockInv
<1>1. /\ now' = now + 1
      /\ (\E c \in Clients : Asks(c)) => now < currentHostTime + Period
      /\ UNCHANGED <<stateMutex, ioIsRunning, numberTimeStamps, anchorHostTime,
                     currentHostTime, io, zero>>
  BY DEF Tick, Asks
<1>2. TimelineTypeOK' /\ CountIsClients'
  BY <1>1 DEF TimelineTypeOK, CountIsClients, Started
<1>3. AnchorAlone' /\ OnePolls' /\ StampedRuns'
  BY <1>1 DEF AnchorAlone, OnePolls, StampedRuns, Asks
<1>4. LineKept'
  <2>1. \A k : HostTimeOf(k)' = HostTimeOf(k)
    BY <1>1 DEF HostTimeOf
  <2>2. \A c \in Clients : Asks(c) => currentHostTime <= now + 1 /\ now + 1 <= currentHostTime + Period
    BY <1>1, TimelineAssumption DEF LineKept, TimelineTypeOK
  <2>3. /\ HostTimeOf(numberTimeStamps)' = HostTimeOf(numberTimeStamps)
        /\ HostTimeOf(numberTimeStamps + 1)' = HostTimeOf(numberTimeStamps + 1)
        /\ HostTimeOf(numberTimeStamps + 2)' = HostTimeOf(numberTimeStamps + 2)
    BY <1>1 DEF HostTimeOf
  <2> QED
    BY <1>1, <2>2, <2>3 DEF LineKept, Asks
<1>5. StampsOnLine' /\ StampsCurrent'
  BY <1>1 DEF StampsOnLine, StampsCurrent, HostTimeOf
<1> QED
  BY <1>2, <1>3, <1>4, <1>5

-----------------------------------------------------------------------------
(* The whole clock: its steps, a step that leaves it, a restart            *)

ClientsHold == \A c \in Clients : stateMutex = c <=> io[c] = "anchoring"

\* The clock of a driver that was loaded.
LEMMA InitialClock ==
  ASSUME TimelineInit
  PROVE  ClockInv
<1>1. TimelineTypeOK
  BY DEF TimelineInit, TimelineTypeOK, NoStamp
<1>2. CountIsClients
  <2>1. Started = {}
    BY DEF Started, TimelineInit
  <2> QED
    BY <2>1, FS_EmptySet DEF CountIsClients, TimelineInit
<1>3. \A c \in Clients : io[c] = "stopped" /\ zero[c] = NoStamp
  BY DEF TimelineInit
<1> QED
  BY <1>1, <1>2, <1>3 DEF ClockInv, AnchorAlone, OnePolls, StampedRuns, LineKept,
     StampsOnLine, StampsCurrent, Asks

\* The steps of the clock (StartIO, StopIO, GetZeroTimeStamp) keep it in order.
LEMMA ClockStepKeeps ==
  ASSUME ClockInv, ClientsHold, ClockStep
  PROVE  ClockInv'
<1>1. CASE \E c \in Clients : ClientStep(c)
  <2>1. PICK c \in Clients : ClientStep(c)
    BY <1>1
  <2> QED
    BY <2>1, StartFirstKeeps, AnchorKeeps, StartNextKeeps, StopKeeps, PollBeginKeeps,
       PollEndKeeps DEF ClientStep, ClientsHold
<1>2. CASE Tick
  BY <1>2, TickKeeps
<1> QED
  BY <1>1, <1>2 DEF ClockStep

\* A call that leaves the clock alone keeps it.
LEMMA ClockUnchanged ==
  ASSUME ClockInv, UNCHANGED clock
  PROVE  ClockInv'
  BY DEF ClockInv, clock, TimelineTypeOK, CountIsClients, Started, AnchorAlone, OnePolls,
     StampedRuns, LineKept, StampsOnLine, StampsCurrent, HostTimeOf, Asks

\* So does a restart of the host's process, which has no clients.
LEMMA RestartClock ==
  ASSUME ClockInv, Restart
  PROVE  ClockInv'
<1>1. now' \in Nat
  BY DEF Restart, ClockInv, TimelineTypeOK
<1>2. TimelineTypeOK'
  BY <1>1 DEF Restart, TimelineTypeOK, NoStamp
<1>3. \A c \in Clients : io'[c] = "stopped" /\ zero'[c] = NoStamp
  BY DEF Restart
<1>4. CountIsClients'
  <2>1. Started' = {}
    BY <1>3 DEF Started
  <2> QED
    BY <2>1, FS_EmptySet DEF CountIsClients, Restart
<1> QED
  BY <1>2, <1>3, <1>4 DEF ClockInv, AnchorAlone, OnePolls, StampedRuns, LineKept,
     StampsOnLine, StampsCurrent, Asks

-----------------------------------------------------------------------------
(* What a call does to the calls, the mutex and the references             *)

\* The call a thread enters is its own.
LEMMA EnterCall ==
  ASSUME NEW t \in Threads, NEW c, call \in [Threads -> Calls], c \in Calls, Enter(t, c)
  PROVE  /\ call' \in [Threads -> Calls]
         /\ call'[t] = c
         /\ \A r \in Threads : r # t => call'[r] = call[r]
  BY DEF Enter

CallsAre(s) == {t \in Threads : call[t].step = "notifying" /\ call[t].string = s}

\* The calls that hold a string are finitely many.
LEMMA CallsCount ==
  ASSUME NEW s
  PROVE  /\ IsFiniteSet(CallsAre(s))
         /\ Cardinality(CallsAre(s)) \in Nat
         /\ \A t : Cardinality(CallsAre(s) \cup {t}) =
              IF t \in CallsAre(s) THEN Cardinality(CallsAre(s)) ELSE Cardinality(CallsAre(s)) + 1
         /\ \A t : Cardinality(CallsAre(s) \ {t}) =
              IF t \in CallsAre(s) THEN Cardinality(CallsAre(s)) - 1 ELSE Cardinality(CallsAre(s))
<1>1. IsFiniteSet(CallsAre(s))
  <2>1. CallsAre(s) \in SUBSET Threads
    BY DEF CallsAre
  <2> QED
    BY <2>1, DriverAssumption, FS_Subset
<1> QED
  BY <1>1, FS_CardinalityType, FS_AddElement, FS_RemoveElement

\* The balance of the references, with the calls counted by string.
LEMMA BalancedIs ==
  NamesBalanced <=>
    \A s \in Strings :
      refs[s] = One(name = s) + One(view["Name"] = s) + Cardinality(CallsAre(s))
  BY DEF NamesBalanced, CallsAre

\* A call that holds no string, before and after, changes no count.
LEMMA QuietNames ==
  ASSUME NamesBalanced, NEW t \in Threads,
         \A r \in Threads : r # t => call'[r] = call[r],
         call[t].step = "notifying" => call[t].string \notin Strings,
         call'[t].step = "notifying" => call'[t].string \notin Strings,
         refs' = refs, name' = name, view'["Name"] = view["Name"]
  PROVE  NamesBalanced'
<1>1. \A s \in Strings : CallsAre(s)' = CallsAre(s)
  BY DEF CallsAre
<1>2. \A s \in Strings :
        refs'[s] = One(name' = s) + One(view'["Name"] = s) + Cardinality(CallsAre(s)')
  BY <1>1, BalancedIs
<1> QED
  BY <1>2 DEF NamesBalanced, CallsAre

\* A call outside its critical section, before and after, leaves the mutex to its holder.
LEMMA QuietMutex ==
  ASSUME HeldInsideCalls, RefusedHolds, NEW t \in Threads,
         \A r \in Threads : r # t => call'[r] = call[r],
         call[t].step \notin {"storing", "refused"}, call'[t].step \notin {"storing", "refused"},
         stateMutex' = stateMutex, boxAcquired' = boxAcquired, io' = io
  PROVE  HeldInsideCalls' /\ RefusedHolds'
  BY DEF HeldInsideCalls, RefusedHolds

\* With the mutex free no call is in its critical section.
LEMMA FreeMutex ==
  ASSUME HeldInsideCalls, RefusedHolds, stateMutex = Free, TypeOK
  PROVE  /\ \A t \in Threads : call[t].step \notin {"storing", "refused"}
         /\ \A c \in Clients : io[c] # "anchoring"
  BY DriverAssumption, TimelineAssumption DEF HeldInsideCalls, RefusedHolds

-----------------------------------------------------------------------------
(* Setting properties                                                      *)

\* What a thread can be in the middle of.
LEMMA CallKinds ==
  /\ Idle \in Calls /\ [step |-> "storing"] \in Calls
  /\ \A a \in SUBSET ViewAddresses, s \in Strings \cup {Default} : Notifying(a, s) \in Calls
  /\ \A a \in Lists, n \in {0, Word} : [step |-> "sized", list |-> a, size |-> n] \in Calls
  /\ \A n \in {0, Word} : [step |-> "refused", size |-> n] \in Calls
  /\ \A s \in Strings \cup {Default} : [step |-> "named", string |-> s] \in Calls
  BY DEF Calls, Notifying

\* Setting a control (SetVolumeControlPropertyData, SetMuteControlPropertyData,
\* SetStreamPropertyData) changes its value and reports it.
LEMMA ControlKeeps ==
  ASSUME DriverInv, UNCHANGED clock, NEW t \in Threads, NEW a \in SUBSET ViewAddresses,
         Begin(t), Enter(t, Notifying(a, Default)), sets' = sets + 1,
         volume' \in 0 .. Loudest, mute' \in BOOLEAN, active' \in BOOLEAN,
         UNCHANGED <<stateMutex, box, names, stale, view, restarts>>
  PROVE  DriverInv'
<1> USE DEF DriverInv
<1>1. Notifying(a, Default) \in Calls
  BY CallKinds
<1>2. /\ call' \in [Threads -> Calls] /\ call'[t] = Notifying(a, Default)
      /\ \A r \in Threads : r # t => call'[r] = call[r]
  BY <1>1, EnterCall DEF TypeOK
<1>3. call[t].step = "idle" /\ call'[t].step = "notifying" /\ call'[t].string \notin Strings
  BY <1>2, DriverAssumption DEF Begin, Idle, Notifying
<1>4. TypeOK'
  BY <1>2 DEF TypeOK, TimelineTypeOK, clock, box, names
<1>5. HeldInsideCalls' /\ RefusedHolds'
  BY <1>2, <1>3, QuietMutex DEF box, clock
<1>6. NamesBalanced'
  BY <1>2, <1>3, QuietNames DEF names
<1> QED
  BY <1>4, <1>5, <1>6

\* A value that was clamped is in its range.
LEMMA ClampRange ==
  ASSUME NEW v \in Int, NEW top \in Nat
  PROVE  /\ Clamp(v, top) \in 0 .. top
         /\ Clamp(v, top) \in {0, v, top}
  BY DEF Clamp

\* The square root of a level that was clamped is a step of the scale.
LEMMA RootRange ==
  ASSUME NEW level \in {-1, Loudest * Loudest + 1} \cup {v * v : v \in 0 .. Loudest}
  PROVE  Root(Clamp(level, Loudest * Loudest)) \in 0 .. Loudest
<1>1. Loudest \in Nat /\ Loudest * Loudest \in Nat
  BY DriverAssumption
<1>2. \E v \in 0 .. Loudest : v * v = Clamp(level, Loudest * Loudest)
  <2>1. CASE level = -1
    <3>1. Clamp(level, Loudest * Loudest) = 0
      BY <2>1, <1>1 DEF Clamp
    <3>2. 0 \in 0 .. Loudest /\ 0 * 0 = 0
      BY <1>1
    <3> QED
      BY <3>1, <3>2
  <2>2. CASE level = Loudest * Loudest + 1
    <3>1. Clamp(level, Loudest * Loudest) = Loudest * Loudest
      BY <2>2, <1>1 DEF Clamp
    <3>2. Loudest \in 0 .. Loudest
      BY <1>1
    <3> QED
      BY <3>1, <3>2
  <2>3. CASE level \in {v * v : v \in 0 .. Loudest}
    <3>1. PICK v \in 0 .. Loudest : level = v * v
      BY <2>3
    <3>2. v \in Nat /\ v <= Loudest
      BY <1>1
    <3>3. v * v \in Nat /\ v * v <= v * Loudest /\ v * Loudest <= Loudest * Loudest
      BY <1>1, <3>2, Z3
    <3>4. Clamp(level, Loudest * Loudest) = v * v
      BY <1>1, <3>1, <3>2, <3>3 DEF Clamp
    <3> QED
      BY <3>4
  <2> QED
    BY <2>1, <2>2, <2>3
<1> QED
  BY <1>2 DEF Root

\* The volume, under either of its properties.
LEMMA ChangeVolumeKeeps ==
  ASSUME DriverInv, UNCHANGED clock, NEW t \in Threads, NEW v \in 0 .. Loudest,
         ChangeVolume(t, v)
  PROVE  DriverInv'
<1>1. {"ScalarValue", "DecibelValue"} \in SUBSET ViewAddresses
  BY DEF ViewAddresses, WordAddresses
<1> QED
  BY <1>1, ControlKeeps DEF ChangeVolume, DriverInv, TypeOK

\* Whatever the caller asked for.
LEMMA SetVolumeKeeps ==
  ASSUME DriverInv, UNCHANGED clock, NEW t \in Threads,
         SetScalarValue(t) \/ SetDecibelValue(t)
  PROVE  DriverInv'
<1>1. CASE SetScalarValue(t)
  <2>1. PICK v \in -1 .. Loudest + 1 : ChangeVolume(t, Clamp(v, Loudest))
    BY <1>1 DEF SetScalarValue
  <2>2. Clamp(v, Loudest) \in 0 .. Loudest
    BY ClampRange, DriverAssumption
  <2> QED
    BY <2>1, <2>2, ChangeVolumeKeeps
<1>2. CASE SetDecibelValue(t)
  <2>1. PICK level \in {-1, Loudest * Loudest + 1} \cup {v * v : v \in 0 .. Loudest} :
          ChangeVolume(t, Root(Clamp(level, Loudest * Loudest)))
    BY <1>2 DEF SetDecibelValue
  <2> QED
    BY <2>1, RootRange, ChangeVolumeKeeps
<1> QED
  BY <1>1, <1>2

\* Mute and the stream's activity.
LEMMA SetSwitchKeeps ==
  ASSUME DriverInv, UNCHANGED clock, NEW t \in Threads, SetMute(t) \/ SetIsActive(t)
  PROVE  DriverInv'
<1>1. {"BooleanValue"} \in SUBSET ViewAddresses /\ {"IsActive"} \in SUBSET ViewAddresses
  BY DEF ViewAddresses, WordAddresses
<1>2. CASE SetMute(t)
  BY <1>1, <1>2, ControlKeeps DEF SetMute, DriverInv, TypeOK
<1>3. CASE SetIsActive(t)
  BY <1>1, <1>3, ControlKeeps DEF SetIsActive, DriverInv, TypeOK
<1> QED
  BY <1>2, <1>3

\* The thread that acquires the box keeps the mutex until the host has stored it.
LEMMA SetAcquiredKeeps ==
  ASSUME DriverInv, UNCHANGED clock, NEW t \in Threads, NEW v \in BOOLEAN, SetAcquired(t, v)
  PROVE  DriverInv'
<1> USE DEF DriverInv
<1>1. /\ call' \in [Threads -> Calls] /\ call'[t] = [step |-> "storing"]
      /\ \A r \in Threads : r # t => call'[r] = call[r]
  BY CallKinds, EnterCall DEF TypeOK, SetAcquired
<1>2. call[t].step = "idle" /\ call'[t].step = "storing"
  BY <1>1 DEF SetAcquired, Begin, Idle
<1>3. stateMutex = Free /\ stateMutex' = t
  BY DEF SetAcquired, Begin
<1>4. /\ \A r \in Threads : call[r].step \notin {"storing", "refused"}
      /\ \A c \in Clients : io[c] # "anchoring"
  BY <1>3, FreeMutex
<1>5. TypeOK'
  BY <1>1 DEF TypeOK, TimelineTypeOK, clock, controls, names, SetAcquired
<1>6. HeldInsideCalls' /\ RefusedHolds'
  BY <1>1, <1>2, <1>3, <1>4, DriverAssumption DEF HeldInsideCalls, RefusedHolds, clock
<1>7. NamesBalanced'
  BY <1>1, <1>2, QuietNames DEF SetAcquired, names
<1> QED
  BY <1>5, <1>6, <1>7

\* The thread that stored the acquisition lets the mutex go.
LEMMA WriteToStorageKeeps ==
  ASSUME DriverInv, UNCHANGED clock, NEW t \in Threads, WriteToStorage(t)
  PROVE  DriverInv'
<1> USE DEF DriverInv
<1> DEFINE notice == Notifying({"Acquired", "BoxDeviceList"}, Default)
<1>1. notice \in Calls
  BY CallKinds DEF ViewAddresses, WordAddresses, Lists
<1>2. /\ call' \in [Threads -> Calls] /\ call'[t] = notice
      /\ \A r \in Threads : r # t => call'[r] = call[r]
  BY <1>1, EnterCall DEF TypeOK, WriteToStorage
<1>3. /\ call[t].step = "storing" /\ call'[t].step = "notifying"
      /\ call'[t].string \notin Strings
  BY <1>2, DriverAssumption DEF WriteToStorage, Notifying
<1>4. stateMutex = t /\ stateMutex' = Free
  BY <1>3 DEF HeldInsideCalls, WriteToStorage
<1>5. TypeOK'
  BY <1>2 DEF TypeOK, TimelineTypeOK, clock, controls, names, bounds, WriteToStorage
<1>6. HeldInsideCalls' /\ RefusedHolds'
  <2>1. \A r \in Threads : r # t => call[r].step \notin {"storing", "refused"}
    BY <1>4 DEF HeldInsideCalls, RefusedHolds
  <2>2. \A c \in Clients : io[c] # "anchoring"
    BY <1>4, DriverAssumption DEF HeldInsideCalls
  <2> QED
    BY <1>2, <1>3, <1>4, <2>1, <2>2, DriverAssumption, TimelineAssumption
       DEF HeldInsideCalls, RefusedHolds, clock
<1>7. NamesBalanced'
  BY <1>2, <1>3, QuietNames DEF WriteToStorage, names
<1> QED
  BY <1>5, <1>6, <1>7

\* The caller's string is held by the driver and by the call; the driver's old one goes.
LEMMA SetNameKeeps ==
  ASSUME DriverInv, UNCHANGED clock, NEW t \in Threads, NEW s \in Strings, SetName(t, s)
  PROVE  DriverInv'
<1> USE DEF DriverInv
<1>1. /\ call' \in [Threads -> Calls] /\ call'[t] = Notifying({"Name"}, s)
      /\ \A r \in Threads : r # t => call'[r] = call[r]
  BY CallKinds, EnterCall DEF TypeOK, SetName, ViewAddresses
<1>2. /\ call[t].step = "idle" /\ call'[t].step = "notifying" /\ call'[t].string = s
  BY <1>1 DEF SetName, Begin, Idle, Notifying
<1>3. HeldInsideCalls' /\ RefusedHolds'
  BY <1>1, <1>2, QuietMutex DEF SetName, box, clock
<1>4. refs \in [Strings -> Nat] /\ refs[s] = 0 /\ name' = s /\ view' = view
  BY DEF SetName, TypeOK
<1>5. name # s /\ view["Name"] # s /\ CallsAre(s) = {}
  BY <1>4, BalancedIs, CallsCount, FS_EmptySet DEF One
<1>6. \A x \in Strings : refs'[x] = refs[x] + 2 * One(x = s) - One(x = name)
  BY <1>4, <1>5 DEF SetName, Retained, Released, One
<1>7. \A x \in Strings : Cardinality(CallsAre(x)') = Cardinality(CallsAre(x)) + One(x = s)
  <2>1. CallsAre(s)' = CallsAre(s) \cup {t} /\ t \notin CallsAre(s)
    BY <1>1, <1>2 DEF CallsAre
  <2>2. \A x \in Strings : x # s => CallsAre(x)' = CallsAre(x)
    BY <1>1, <1>2 DEF CallsAre
  <2> QED
    BY <2>1, <2>2, CallsCount DEF One
<1>8. \A x \in Strings :
        /\ refs'[x] = One(name' = x) + One(view'["Name"] = x) + Cardinality(CallsAre(x)')
        /\ refs'[x] \in Nat
  <2> SUFFICES ASSUME NEW x \in Strings
               PROVE  /\ refs'[x] = One(name' = x) + One(view'["Name"] = x) + Cardinality(CallsAre(x)')
                      /\ refs'[x] \in Nat
    OBVIOUS
  <2>1. /\ refs[x] = One(name = x) + One(view["Name"] = x) + Cardinality(CallsAre(x))
        /\ Cardinality(CallsAre(x)) \in Nat
    BY BalancedIs, CallsCount
  <2> QED
    BY <1>4, <1>5, <1>6, <1>7, <2>1 DEF One
<1>9. NamesBalanced'
  BY <1>8 DEF NamesBalanced, CallsAre
<1>10. refs' \in [Strings -> Nat]
  BY <1>8 DEF SetName, Released
<1>11. TypeOK'
  BY <1>1, <1>4, <1>10 DEF TypeOK, TimelineTypeOK, clock, controls, box, SetName
<1> QED
  BY <1>3, <1>9, <1>11

-----------------------------------------------------------------------------
(* Notices                                                                 *)

\* The call that set a string gives it back when it returns.
LEMMA PropertiesChangedKeeps ==
  ASSUME DriverInv, UNCHANGED clock, NEW t \in Threads, PropertiesChanged(t)
  PROVE  DriverInv'
<1> USE DEF DriverInv
<1> PICK s : s = call[t].string
  OBVIOUS
<1>1. /\ call' \in [Threads -> Calls] /\ call'[t] = Idle
      /\ \A r \in Threads : r # t => call'[r] = call[r]
  BY CallKinds, EnterCall DEF TypeOK, PropertiesChanged
<1>2. /\ call[t].step = "notifying" /\ call'[t].step = "idle"
      /\ call[t].addresses \in SUBSET ViewAddresses
  BY <1>1 DEF PropertiesChanged, Idle, TypeOK, Calls
<1>3. HeldInsideCalls' /\ RefusedHolds'
  BY <1>1, <1>2, QuietMutex DEF PropertiesChanged, box, clock
<1>4. /\ refs \in [Strings -> Nat] /\ name' = name /\ view' = view
      /\ refs' = Released(refs, s)
  BY DEF PropertiesChanged, TypeOK
<1>5. \A x \in Strings : refs'[x] = refs[x] - One(x = s)
  BY <1>4 DEF Released, One
<1>6. \A x \in Strings : /\ Cardinality(CallsAre(x)') = Cardinality(CallsAre(x)) - One(x = s)
                         /\ Cardinality(CallsAre(x)') \in Nat
  <2>1. CallsAre(s)' = CallsAre(s) \ {t} /\ t \in CallsAre(s)
    BY <1>1, <1>2 DEF CallsAre
  <2>2. \A x \in Strings : x # s => CallsAre(x)' = CallsAre(x)
    BY <1>1, <1>2 DEF CallsAre
  <2>3. Cardinality(CallsAre(s) \ {t}) \in Nat
    BY CallsCount, FS_RemoveElement, FS_CardinalityType
  <2> QED
    BY <2>1, <2>2, <2>3, CallsCount DEF One
<1>7. \A x \in Strings :
        /\ refs'[x] = One(name' = x) + One(view'["Name"] = x) + Cardinality(CallsAre(x)')
        /\ refs'[x] \in Nat
  <2> SUFFICES ASSUME NEW x \in Strings
               PROVE  /\ refs'[x] = One(name' = x) + One(view'["Name"] = x) + Cardinality(CallsAre(x)')
                      /\ refs'[x] \in Nat
    OBVIOUS
  <2>1. /\ refs[x] = One(name = x) + One(view["Name"] = x) + Cardinality(CallsAre(x))
        /\ Cardinality(CallsAre(x)) \in Nat
    BY BalancedIs, CallsCount
  <2> QED
    BY <1>4, <1>5, <1>6, <2>1 DEF One
<1>8. NamesBalanced'
  BY <1>7 DEF NamesBalanced, CallsAre
<1>9. refs' \in [Strings -> Nat]
  BY <1>4, <1>7 DEF Released
<1>10. TypeOK'
  BY <1>1, <1>2, <1>4, <1>9 DEF TypeOK, TimelineTypeOK, clock, controls, box, bounds, PropertiesChanged
<1> QED
  BY <1>3, <1>8, <1>10

\* The late notice of the plug-in's list.
LEMMA DeviceListChangedKeeps ==
  ASSUME DriverInv, UNCHANGED clock, DeviceListChanged
  PROVE  DriverInv'
<1> USE DEF DriverInv
<1>1. call' = call /\ view' = view /\ name' = name /\ refs' = refs /\ boxAcquired' = boxAcquired
      /\ stateMutex' = stateMutex /\ io' = io
  BY DEF DeviceListChanged, names, clock
<1>2. HeldInsideCalls' /\ RefusedHolds' /\ NamesBalanced'
  BY <1>1 DEF HeldInsideCalls, RefusedHolds, NamesBalanced
<1>3. TypeOK'
  BY DEF TypeOK, TimelineTypeOK, clock, controls, names, bounds, DeviceListChanged, ViewAddresses, Lists
<1> QED
  BY <1>2, <1>3

-----------------------------------------------------------------------------
(* Reading properties                                                      *)

\* What the host sees at an address is of the address's type.
ViewOK(f) ==
  /\ DOMAIN f = ViewAddresses
  /\ \A a \in Lists \cup {"Acquired", "BooleanValue", "IsActive"} : f[a] \in BOOLEAN
  /\ f["ScalarValue"] \in 0 .. Loudest
  /\ f["DecibelValue"] \in {v * v : v \in 0 .. Loudest}
  /\ f["Name"] \in Strings \cup {Default}

\* A value of one word is read in one step.
LEMMA GetWordKeeps ==
  ASSUME DriverInv, UNCHANGED clock, NEW t \in Threads, NEW a \in WordAddresses, GetWord(t, a)
  PROVE  DriverInv'
<1> USE DEF DriverInv
<1>1. /\ call' = call /\ name' = name /\ refs' = refs /\ boxAcquired' = boxAcquired
      /\ stateMutex' = stateMutex /\ io' = io /\ view' = [view EXCEPT ![a] = Current(a)]
  BY DEF GetWord, names, box, clock
<1>2. a # "Name" /\ a \in ViewAddresses /\ DOMAIN view = ViewAddresses
  BY DEF WordAddresses, ViewAddresses, TypeOK
<1>3. HeldInsideCalls' /\ RefusedHolds' /\ NamesBalanced'
  <2>1. view'["Name"] = view["Name"]
    BY <1>1, <1>2 DEF ViewAddresses
  <2> QED
    BY <1>1, <2>1 DEF HeldInsideCalls, RefusedHolds, NamesBalanced
<1>4. ViewOK(view')
  <2>1. ViewOK(view)
    BY DEF TypeOK, ViewOK
  <2>2. CASE a = "Acquired"
    <3>1. Current(a) \in BOOLEAN
      BY <2>2 DEF Current, ValueAt, TypeOK
    <3> QED
      BY <1>1, <2>1, <2>2, <3>1 DEF ViewOK, ViewAddresses, WordAddresses, Lists
  <2>3. CASE a = "ScalarValue"
    <3>1. Current(a) \in 0 .. Loudest
      BY <2>3 DEF Current, ValueAt, TypeOK, Lists
    <3> QED
      BY <1>1, <2>1, <2>3, <3>1 DEF ViewOK, ViewAddresses, WordAddresses, Lists
  <2>4. CASE a = "DecibelValue"
    <3>1. Current(a) \in {v * v : v \in 0 .. Loudest}
      BY <2>4 DEF Current, ValueAt, TypeOK, Lists
    <3> QED
      BY <1>1, <2>1, <2>4, <3>1 DEF ViewOK, ViewAddresses, WordAddresses, Lists
  <2>5. CASE a \in {"BooleanValue", "IsActive"}
    <3>1. Current(a) \in BOOLEAN
      BY <2>5 DEF Current, ValueAt, TypeOK, Lists
    <3> QED
      BY <1>1, <2>1, <2>5, <3>1 DEF ViewOK, ViewAddresses, WordAddresses, Lists
  <2> QED
    BY <2>2, <2>3, <2>4, <2>5 DEF WordAddresses
<1>5. TypeOK'
  BY <1>4 DEF TypeOK, TimelineTypeOK, clock, controls, names, box, bounds, GetWord, ViewOK
<1> QED
  BY <1>3, <1>5

\* The size that begins the read of a list is that of the list, as the box is then.
LEMMA ListSizeIs ==
  ASSUME NEW a \in Lists
  PROVE  GetPropertyDataSize(IF a = "BoxDeviceList" THEN Box ELSE PlugIn,
                             Address(a, "Global", "other"), boxAcquired)
           = IF boxAcquired THEN Word ELSE 0
<1>1. CASE a = "BoxDeviceList"
  <2>1. GetPropertyDataSize(Box, Address(a, "Global", "other"), boxAcquired)
          = GetBoxPropertyDataSize(a, boxAcquired)
    BY DEF GetPropertyDataSize, Address, Box, PlugIn, Device, StreamOutput, RoutedControls,
       VolumeOutput, MuteOutput
  <2> QED
    BY <1>1, <2>1 DEF GetBoxPropertyDataSize
<1>2. CASE a = "DeviceList"
  <2>1. GetPropertyDataSize(PlugIn, Address(a, "Global", "other"), boxAcquired)
          = GetPlugInPropertyDataSize(a, boxAcquired)
    BY DEF GetPropertyDataSize, Address, Box, PlugIn, Device, StreamOutput, RoutedControls,
       VolumeOutput, MuteOutput
  <2> QED
    BY <1>2, <2>1 DEF GetPlugInPropertyDataSize
<1> QED
  BY <1>1, <1>2 DEF Lists

\* The size is kept by the call; nothing else changes.
LEMMA GetListSizeKeeps ==
  ASSUME DriverInv, UNCHANGED clock, NEW t \in Threads, NEW a \in Lists, GetListSize(t, a)
  PROVE  DriverInv'
<1> USE DEF DriverInv
<1>1. PICK n \in {0, Word} : Enter(t, [step |-> "sized", list |-> a, size |-> n])
  BY ListSizeIs DEF GetListSize
<1>2. /\ call' \in [Threads -> Calls] /\ call'[t].step = "sized" /\ call[t].step = "idle"
      /\ \A r \in Threads : r # t => call'[r] = call[r]
  <2>1. [step |-> "sized", list |-> a, size |-> n] \in Calls
    BY CallKinds
  <2>2. /\ call' \in [Threads -> Calls] /\ call'[t] = [step |-> "sized", list |-> a, size |-> n]
        /\ \A r \in Threads : r # t => call'[r] = call[r]
    BY <1>1, <2>1, EnterCall DEF TypeOK
  <2>3. call[t].step = "idle"
    BY DEF GetListSize, Idle
  <2> QED
    BY <2>2, <2>3
<1>3. HeldInsideCalls' /\ RefusedHolds' /\ NamesBalanced'
  BY <1>2, QuietMutex, QuietNames DEF GetListSize, box, names, clock
<1>4. TypeOK'
  BY <1>2 DEF TypeOK, TimelineTypeOK, clock, controls, names, box, bounds, GetListSize
<1> QED
  BY <1>3, <1>4

\* The plug-in's list is read without the mutex.
LEMMA GetDeviceListKeeps ==
  ASSUME DriverInv, UNCHANGED clock, NEW t \in Threads, GetDeviceList(t)
  PROVE  DriverInv'
<1> USE DEF DriverInv
<1>1. /\ call' \in [Threads -> Calls] /\ call'[t].step = "idle" /\ call[t].step = "sized"
      /\ \A r \in Threads : r # t => call'[r] = call[r]
  BY CallKinds, EnterCall DEF TypeOK, GetDeviceList, Idle
<1>2. PICK v \in BOOLEAN : view' = [view EXCEPT !["DeviceList"] = v]
  BY DEF GetDeviceList
<1>3. view'["Name"] = view["Name"] /\ ViewOK(view')
  BY <1>2 DEF TypeOK, ViewOK, ViewAddresses, Lists, WordAddresses
<1>4. HeldInsideCalls' /\ RefusedHolds' /\ NamesBalanced'
  BY <1>1, <1>3, QuietMutex, QuietNames DEF GetDeviceList, box, names, clock
<1>5. TypeOK'
  BY <1>1, <1>3 DEF TypeOK, TimelineTypeOK, clock, controls, names, box, bounds, GetDeviceList, ViewOK
<1> QED
  BY <1>4, <1>5

\* A read that was refused had no room and leaves with the mutex; the others release it.
LEMMA GetBoxDeviceListKeeps ==
  ASSUME DriverInv, UNCHANGED clock, NEW t \in Threads, GetBoxDeviceList(t)
  PROVE  DriverInv'
<1> USE DEF DriverInv
<1> DEFINE reply == BoxDeviceList(call[t].size, boxAcquired)
<1>1. call[t].step = "sized" /\ call[t].size \in {0, Word} /\ boxAcquired \in BOOLEAN
  BY DEF GetBoxDeviceList, TypeOK, Calls, Idle
<1>2. /\ stateMutex = Free
      /\ \A r \in Threads : call[r].step \notin {"storing", "refused"}
      /\ \A c \in Clients : io[c] # "anchoring"
  BY FreeMutex DEF GetBoxDeviceList
<1>3. view'["Name"] = view["Name"] /\ ViewOK(view')
  <2>1. PICK v \in BOOLEAN : view' = [view EXCEPT !["BoxDeviceList"] = v]
    BY DEF GetBoxDeviceList, TypeOK, Lists
  <2> QED
    BY <2>1 DEF TypeOK, ViewOK, ViewAddresses, Lists, WordAddresses
<1>4. CASE reply.status = "ok"
  <2>1. /\ call' \in [Threads -> Calls] /\ call'[t].step = "idle"
        /\ \A r \in Threads : r # t => call'[r] = call[r]
    BY <1>4, CallKinds, EnterCall DEF TypeOK, GetBoxDeviceList, Idle
  <2>2. stateMutex' = stateMutex
    BY <1>2, <1>4 DEF GetBoxDeviceList, BoxListMutex
  <2>3. HeldInsideCalls' /\ RefusedHolds' /\ NamesBalanced'
    BY <1>1, <1>3, <2>1, <2>2, QuietMutex, QuietNames DEF GetBoxDeviceList, box, names, clock
  <2>4. TypeOK'
    BY <1>3, <2>1, <2>2 DEF TypeOK, TimelineTypeOK, clock, controls, names, box, bounds, GetBoxDeviceList, ViewOK
  <2> QED
    BY <2>3, <2>4
<1>5. CASE reply.status # "ok"
  <2>1. call[t].size = 0 /\ boxAcquired
    BY <1>1, <1>5 DEF BoxDeviceList, ObjectValue, Reply, Word
  <2>2. /\ call' \in [Threads -> Calls] /\ call'[t] = [step |-> "refused", size |-> call[t].size]
        /\ \A r \in Threads : r # t => call'[r] = call[r]
    BY <1>1, <1>5, CallKinds, EnterCall DEF TypeOK, GetBoxDeviceList
  <2>3. stateMutex' = t
    BY <1>5 DEF GetBoxDeviceList, BoxListMutex
  <2>4. call'[t].step = "refused" /\ call'[t].size = 0 /\ boxAcquired' /\ io' = io
    BY <2>1, <2>2 DEF GetBoxDeviceList, box, clock
  <2>5. HeldInsideCalls' /\ RefusedHolds'
    BY <1>2, <2>2, <2>3, <2>4, DriverAssumption DEF HeldInsideCalls, RefusedHolds
  <2>6. NamesBalanced'
    BY <1>1, <1>3, <2>2, <2>4, QuietNames DEF GetBoxDeviceList, names
  <2>7. TypeOK'
    BY <1>3, <2>2, <2>3 DEF TypeOK, TimelineTypeOK, clock, controls, names, box, bounds, GetBoxDeviceList, ViewOK
  <2> QED
    BY <2>5, <2>6, <2>7
<1> QED
  BY <1>4, <1>5

\* The name is taken, and not yet retained.
LEMMA GetNameKeeps ==
  ASSUME DriverInv, UNCHANGED clock, NEW t \in Threads, GetName(t)
  PROVE  DriverInv'
<1> USE DEF DriverInv
<1>1. /\ call' \in [Threads -> Calls] /\ call'[t].step = "named" /\ call[t].step = "idle"
      /\ \A r \in Threads : r # t => call'[r] = call[r]
  BY CallKinds, EnterCall DEF TypeOK, GetName, Begin, Idle
<1>2. HeldInsideCalls' /\ RefusedHolds' /\ NamesBalanced'
  BY <1>1, QuietMutex, QuietNames DEF GetName, box, names, clock
<1>3. TypeOK'
  BY <1>1 DEF TypeOK, TimelineTypeOK, clock, controls, names, box, bounds, GetName
<1> QED
  BY <1>2, <1>3

\* The host's reference moves from the string it had to the one it is given.
LEMMA RetainNameKeeps ==
  ASSUME DriverInv, UNCHANGED clock, NEW t \in Threads, RetainName(t)
  PROVE  DriverInv'
<1> USE DEF DriverInv
<1> PICK s : s = call[t].string
  OBVIOUS
<1>1. /\ call' \in [Threads -> Calls] /\ call'[t].step = "idle" /\ call[t].step = "named"
      /\ \A r \in Threads : r # t => call'[r] = call[r]
  BY CallKinds, EnterCall DEF TypeOK, RetainName, Idle
<1>2. HeldInsideCalls' /\ RefusedHolds'
  BY <1>1, QuietMutex DEF RetainName, box, clock
<1>3. s \in Strings \cup {Default}
  BY <1>1 DEF TypeOK, Calls, Idle
<1>4. /\ view' = [view EXCEPT !["Name"] = s] /\ view'["Name"] = s /\ ViewOK(view')
      /\ name' = name /\ refs \in [Strings -> Nat]
      /\ refs' = Released(Retained(refs, s), view["Name"])
  <2>1. view' = [view EXCEPT !["Name"] = s]
    BY DEF RetainName
  <2>2. view'["Name"] = s /\ ViewOK(view')
    BY <1>3, <2>1 DEF TypeOK, ViewOK, ViewAddresses, Lists, WordAddresses
  <2> QED
    BY <2>1, <2>2 DEF RetainName, TypeOK
<1>5. \A x \in Strings : refs'[x] = refs[x] + One(x = s) - One(x = view["Name"])
  BY <1>4 DEF Retained, Released, One
<1>6. \A x \in Strings : CallsAre(x)' = CallsAre(x)
  BY <1>1 DEF CallsAre
<1>7. \A x \in Strings :
        /\ refs'[x] = One(name' = x) + One(view'["Name"] = x) + Cardinality(CallsAre(x)')
        /\ refs'[x] \in Nat
  <2> SUFFICES ASSUME NEW x \in Strings
               PROVE  /\ refs'[x] = One(name' = x) + One(view'["Name"] = x) + Cardinality(CallsAre(x)')
                      /\ refs'[x] \in Nat
    OBVIOUS
  <2>1. /\ refs[x] = One(name = x) + One(view["Name"] = x) + Cardinality(CallsAre(x))
        /\ Cardinality(CallsAre(x)) \in Nat
    BY BalancedIs, CallsCount
  <2> QED
    BY <1>4, <1>5, <1>6, <2>1 DEF One
<1>8. NamesBalanced'
  BY <1>7 DEF NamesBalanced, CallsAre
<1>9. refs' \in [Strings -> Nat]
  BY <1>4, <1>7 DEF Released
<1>10. TypeOK'
  BY <1>1, <1>4, <1>9 DEF TypeOK, TimelineTypeOK, clock, controls, box, bounds, RetainName, ViewOK
<1> QED
  BY <1>2, <1>8, <1>10

-----------------------------------------------------------------------------
(* Loading, restarting, and the clock's steps as the driver sees them      *)

\* What the host finds when it scans the objects of a driver just loaded.
LEMMA ScanTyped ==
  ASSUME NEW acq \in BOOLEAN
  PROVE  /\ ViewOK(Scan(acq, 0, FALSE, TRUE, Default))
         /\ Scan(acq, 0, FALSE, TRUE, Default)["Name"] = Default
<1> DEFINE f == Scan(acq, 0, FALSE, TRUE, Default)
<1>1. /\ DOMAIN f = ViewAddresses
      /\ \A a \in ViewAddresses : f[a] = ValueAt(a, acq, 0, FALSE, TRUE, Default)
  BY DEF Scan
<1>2. Lists \cup {"Acquired", "ScalarValue", "DecibelValue", "BooleanValue", "IsActive", "Name"}
        \subseteq ViewAddresses
  BY DEF ViewAddresses, WordAddresses
<1>3. \A a \in Lists \cup {"Acquired"} : ValueAt(a, acq, 0, FALSE, TRUE, Default) = acq
  BY DEF ValueAt, Lists
<1>4. /\ ValueAt("ScalarValue", acq, 0, FALSE, TRUE, Default) = 0
      /\ ValueAt("DecibelValue", acq, 0, FALSE, TRUE, Default) = 0 * 0
      /\ ValueAt("BooleanValue", acq, 0, FALSE, TRUE, Default) = FALSE
      /\ ValueAt("IsActive", acq, 0, FALSE, TRUE, Default) = TRUE
      /\ ValueAt("Name", acq, 0, FALSE, TRUE, Default) = Default
  BY DEF ValueAt, Lists
<1>5. 0 \in 0 .. Loudest
  BY DriverAssumption
<1>6. \A a \in Lists \cup {"Acquired", "BooleanValue", "IsActive"} : f[a] \in BOOLEAN
  BY <1>1, <1>2, <1>3, <1>4
<1>7. /\ f["ScalarValue"] \in 0 .. Loudest
      /\ f["DecibelValue"] \in {v * v : v \in 0 .. Loudest}
      /\ f["Name"] = Default
  BY <1>1, <1>2, <1>4, <1>5
<1> HIDE DEF f
<1> QED
  BY <1>1, <1>6, <1>7 DEF ViewOK, f

\* The driver just loaded.
LEMMA InitialDriver ==
  ASSUME Init
  PROVE  DriverInv
<1>1. TimelineTypeOK
  BY InitialClock DEF ClockInv, Init
<1>2. \A t \in Threads : call[t] = Idle /\ call[t].step = "idle"
  BY DEF Init, Idle
<1>3. ViewOK(view) /\ view["Name"] = Default
  BY ScanTyped DEF Init
<1>4. call \in [Threads -> Calls]
  BY CallKinds DEF Init
<1>5. TypeOK
  <2>1. /\ volume \in 0 .. Loudest /\ dispatched \in Nat /\ sets \in Nat /\ restarts \in Nat
        /\ refs \in [Strings -> Nat]
    BY DriverAssumption DEF Init
  <2>2. /\ stateMutex \in Clients \cup Threads \cup {Free} /\ name \in Strings \cup {Default}
        /\ boxAcquired \in BOOLEAN /\ mute \in BOOLEAN /\ active \in BOOLEAN
        /\ stored \subseteq BOOLEAN /\ stale \subseteq ViewAddresses
    BY DEF Init, TimelineInit
  <2> QED
    BY <1>1, <1>3, <1>4, <2>1, <2>2 DEF TypeOK, ViewOK
<1>6. HeldInsideCalls /\ RefusedHolds
  BY <1>2, TimelineAssumption, DriverAssumption
     DEF HeldInsideCalls, RefusedHolds, Init, TimelineInit
<1>7. NamesBalanced
  <2>1. \A s \in Strings : CallsAre(s) = {}
    BY <1>2 DEF CallsAre
  <2>2. \A s \in Strings : refs[s] = 0 /\ name # s /\ view["Name"] # s
    BY <1>3, DriverAssumption DEF Init
  <2> QED
    BY <2>1, <2>2, FS_EmptySet, BalancedIs DEF One
<1> QED
  BY <1>5, <1>6, <1>7 DEF DriverInv

\* A restart of the host's process at any step.
LEMMA RestartKeeps ==
  ASSUME IInv, Restart
  PROVE  IInv'
<1>1. ClockInv'
  BY RestartClock DEF IInv
<1>2. \A t \in Threads : call'[t] = Idle /\ call'[t].step = "idle"
  BY DEF Restart, Idle
<1>3. /\ ViewOK(view') /\ view'["Name"] = Default /\ boxAcquired' \in BOOLEAN
      /\ name' = Default
  BY ScanTyped DEF Restart, Initialize
<1>4. call' \in [Threads -> Calls]
  BY CallKinds DEF Restart
<1>5. TypeOK'
  <2>1. /\ volume' \in 0 .. Loudest /\ dispatched' \in Nat /\ sets' \in Nat /\ restarts' \in Nat
        /\ refs' \in [Strings -> Nat]
    BY DriverAssumption DEF Restart, Initialize, IInv, DriverInv, TypeOK
  <2>2. /\ stateMutex' \in Clients \cup Threads \cup {Free} /\ name' \in Strings \cup {Default}
        /\ mute' \in BOOLEAN /\ active' \in BOOLEAN
        /\ stored' \subseteq BOOLEAN /\ stale' \subseteq ViewAddresses
    BY DEF Restart, Initialize, IInv, DriverInv, TypeOK
  <2> QED
    BY <1>1, <1>3, <1>4, <2>1, <2>2 DEF TypeOK, ViewOK, ClockInv
<1>6. HeldInsideCalls' /\ RefusedHolds'
  BY <1>2, TimelineAssumption, DriverAssumption DEF HeldInsideCalls, RefusedHolds, Restart
<1>7. NamesBalanced'
  <2>1. \A s \in Strings : {t \in Threads : call'[t].step = "notifying" /\ call'[t].string = s} = {}
    BY <1>2
  <2>2. \A s \in Strings : refs'[s] = 0 /\ name' # s /\ view'["Name"] # s
    BY <1>3, DriverAssumption DEF Restart
  <2> QED
    BY <2>1, <2>2, FS_EmptySet DEF NamesBalanced, One
<1> QED
  BY <1>1, <1>5, <1>6, <1>7 DEF IInv, DriverInv

\* Anchoring takes the state mutex when it is free and gives it back; the other steps of the
\* clock leave it alone.
LEMMA ClockAndMutex ==
  ASSUME IInv, ClockStep
  PROVE  IInv'
<1> USE DEF IInv, DriverInv
<1>1. ClockInv'
  BY ClockStepKeeps DEF HeldInsideCalls, ClientsHold
<1>2. UNCHANGED <<boxAcquired, stored, dispatched, volume, mute, active, name, refs,
                  stale, view, call, sets, restarts>>
  BY DEF ClockStep, box, controls, names, host, bounds
<1>3. NamesBalanced' /\ RefusedHolds'
  BY <1>2 DEF NamesBalanced, RefusedHolds
<1>4. HeldInsideCalls' /\ stateMutex' \in Clients \cup Threads \cup {Free}
  <2>1. CASE Tick
    BY <2>1, <1>2 DEF Tick, HeldInsideCalls, TypeOK
  <2>2. CASE \E c \in Clients : ClientStep(c)
    <3>1. PICK c \in Clients : ClientStep(c)
      BY <2>2
    <3>2. io \in [Clients -> {"stopped", "anchoring", "running", "polling"}]
      BY DEF TypeOK, TimelineTypeOK
    <3>3. CASE StartFirst(c)
      <4>1. /\ \A t \in Threads : call[t].step \notin {"storing", "refused"}
            /\ \A d \in Clients : io[d] # "anchoring"
        BY <3>3, FreeMutex DEF StartFirst
      <4> QED
        BY <1>2, <3>2, <3>3, <4>1, DriverAssumption DEF StartFirst, HeldInsideCalls
    <3>4. CASE Anchor(c)
      <4>1. stateMutex = c /\ c \notin Threads /\ c # Free
        BY <3>4, DriverAssumption, TimelineAssumption DEF Anchor, HeldInsideCalls
      <4>2. /\ \A t \in Threads : stateMutex # t
            /\ \A d \in Clients : d # c => io[d] # "anchoring"
        BY <4>1 DEF HeldInsideCalls
      <4>3. stateMutex' = Free /\ io' = [io EXCEPT ![c] = "running"]
        BY <3>4 DEF Anchor
      <4>4. \A d \in Clients : io'[d] # "anchoring"
        BY <3>2, <4>2, <4>3
      <4> QED
        BY <1>2, <4>2, <4>3, <4>4, DriverAssumption, TimelineAssumption DEF HeldInsideCalls
    <3>5. CASE StartNext(c) \/ Stop(c) \/ PollBegin(c) \/ PollEnd(c)
      <4>1. /\ stateMutex' = stateMutex
            /\ io[c] # "anchoring" /\ \E to \in {"stopped", "running", "polling"} : io' = [io EXCEPT ![c] = to]
        BY <3>5 DEF StartNext, Stop, PollBegin, PollEnd
      <4> QED
        BY <1>2, <3>2, <4>1 DEF HeldInsideCalls, TypeOK
    <3> QED
      BY <3>1, <3>3, <3>4, <3>5 DEF ClientStep
  <2> QED
    BY <2>1, <2>2 DEF ClockStep
<1>5. TypeOK'
  BY <1>1, <1>2, <1>4 DEF TypeOK, ClockInv
<1> QED
  BY <1>1, <1>3, <1>4, <1>5

-----------------------------------------------------------------------------
(* The theorems                                                            *)

\* Every call that gets or sets a property keeps all of it.
LEMMA PropertyStepKeeps ==
  ASSUME IInv, PropertyStep
  PROVE  IInv'
<1>1. UNCHANGED clock /\ ClockInv'
  BY ClockUnchanged DEF PropertyStep, IInv
<1>2. CASE DeviceListChanged
  BY <1>1, <1>2, DeviceListChangedKeeps DEF IInv
<1>3. CASE \E t \in Threads : SetStep(t)
  <2>1. PICK t \in Threads : SetStep(t)
    BY <1>3
  <2> QED
    BY <1>1, <2>1, SetAcquiredKeeps, WriteToStorageKeeps, SetVolumeKeeps, SetSwitchKeeps,
       SetNameKeeps, PropertiesChangedKeeps DEF SetStep, IInv
<1>4. CASE \E t \in Threads : GetStep(t)
  <2>1. PICK t \in Threads : GetStep(t)
    BY <1>4
  <2> QED
    BY <1>1, <2>1, GetWordKeeps, GetListSizeKeeps, GetDeviceListKeeps, GetBoxDeviceListKeeps,
       GetNameKeeps, RetainNameKeeps DEF GetStep, IInv
<1> QED
  BY <1>2, <1>3, <1>4 DEF PropertyStep

\* And so does no step at all.
LEMMA StutterKeeps ==
  ASSUME IInv, UNCHANGED vars
  PROVE  IInv'
<1>1. UNCHANGED <<clock, stateMutex, boxAcquired, stored, dispatched, volume, mute, active,
                  name, refs, stale, view, call, sets, restarts>>
  BY DEF vars, box, controls, names, host, bounds
<1>2. ClockInv'
  BY <1>1, ClockUnchanged DEF IInv
<1>3. TypeOK' /\ HeldInsideCalls' /\ RefusedHolds' /\ NamesBalanced'
  BY <1>1, <1>2 DEF IInv, DriverInv, ClockInv, TypeOK, HeldInsideCalls, RefusedHolds,
     NamesBalanced, clock
<1> QED
  BY <1>2, <1>3 DEF IInv, DriverInv

\* Clock, mutex, references and types are in order together in every state.
THEOREM Inductive == Spec => []IInv
<1>1. Init => IInv
  BY InitialClock, InitialDriver DEF IInv, Init
<1>2. IInv /\ [Next]_vars => IInv'
  <2> SUFFICES ASSUME IInv, [Next]_vars
               PROVE  IInv'
    OBVIOUS
  <2>1. CASE \E t \in Threads : RetainFreedName(t)
    BY <2>1, RestartKeeps DEF RetainFreedName
  <2> QED
    BY <2>1, ClockAndMutex, PropertyStepKeeps, RestartKeeps, StutterKeeps DEF Next
<1> QED
  BY <1>1, <1>2, PTL DEF Spec

\* Every variable has its type.
THEOREM DriverTypeCorrect == Spec => []TypeOK
<1>1. IInv => TypeOK
  BY DEF IInv, DriverInv
<1> QED
  BY <1>1, Inductive, PTL

\* gDevice_IOIsRunning counts the clients that started and did not stop.
THEOREM IOCountIsExact == Spec => []CountIsClients
<1>1. IInv => CountIsClients
  BY DEF IInv, ClockInv
<1> QED
  BY <1>1, Inductive, PTL

\* The stamps of all running clients lie on one line, whatever starts and stops.
THEOREM OneTimeLine == Spec => []StampsOnLine
<1>1. IInv => StampsOnLine
  BY DEF IInv, ClockInv
<1> QED
  BY <1>1, Inductive, PTL

\* A stamp is the line's latest when it is asked for.
THEOREM StampsAreCurrent == Spec => []StampsCurrent
<1>1. IInv => StampsCurrent
  BY DEF IInv, ClockInv
<1> QED
  BY <1>1, Inductive, PTL

\* No reference to the box's name is lost or kept.
THEOREM NameReferencesBalance == Spec => []NamesBalanced
<1>1. IInv => NamesBalanced
  BY DEF IInv, DriverInv
<1> QED
  BY <1>1, Inductive, PTL

\* The state mutex is held inside critical sections, and after the one early exit.
THEOREM MutexHeldInsideCalls == Spec => []HeldInsideCalls
<1>1. IInv => HeldInsideCalls
  BY DEF IInv, DriverInv
<1> QED
  BY <1>1, Inductive, PTL

-----------------------------------------------------------------------------
(* The host's view                                                         *)

\* An address the host was told of, or will be without anybody setting anything.
Told(a) ==
  \/ a \in stale
  \/ \E t \in Threads : call[t].step = "notifying" /\ a \in call[t].addresses
  \/ a \in Lists \cup {"Acquired"} /\ \E t \in Threads : call[t].step = "storing"
  \/ a = "DeviceList" /\ dispatched > 0

\* An address that a call is reading.
Reading(a) ==
  \E t \in Threads :
    \/ call[t].step = "sized" /\ call[t].list = a
    \/ call[t].step = "named" /\ a = "Name"
    \/ call[t].step = "refused" /\ a = "BoxDeviceList"

\* Outside the critical section that sets it, the acquisition is the stored one.
StorageSettles ==
  boxAcquired = (FALSE \notin stored) \/ \E t \in Threads : call[t].step = "storing"

\* What the host holds is what the driver holds, or a notice or a read of it is under way; a
\* read under way that began with an older size or name is followed by a notice.
SettleInv ==
  /\ \A a \in ViewAddresses : view[a] = Current(a) \/ Told(a) \/ Reading(a)
  /\ \A t \in Threads :
       call[t].step = "sized" /\ call[t].size # (IF boxAcquired THEN Word ELSE 0) => Told(call[t].list)
  /\ \A t \in Threads : call[t].step = "named" /\ call[t].string # name => Told("Name")
  /\ StorageSettles
  /\ view = [a \in ViewAddresses |-> view[a]]

-----------------------------------------------------------------------------
(* Calls that change no value                                              *)

\* A notice stays until somebody reads the address.
LEMMA NoticesStay ==
  ASSUME NEW t \in Threads, \A r \in Threads : r # t => call'[r] = call[r],
         call[t].step \notin {"notifying", "storing"},
         dispatched' = dispatched
  PROVE  \A a : Told(a) /\ (a \in stale => a \in stale') => Told(a)'
  BY DEF Told

\* So does a read, unless it is this call's.
LEMMA ReadsStay ==
  ASSUME NEW t \in Threads, \A r \in Threads : r # t => call'[r] = call[r],
         call[t].step \notin {"sized", "named", "refused"}
  PROVE  \A a : Reading(a) => Reading(a)'
  BY DEF Reading

\* The driver holds the same values.
SameValues ==
  /\ boxAcquired' = boxAcquired /\ stored' = stored
  /\ volume' = volume /\ mute' = mute /\ active' = active /\ name' = name

\* With the same values the replies are the same.
LEMMA SameCurrent ==
  ASSUME SameValues
  PROVE  \A a : Current(a)' = Current(a)
  BY DEF SameValues, Current, ValueAt

-----------------------------------------------------------------------------
(* Setting properties                                                      *)

\* A set tells of all the addresses whose value it changes: the controls and the name.
LEMMA ReportedSet ==
  ASSUME DriverInv, SettleInv, NEW t \in Threads, NEW told \in SUBSET ViewAddresses, NEW s,
         Begin(t), Enter(t, Notifying(told, s)),
         UNCHANGED <<boxAcquired, stored, dispatched, stale, view>>,
         \A a \in ViewAddresses \ told : Current(a)' = Current(a),
         name' = name \/ "Name" \in told
  PROVE  SettleInv'
<1>1. /\ call'[t] = Notifying(told, s) /\ \A r \in Threads : r # t => call'[r] = call[r]
  BY DEF Enter, DriverInv, TypeOK
<1>2. call[t].step = "idle" /\ call'[t].step = "notifying" /\ call'[t].addresses = told
  BY <1>1 DEF Begin, Idle, Notifying
<1>3. \A a : /\ Told(a) => Told(a)'
             /\ Reading(a) => Reading(a)'
             /\ a \in told => Told(a)'
  BY <1>1, <1>2, NoticesStay, ReadsStay DEF Told
<1>4. \A a \in ViewAddresses : (view[a] = Current(a))' \/ Told(a)' \/ Reading(a)'
  BY <1>3 DEF SettleInv
<1>5. \A r \in Threads :
        call'[r].step = "sized" /\ call'[r].size # (IF boxAcquired THEN Word ELSE 0) => Told(call[r].list)'
  BY <1>1, <1>2, <1>3 DEF SettleInv
<1> QED
  BY <1>1, <1>2, <1>3, <1>4, <1>5 DEF SettleInv, StorageSettles

\* A control is reported under every property that shows it.
LEMMA ControlSettles ==
  ASSUME DriverInv, SettleInv, NEW t \in Threads,
         SetScalarValue(t) \/ SetDecibelValue(t) \/ SetMute(t) \/ SetIsActive(t)
  PROVE  SettleInv'
<1>1. /\ {"ScalarValue", "DecibelValue"} \in SUBSET ViewAddresses
      /\ {"BooleanValue"} \in SUBSET ViewAddresses /\ {"IsActive"} \in SUBSET ViewAddresses
  BY DEF ViewAddresses, WordAddresses
<1>2. ASSUME NEW v, ChangeVolume(t, v)
      PROVE  SettleInv'
  <2>1. \A a \in ViewAddresses \ {"ScalarValue", "DecibelValue"} : Current(a)' = Current(a)
    BY <1>2 DEF ChangeVolume, Current, ValueAt, box, names
  <2> QED
    BY <1>1, <1>2, <2>1, ReportedSet DEF ChangeVolume, box, names
<1>3. CASE SetMute(t)
  <2>1. \A a \in ViewAddresses \ {"BooleanValue"} : Current(a)' = Current(a)
    BY <1>3 DEF SetMute, Current, ValueAt, box, names
  <2> QED
    BY <1>1, <1>3, <2>1, ReportedSet DEF SetMute, box, names
<1>4. CASE SetIsActive(t)
  <2>1. \A a \in ViewAddresses \ {"IsActive"} : Current(a)' = Current(a)
    BY <1>4 DEF SetIsActive, Current, ValueAt, box, names
  <2> QED
    BY <1>1, <1>4, <2>1, ReportedSet DEF SetIsActive, box, names
<1> QED
  BY <1>2, <1>3, <1>4 DEF SetScalarValue, SetDecibelValue

\* So is the name.
LEMMA SetNameSettles ==
  ASSUME DriverInv, SettleInv, NEW t \in Threads, NEW s \in Strings, SetName(t, s)
  PROVE  SettleInv'
<1>1. {"Name"} \in SUBSET ViewAddresses
  BY DEF ViewAddresses
<1>2. \A a \in ViewAddresses \ {"Name"} : Current(a)' = Current(a)
  BY DEF SetName, Current, ValueAt, ViewAddresses, WordAddresses, box, controls
<1> QED
  BY <1>1, <1>2, ReportedSet DEF SetName, box

\* From the change of the box to the notices of it the thread is storing it.
LEMMA SetAcquiredSettles ==
  ASSUME DriverInv, SettleInv, NEW t \in Threads, NEW v \in BOOLEAN, SetAcquired(t, v)
  PROVE  SettleInv'
<1>1. /\ call'[t] = [step |-> "storing"] /\ \A r \in Threads : r # t => call'[r] = call[r]
  BY DEF SetAcquired, Enter, DriverInv, TypeOK
<1>2. call[t].step = "idle" /\ call'[t].step = "storing"
  BY <1>1 DEF SetAcquired, Begin, Idle
<1>3. \A a : /\ Told(a) => Told(a)'
             /\ Reading(a) => Reading(a)'
             /\ a \in Lists \cup {"Acquired"} => Told(a)'
  BY <1>1, <1>2, NoticesStay, ReadsStay DEF Told, SetAcquired
<1>4. \A a \in ViewAddresses : a \notin Lists \cup {"Acquired"} => Current(a)' = Current(a)
  BY DEF SetAcquired, Current, ValueAt, controls, names
<1>5. \A a \in ViewAddresses : (view[a] = Current(a))' \/ Told(a)' \/ Reading(a)'
  BY <1>3, <1>4 DEF SettleInv, SetAcquired
<1>6. \A r \in Threads : call'[r].step = "sized" => Told(call[r].list)'
  BY <1>1, <1>2, <1>3 DEF DriverInv, TypeOK, Calls, Idle
<1> QED
  BY <1>1, <1>2, <1>3, <1>5, <1>6 DEF SettleInv, StorageSettles, SetAcquired, names

\* The notices of the box take over from the call that stored it.
LEMMA WriteToStorageSettles ==
  ASSUME DriverInv, SettleInv, NEW t \in Threads, WriteToStorage(t)
  PROVE  SettleInv'
<1>1. /\ call'[t] = Notifying({"Acquired", "BoxDeviceList"}, Default)
      /\ \A r \in Threads : r # t => call'[r] = call[r]
  BY DEF WriteToStorage, Enter, DriverInv, TypeOK
<1>2. /\ call[t].step = "storing" /\ call'[t].step = "notifying"
      /\ call'[t].addresses = {"Acquired", "BoxDeviceList"}
  BY <1>1 DEF WriteToStorage, Notifying
<1>3. dispatched' > 0 /\ (dispatched > 0 => dispatched' > 0) /\ stale' = stale
  BY DEF WriteToStorage, DriverInv, TypeOK
<1>4. \A a : Told(a) => Told(a)'
  BY <1>1, <1>2, <1>3 DEF Told, Lists
<1>5. \A a : Reading(a) => Reading(a)'
  BY <1>1, <1>2, ReadsStay
<1>7. \A a : Current(a)' = Current(a)
  BY DEF WriteToStorage, Current, ValueAt, controls, names
<1>8. StorageSettles'
  BY DEF WriteToStorage, DriverInv, TypeOK, StorageSettles
<1>9. view' = view /\ boxAcquired' = boxAcquired /\ name' = name
  BY DEF WriteToStorage, names
<1>10. \A r \in Threads :
        call'[r].step = "sized" /\ call'[r].size # (IF boxAcquired THEN Word ELSE 0) => Told(call[r].list)'
  BY <1>1, <1>2, <1>4 DEF SettleInv
<1> QED
  BY <1>1, <1>2, <1>4, <1>5, <1>7, <1>8, <1>9, <1>10 DEF SettleInv

-----------------------------------------------------------------------------
(* Notices                                                                 *)

\* Telling the host moves the addresses from the call to the host.
LEMMA PropertiesChangedSettles ==
  ASSUME DriverInv, SettleInv, NEW t \in Threads, PropertiesChanged(t)
  PROVE  SettleInv'
<1>1. call'[t] = Idle /\ \A r \in Threads : r # t => call'[r] = call[r]
  BY DEF PropertiesChanged, Enter, DriverInv, TypeOK
<1>2. call[t].step = "notifying" /\ call'[t].step = "idle"
  BY <1>1 DEF PropertiesChanged, Idle
<1>3. \A a : Told(a) => Told(a)'
  BY <1>1, <1>2 DEF Told, PropertiesChanged, box
<1>4. \A a : Reading(a) => Reading(a)'
  BY <1>1, <1>2, ReadsStay
<1>5. /\ view' = view /\ boxAcquired' = boxAcquired /\ stored' = stored /\ name' = name
      /\ \A a : Current(a)' = Current(a)
  BY DEF PropertiesChanged, Current, ValueAt, controls, box
<1>6. \A r \in Threads :
        call'[r].step = "sized" /\ call'[r].size # (IF boxAcquired THEN Word ELSE 0) => Told(call[r].list)'
  BY <1>1, <1>2, <1>3 DEF SettleInv
<1> QED
  BY <1>1, <1>2, <1>3, <1>4, <1>5, <1>6 DEF SettleInv, StorageSettles

\* So does the late notice of the plug-in's list.
LEMMA DeviceListChangedSettles ==
  ASSUME DriverInv, SettleInv, DeviceListChanged
  PROVE  SettleInv'
<1>1. /\ call' = call /\ view' = view /\ boxAcquired' = boxAcquired /\ stored' = stored
      /\ name' = name /\ \A a : Current(a)' = Current(a)
  BY DEF DeviceListChanged, Current, ValueAt, controls, names
<1>2. \A a : (Told(a) => Told(a)') /\ (Reading(a) => Reading(a)')
  BY <1>1 DEF Told, Reading, DeviceListChanged
<1> QED
  BY <1>1, <1>2 DEF SettleInv, StorageSettles

-----------------------------------------------------------------------------
(* Reading properties                                                      *)

\* A read of one step answers the notice with the current value.
LEMMA GetWordSettles ==
  ASSUME DriverInv, SettleInv, NEW t \in Threads, NEW a \in WordAddresses, GetWord(t, a)
  PROVE  SettleInv'
<1>1. /\ call' = call /\ stale' = stale \ {a} /\ dispatched' = dispatched
      /\ boxAcquired' = boxAcquired /\ stored' = stored /\ name' = name
      /\ view' = [view EXCEPT ![a] = Current(a)] /\ SameValues
  BY DEF GetWord, box, controls, names, SameValues
<1>2. a \in ViewAddresses /\ a \notin Lists /\ a # "Name"
  BY DEF ViewAddresses, WordAddresses, Lists
<1>3. \A b : /\ b # a /\ Told(b) => Told(b)'
             /\ Reading(b) => Reading(b)'
  BY <1>1 DEF Told, Reading
<1>4. \A b : Current(b)' = Current(b)
  BY <1>1, SameCurrent
<1>5. /\ view' = [b \in ViewAddresses |-> view'[b]]
      /\ \A b \in ViewAddresses : view'[b] = IF b = a THEN Current(a) ELSE view[b]
  BY <1>1, <1>2 DEF SettleInv
<1>6. \A b \in ViewAddresses : (view[b] = Current(b))' \/ Told(b)' \/ Reading(b)'
  BY <1>3, <1>4, <1>5 DEF SettleInv
<1>7. \A r \in Threads :
        call'[r].step = "sized" /\ call'[r].size # (IF boxAcquired THEN Word ELSE 0) => Told(call[r].list)'
  <2>1. \A r \in Threads : call[r].step = "sized" => call[r].list \in Lists
    BY DEF DriverInv, TypeOK, Calls, Idle
  <2> QED
    BY <1>1, <1>2, <1>3, <2>1 DEF SettleInv
<1>8. \A r \in Threads : call'[r].step = "named" /\ call'[r].string # name' => Told("Name")'
  BY <1>1, <1>2, <1>3 DEF SettleInv
<1>9. StorageSettles'
  BY <1>1 DEF SettleInv, StorageSettles
<1> QED
  BY <1>1, <1>5, <1>6, <1>7, <1>8, <1>9 DEF SettleInv

\* The notice of a list is answered by the read that begins here.
LEMMA GetListSizeSettles ==
  ASSUME DriverInv, SettleInv, NEW t \in Threads, NEW a \in Lists, GetListSize(t, a)
  PROVE  SettleInv'
<1> DEFINE n == IF boxAcquired THEN Word ELSE 0
<1>1. /\ call'[t] = [step |-> "sized", list |-> a, size |-> n]
      /\ \A r \in Threads : r # t => call'[r] = call[r]
  BY ListSizeIs DEF GetListSize, Enter, DriverInv, TypeOK
<1>2. /\ call[t].step = "idle" /\ call'[t].step = "sized" /\ call'[t].list = a /\ call'[t].size = n
  BY <1>1 DEF GetListSize, Idle
<1>3. /\ stale' = stale \ {a} /\ dispatched' = dispatched
      /\ boxAcquired' = boxAcquired /\ stored' = stored /\ name' = name /\ view' = view
      /\ SameValues
  BY DEF GetListSize, box, controls, names, SameValues
<1>4. \A b : b # a /\ Told(b) => Told(b)'
  BY <1>1, <1>2, <1>3, NoticesStay
<1>5. Reading(a)' /\ \A b : Reading(b) => Reading(b)'
  BY <1>1, <1>2, ReadsStay DEF Reading
<1>6. \A b : Current(b)' = Current(b)
  BY <1>3, SameCurrent
<1>7. \A b \in ViewAddresses : (view[b] = Current(b))' \/ Told(b)' \/ Reading(b)'
  BY <1>3, <1>4, <1>5, <1>6 DEF SettleInv
<1>8. \A r \in Threads : r # t /\ call[r].step = "sized" => call[r].list # a
  BY DEF GetListSize
<1>9. \A r \in Threads :
        call'[r].step = "sized" /\ call'[r].size # (IF boxAcquired' THEN Word ELSE 0) => Told(call[r].list)'
  BY <1>1, <1>2, <1>3, <1>4, <1>8 DEF SettleInv
<1>10. \A r \in Threads : call'[r].step = "named" /\ call'[r].string # name' => Told("Name")'
  BY <1>1, <1>2, <1>3, <1>4 DEF SettleInv, Lists
<1>11. StorageSettles'
  BY <1>1, <1>2, <1>3 DEF SettleInv, StorageSettles
<1> QED
  BY <1>3, <1>7, <1>9, <1>10, <1>11 DEF SettleInv

\* The device is in the list, if there is room for it and the box is acquired.
LEMMA DeviceListIs ==
  ASSUME NEW n \in {0, Word}, boxAcquired \in BOOLEAN
  PROVE  GetPlugInPropertyData(Address("DeviceList", "Global", "other"), n, boxAcquired).objects # <<>>
           <=> n = Word /\ boxAcquired
<1> DEFINE count == IF boxAcquired THEN 1 ELSE 0
           a == Address("DeviceList", "Global", "other")
<1>1. GetPlugInPropertyData(a, n, boxAcquired) = ObjectList(n, Device, count)
  <2>1. a.selector = "DeviceList"
    BY DEF Address
  <2> QED
    BY <2>1 DEF GetPlugInPropertyData, PlugInLists
<1>2. Fitting(n, count) = IF n = Word /\ boxAcquired THEN 1 ELSE 0
  BY DEF Fitting, Word
<1>3. ObjectList(n, Device, count).objects = [i \in 1 .. Fitting(n, count) |-> Device + i - 1]
  BY DEF ObjectList, Reply
<1>4. CASE n = Word /\ boxAcquired
  <2>1. 1 \in DOMAIN ObjectList(n, Device, count).objects
    BY <1>2, <1>3, <1>4
  <2>2. 1 \notin DOMAIN <<>>
    OBVIOUS
  <2> QED
    BY <1>1, <1>4, <2>1, <2>2
<1>5. CASE ~ (n = Word /\ boxAcquired)
  <2>1. ObjectList(n, Device, count).objects = <<>>
    BY <1>2, <1>3, <1>5
  <2> QED
    BY <1>1, <1>5, <2>1
<1> QED
  BY <1>4, <1>5

\* A list that was read with the size it had is the box's; with an older size a notice of it
\* is still to come.
LEMMA ListRead ==
  ASSUME DriverInv, SettleInv, NEW t \in Threads, NEW a \in Lists,
         call[t].step = "sized", call[t].list = a, call'[t].step \in {"idle", "refused"},
         \A r \in Threads : r # t => call'[r] = call[r],
         UNCHANGED <<stale, dispatched>>, SameValues,
         view' = [view EXCEPT ![a] = view'[a]],
         \/ view'[a] = boxAcquired
         \/ call[t].size # IF boxAcquired THEN Word ELSE 0
         \/ call'[t].step = "refused" /\ a = "BoxDeviceList"
  PROVE  SettleInv'
<1>1. \A b : /\ Told(b) => Told(b)'
             /\ b # a /\ Reading(b) => Reading(b)'
             /\ Current(b)' = Current(b)
  BY NoticesStay, SameCurrent DEF Reading
<1>2. a \in ViewAddresses /\ Current(a) = boxAcquired
  BY DEF ViewAddresses, Current, ValueAt, Lists
<1>3. /\ view' = [b \in ViewAddresses |-> view'[b]]
      /\ \A b \in ViewAddresses : b # a => view'[b] = view[b]
  BY <1>2 DEF SettleInv
<1>4. \A b \in ViewAddresses : b # a => (view[b] = Current(b))' \/ Told(b)' \/ Reading(b)'
  BY <1>1, <1>3 DEF SettleInv
<1>5. (view[a] = Current(a))' \/ Told(a)' \/ Reading(a)'
  <2>1. CASE view'[a] = boxAcquired
    BY <1>1, <1>2, <2>1
  <2>2. CASE call[t].size # IF boxAcquired THEN Word ELSE 0
    BY <1>1, <2>2 DEF SettleInv
  <2>3. CASE call'[t].step = "refused" /\ a = "BoxDeviceList"
    BY <2>3 DEF Reading
  <2> QED
    BY <2>1, <2>2, <2>3
<1>6. \A r \in Threads :
        call'[r].step = "sized" /\ call'[r].size # (IF boxAcquired' THEN Word ELSE 0) => Told(call[r].list)'
  BY <1>1 DEF SettleInv, SameValues
<1>7. \A r \in Threads : call'[r].step = "named" /\ call'[r].string # name' => Told("Name")'
  BY <1>1 DEF SettleInv, SameValues
<1>8. StorageSettles'
  BY DEF SettleInv, StorageSettles, SameValues
<1> QED
  BY <1>3, <1>4, <1>5, <1>6, <1>7, <1>8 DEF SettleInv

\* The plug-in's list, read without the mutex.
LEMMA GetDeviceListSettles ==
  ASSUME DriverInv, SettleInv, NEW t \in Threads, GetDeviceList(t)
  PROVE  SettleInv'
<1>1. /\ call[t].step = "sized" /\ call[t].list = "DeviceList" /\ call[t].size \in {0, Word}
      /\ boxAcquired \in BOOLEAN
  BY DEF GetDeviceList, DriverInv, TypeOK, Calls, Idle
<1>2. /\ call'[t] = Idle /\ call'[t].step = "idle" /\ \A r \in Threads : r # t => call'[r] = call[r]
  BY DEF GetDeviceList, Enter, DriverInv, TypeOK, Idle
<1> DEFINE objects == GetPlugInPropertyData(Address("DeviceList", "Global", "other"),
                                            call[t].size, boxAcquired).objects
<1>3. view' = [view EXCEPT !["DeviceList"] = objects # <<>>]
  BY DEF GetDeviceList
<1>4. (objects # <<>>) <=> call[t].size = Word /\ boxAcquired
  BY <1>1, DeviceListIs
<1> HIDE DEF objects
<1>5. "DeviceList" \in Lists /\ "DeviceList" \in DOMAIN view
  BY DEF Lists, ViewAddresses, DriverInv, TypeOK
<1>6. view'["DeviceList"] = (objects # <<>>)
  BY <1>3, <1>5
<1>7. view' = [view EXCEPT !["DeviceList"] = view'["DeviceList"]]
  BY <1>3, <1>6
<1>8. \/ view'["DeviceList"] = boxAcquired
      \/ call[t].size # IF boxAcquired THEN Word ELSE 0
  <2>1. CASE call[t].size = Word /\ boxAcquired
    BY <1>1, <1>4, <1>6, <2>1
  <2>2. CASE ~ boxAcquired
    BY <1>1, <1>4, <1>6, <2>2
  <2>3. CASE boxAcquired /\ call[t].size # Word
    BY <2>3
  <2> QED
    BY <1>1, <2>1, <2>2, <2>3
<1>9. UNCHANGED <<stale, dispatched>> /\ SameValues
  BY DEF GetDeviceList, box, controls, names, SameValues
<1> QED
  BY <1>1, <1>2, <1>5, <1>7, <1>8, <1>9, ListRead

\* A read that was refused is never over.
LEMMA GetBoxDeviceListSettles ==
  ASSUME DriverInv, SettleInv, NEW t \in Threads, GetBoxDeviceList(t)
  PROVE  SettleInv'
<1> DEFINE reply == BoxDeviceList(call[t].size, boxAcquired)
<1>1. /\ call[t].step = "sized" /\ call[t].list = "BoxDeviceList" /\ call[t].size \in {0, Word}
      /\ boxAcquired \in BOOLEAN
  BY DEF GetBoxDeviceList, DriverInv, TypeOK, Calls, Idle
<1>2. \A r \in Threads : r # t => call'[r] = call[r]
  BY DEF GetBoxDeviceList, Enter, DriverInv, TypeOK
<1>3. UNCHANGED <<stale, dispatched>> /\ SameValues
  BY DEF GetBoxDeviceList, box, controls, names, SameValues
<1>4. "BoxDeviceList" \in Lists /\ "BoxDeviceList" \in DOMAIN view
  BY DEF Lists, ViewAddresses, DriverInv, TypeOK
<1>5. CASE reply.status = "ok"
  <2>1. call'[t] = Idle /\ call'[t].step = "idle"
    BY <1>5 DEF GetBoxDeviceList, Enter, DriverInv, TypeOK, Idle
  <2>2. view' = [view EXCEPT !["BoxDeviceList"] = reply.objects # <<>>]
    BY <1>5 DEF GetBoxDeviceList
  <2>3. (reply.objects # <<>>) = boxAcquired
    <3>1. CASE boxAcquired
      <4>1. reply.objects = <<Device>>
        BY <1>5, <3>1 DEF BoxDeviceList, ObjectValue, Reply, Refused
      <4>2. <<Device>> # <<>>
        OBVIOUS
      <4> QED
        BY <1>1, <3>1, <4>1, <4>2
    <3>2. CASE ~ boxAcquired
      <4>1. reply.objects = <<>>
        BY <3>2 DEF BoxDeviceList, Reply
      <4> QED
        BY <1>1, <3>2, <4>1
    <3> QED
      BY <3>1, <3>2
  <2> HIDE DEF reply
  <2>4. view'["BoxDeviceList"] = boxAcquired
    BY <1>4, <2>2, <2>3
  <2>5. view' = [view EXCEPT !["BoxDeviceList"] = view'["BoxDeviceList"]]
    BY <2>2, <2>3, <2>4
  <2> QED
    BY <1>1, <1>2, <1>3, <1>4, <2>1, <2>4, <2>5, ListRead
<1>6. CASE reply.status # "ok"
  <2>1. call'[t].step = "refused"
    BY <1>6 DEF GetBoxDeviceList, Enter, DriverInv, TypeOK
  <2>2. view' = [view EXCEPT !["BoxDeviceList"] = view["BoxDeviceList"]]
    BY <1>6 DEF GetBoxDeviceList
  <2>3. view' = [view EXCEPT !["BoxDeviceList"] = view'["BoxDeviceList"]]
    BY <1>4, <2>2
  <2> QED
    BY <1>1, <1>2, <1>3, <1>4, <2>1, <2>3, ListRead
<1> QED
  BY <1>5, <1>6

\* The notice of the name is answered by the read that begins here.
LEMMA GetNameSettles ==
  ASSUME DriverInv, SettleInv, NEW t \in Threads, GetName(t)
  PROVE  SettleInv'
<1>1. /\ call'[t] = [step |-> "named", string |-> name]
      /\ \A r \in Threads : r # t => call'[r] = call[r]
  BY DEF GetName, Enter, DriverInv, TypeOK
<1>2. /\ call[t].step = "idle" /\ call'[t].step = "named" /\ call'[t].string = name
  BY <1>1 DEF GetName, Begin, Idle
<1>3. /\ stale' = stale \ {"Name"} /\ dispatched' = dispatched /\ view' = view /\ name' = name
      /\ boxAcquired' = boxAcquired /\ SameValues
  BY DEF GetName, box, controls, names, SameValues
<1>4. \A b : b # "Name" /\ Told(b) => Told(b)'
  BY <1>1, <1>2, <1>3, NoticesStay
<1>5. Reading("Name")' /\ \A b : Reading(b) => Reading(b)'
  BY <1>1, <1>2, ReadsStay DEF Reading
<1>6. \A b : Current(b)' = Current(b)
  BY <1>3, SameCurrent
<1>7. \A b \in ViewAddresses : (view[b] = Current(b))' \/ Told(b)' \/ Reading(b)'
  BY <1>3, <1>4, <1>5, <1>6 DEF SettleInv
<1>8. \A r \in Threads :
        call'[r].step = "sized" /\ call'[r].size # (IF boxAcquired' THEN Word ELSE 0) => Told(call[r].list)'
  <2>1. \A r \in Threads : call[r].step = "sized" => call[r].list \in Lists
    BY DEF DriverInv, TypeOK, Calls, Idle
  <2> QED
    BY <1>1, <1>2, <1>3, <1>4, <2>1 DEF SettleInv, Lists
<1>9. \A r \in Threads : call'[r].step = "named" /\ call'[r].string # name' => Told("Name")'
  BY <1>1, <1>2, <1>3 DEF GetName
<1>10. StorageSettles'
  BY <1>1, <1>2, <1>3 DEF SettleInv, StorageSettles, SameValues
<1> QED
  BY <1>3, <1>7, <1>8, <1>9, <1>10 DEF SettleInv

\* A name that was replaced since it was read is followed by a notice.
LEMMA RetainNameSettles ==
  ASSUME DriverInv, SettleInv, NEW t \in Threads, RetainName(t)
  PROVE  SettleInv'
<1> DEFINE s == call[t].string
<1>1. call'[t] = Idle /\ \A r \in Threads : r # t => call'[r] = call[r]
  BY DEF RetainName, Enter, DriverInv, TypeOK
<1>2. call[t].step = "named" /\ call'[t].step = "idle"
  BY <1>1 DEF RetainName, Idle
<1>3. /\ stale' = stale /\ dispatched' = dispatched /\ name' = name
      /\ boxAcquired' = boxAcquired /\ SameValues /\ view' = [view EXCEPT !["Name"] = s]
  BY DEF RetainName, box, controls, SameValues
<1>4. \A b : /\ Told(b) => Told(b)'
             /\ b # "Name" /\ Reading(b) => Reading(b)'
             /\ Current(b)' = Current(b)
  BY <1>1, <1>2, <1>3, NoticesStay, SameCurrent DEF Reading
<1>5. "Name" \in ViewAddresses /\ Current("Name") = name
  BY DEF ViewAddresses, Current, ValueAt, Lists
<1>6. /\ view' = [b \in ViewAddresses |-> view'[b]] /\ view'["Name"] = s
      /\ \A b \in ViewAddresses : b # "Name" => view'[b] = view[b]
  BY <1>3, <1>5 DEF SettleInv
<1>7. \A b \in ViewAddresses : b # "Name" => (view[b] = Current(b))' \/ Told(b)' \/ Reading(b)'
  BY <1>4, <1>6 DEF SettleInv
<1>8. (view["Name"] = Current("Name"))' \/ Told("Name")'
  <2>1. CASE s = name
    BY <1>4, <1>5, <1>6, <2>1
  <2>2. CASE s # name
    BY <1>2, <1>4, <2>2 DEF SettleInv
  <2> QED
    BY <2>1, <2>2
<1>9. \A r \in Threads :
        call'[r].step = "sized" /\ call'[r].size # (IF boxAcquired' THEN Word ELSE 0) => Told(call[r].list)'
  BY <1>1, <1>2, <1>3, <1>4 DEF SettleInv
<1>10. \A r \in Threads : call'[r].step = "named" /\ call'[r].string # name' => Told("Name")'
  BY <1>1, <1>2, <1>3, <1>4 DEF SettleInv
<1>11. StorageSettles'
  BY <1>1, <1>2, <1>3 DEF SettleInv, StorageSettles, SameValues
<1> QED
  BY <1>6, <1>7, <1>8, <1>9, <1>10, <1>11 DEF SettleInv

-----------------------------------------------------------------------------
(* Loading, restarting and the clock                                       *)

\* A scan of all objects finds what the driver holds.
LEMMA InitialSettles ==
  ASSUME Init
  PROVE  SettleInv
<1>1. \A a : Current(a) = ValueAt(a, TRUE, 0, FALSE, TRUE, Default)
  BY DEF Init, Current
<1>2. view = [a \in ViewAddresses |-> ValueAt(a, TRUE, 0, FALSE, TRUE, Default)]
  BY DEF Init, Scan
<1>3. \A t \in Threads : call[t].step = "idle"
  BY DEF Init, Idle
<1>4. StorageSettles
  BY DEF Init, StorageSettles
<1> QED
  BY <1>1, <1>2, <1>3, <1>4 DEF SettleInv

\* After a restart, too.
LEMMA RestartSettles ==
  ASSUME Restart
  PROVE  SettleInv'
<1>1. \A a : Current(a)' = ValueAt(a, boxAcquired', 0, FALSE, TRUE, Default)
  BY DEF Restart, Initialize, Current
<1>2. view' = [a \in ViewAddresses |-> ValueAt(a, boxAcquired', 0, FALSE, TRUE, Default)]
  BY DEF Restart, Initialize, Scan
<1>3. \A t \in Threads : call'[t].step = "idle"
  BY DEF Restart, Idle
<1>4. StorageSettles'
  BY DEF Restart, Initialize, StorageSettles
<1> QED
  BY <1>1, <1>2, <1>3, <1>4 DEF SettleInv

\* A step of the clock, or none.
LEMMA HostUnchanged ==
  ASSUME SettleInv, UNCHANGED <<box, controls, names, host>>
  PROVE  SettleInv'
<1>1. /\ UNCHANGED <<stale, view, call, dispatched, boxAcquired, stored, name>> /\ SameValues
  BY DEF box, controls, names, host, SameValues
<1>2. \A a : Told(a)' = Told(a) /\ Reading(a)' = Reading(a) /\ Current(a)' = Current(a)
  BY <1>1, SameCurrent DEF Told, Reading
<1>3. StorageSettles'
  BY <1>1 DEF SettleInv, StorageSettles
<1> QED
  BY <1>1, <1>2, <1>3 DEF SettleInv

-----------------------------------------------------------------------------
(* The theorem                                                             *)

\* Every step keeps the host's view in order.
LEMMA StepSettles ==
  ASSUME IInv, SettleInv, [Next]_vars
  PROVE  SettleInv'
<1> USE DEF IInv
<1>1. CASE ClockStep \/ UNCHANGED vars
  BY <1>1, HostUnchanged DEF ClockStep, vars
<1>2. CASE Restart \/ \E t \in Threads : RetainFreedName(t)
  BY <1>2, RestartSettles DEF RetainFreedName
<1>3. CASE PropertyStep
  <2>1. CASE DeviceListChanged
    BY <2>1, DeviceListChangedSettles
  <2>2. CASE \E t \in Threads : SetStep(t)
    <3>1. PICK t \in Threads : SetStep(t)
      BY <2>2
    <3> QED
      BY <3>1, SetAcquiredSettles, WriteToStorageSettles, ControlSettles, SetNameSettles,
         PropertiesChangedSettles DEF SetStep
  <2>3. CASE \E t \in Threads : GetStep(t)
    <3>1. PICK t \in Threads : GetStep(t)
      BY <2>3
    <3> QED
      BY <3>1, GetWordSettles, GetListSizeSettles, GetDeviceListSettles,
         GetBoxDeviceListSettles, GetNameSettles, RetainNameSettles DEF GetStep
  <2> QED
    BY <1>3, <2>1, <2>2, <2>3 DEF PropertyStep
<1> QED
  BY <1>1, <1>2, <1>3 DEF Next

\* With no notice, read or set under way only equality is left.
LEMMA SettledAgrees ==
  ASSUME SettleInv
  PROVE  HostViewSettles
<1> SUFFICES ASSUME Settled
             PROVE  /\ view = Scan(boxAcquired, volume, mute, active, name)
                    /\ boxAcquired = (FALSE \notin stored)
  BY DEF HostViewSettles
<1>1. \A t \in Threads : call[t].step = "idle"
  BY DEF Settled, Idle
<1>2. stale = {} /\ ~ (dispatched > 0)
  BY DEF Settled
<1>3. \A a \in ViewAddresses : ~ Told(a) /\ ~ Reading(a)
  BY <1>1, <1>2 DEF Told, Reading
<1>4. \A a \in ViewAddresses : view[a] = Current(a)
  BY <1>3 DEF SettleInv
<1>5. view = [a \in ViewAddresses |-> Current(a)]
  BY <1>4 DEF SettleInv
<1>6. view = Scan(boxAcquired, volume, mute, active, name)
  BY <1>5 DEF Scan, Current
<1>7. boxAcquired = (FALSE \notin stored)
  BY <1>1 DEF SettleInv, StorageSettles
<1> QED
  BY <1>6, <1>7

\* When all is answered the host holds what the driver holds, and the storage the acquisition.
THEOREM HostNeverKeepsOldValues == Spec => []HostViewSettles
<1>1. Init => SettleInv
  BY InitialSettles
<1>2. IInv /\ SettleInv /\ [Next]_vars => SettleInv'
  BY StepSettles
<1>3. SettleInv => HostViewSettles
  BY SettledAgrees
<1> QED
  BY <1>1, <1>2, <1>3, Inductive, PTL DEF Spec

-----------------------------------------------------------------------------
(* The switch families: replies stay inside the buffer                     *)

\* A reply that tells its length stays inside the caller's buffer of n bytes.
Fits(reply, n) == reply.status # "ok" \/ reply.size <= n

LEMMA ReplyKinds ==
  ASSUME NEW n \in Nat
  PROVE  /\ \A why : why # "ok" => Fits(Refused(why), n)
         /\ \A objects : Fits(Reply(0, objects), n) /\ Fits(Reply(Unset, objects), n)
         /\ \A size \in Nat : Fits(Value(n, size), n) /\ Fits(ItemList(n, size), n)
         /\ \A o : Fits(ObjectValue(n, o), n)
         /\ \A count \in Nat : /\ Fitting(n, count) \in Nat
                               /\ Word * Fitting(n, count) <= n
                               /\ \A objects : Fits(Reply(Word * Fitting(n, count), objects), n)
                               /\ \A first : Fits(ObjectList(n, first, count), n)
<1> USE DEF Word
<1>1. ASSUME NEW size \in Int, NEW objects
      PROVE  /\ Reply(size, objects).status = "ok"
             /\ Reply(size, objects).size = size
  BY DEF Reply
<1>2. ASSUME NEW why, why # "ok"
      PROVE  Fits(Refused(why), n)
  BY <1>2 DEF Refused, Fits
<1>3. ASSUME NEW size \in Int, size <= n, NEW objects
      PROVE  Fits(Reply(size, objects), n)
  BY <1>1, <1>3 DEF Fits
<1>4. \A size \in Nat : Fits(Value(n, size), n) /\ Fits(ItemList(n, size), n)
  BY <1>2, <1>3 DEF Value, ItemList
<1>5. \A o : Fits(ObjectValue(n, o), n)
  BY <1>2, <1>3 DEF ObjectValue
<1>6. ASSUME NEW count \in Nat
      PROVE  /\ Fitting(n, count) \in Nat
             /\ Word * Fitting(n, count) <= n
             /\ \A objects : Fits(Reply(Word * Fitting(n, count), objects), n)
             /\ \A first : Fits(ObjectList(n, first, count), n)
  <2>1. n \div 4 \in Nat /\ 4 * (n \div 4) <= n
    OBVIOUS
  <2>2. Fitting(n, count) \in Nat /\ 4 * Fitting(n, count) <= n
    BY <2>1 DEF Fitting
  <2> QED
    BY <1>3, <2>2 DEF ObjectList
<1> QED
  BY <1>2, <1>3, <1>4, <1>5, <1>6 DEF Unset

LEMMA PlugInFits ==
  ASSUME NEW a, NEW n \in Nat, NEW acquired \in BOOLEAN, a.selector # "ResourceBundle"
  PROVE  Fits(GetPlugInPropertyData(a, n, acquired), n)
<1>1. Fits(PlugInOwnedObjects(n, acquired), n)
  BY ReplyKinds DEF PlugInOwnedObjects
<1>2. Fits(PlugInLists(a, n, acquired), n)
  BY ReplyKinds DEF PlugInLists
<1> QED
  BY <1>1, <1>2, ReplyKinds DEF GetPlugInPropertyData, Word, Pointer, CustomInfo

LEMMA BoxFits ==
  ASSUME NEW s, NEW n \in Nat, NEW acquired \in BOOLEAN
  PROVE  Fits(GetBoxPropertyData(s, n, acquired), n)
  BY ReplyKinds DEF GetBoxPropertyData, BoxDeviceList, Word, Pointer

LEMMA DeviceFits ==
  ASSUME NEW a, NEW n \in Nat
  PROVE  Fits(GetDevicePropertyData(a, n), n)
<1> USE ReplyKinds DEF Word, Pointer, ValueRange, ChannelLayout
<1>1. \A s : Fits(DeviceDescription(s, n), n)
  BY DEF DeviceDescription
<1>2. \A s : Fits(DeviceIdentity(s, n), n) /\ Fits(DeviceRates(s, n), n)
  BY DEF DeviceIdentity, DeviceRates
<1>3. \A s : Fits(DevicePresentation(s, n), n)
  BY DEF DevicePresentation
<1>6. Fits(DeviceIcon(n), n)
  <2>1. Fits(Refused("unspecified"), n) /\ Fits(Value(n, Pointer), n)
    OBVIOUS
  <2>2. DeviceIcon(n) = Refused("unspecified") \/ DeviceIcon(n) = Value(n, Pointer)
    BY DEF DeviceIcon, Value
  <2> QED BY <2>1, <2>2
<1>4. \A scope : Fits(DeviceOwnedObjects(scope, n), n) /\ Fits(DeviceStreams(scope, n), n)
  BY DEF DeviceOwnedObjects, DeviceStreams
<1>5. Fits(DeviceControls(n), n) /\ Fits(DeviceActivity(n), n)
  BY DEF DeviceControls, DeviceActivity
<1> QED
  BY <1>1, <1>2, <1>3, <1>4, <1>5, <1>6 DEF GetDevicePropertyData

LEMMA StreamFits ==
  ASSUME NEW s, NEW n \in Nat
  PROVE  Fits(GetStreamPropertyData(s, n), n)
  BY ReplyKinds DEF GetStreamPropertyData, Word, Pointer, StreamFormat, RangedFormat

LEMMA ControlFits ==
  ASSUME NEW o, NEW s, NEW n \in Nat
  PROVE  Fits(GetControlPropertyData(o, s, n), n)
<1> USE ReplyKinds DEF Word, Pointer, ValueRange, DataSourceItems
<1>1. Fits(ControlData(s, n), n)
  BY DEF ControlData
<1>2. Fits(VolumeData(s, n), n) /\ Fits(MuteData(s, n), n)
  BY <1>1 DEF VolumeData, MuteData
<1>3. Fits(DataSourceData(s, n), n)
  BY <1>1 DEF DataSourceData
<1> QED
  BY <1>2, <1>3 DEF GetControlPropertyData

\* Whatever the address and however long the caller's buffer, GetPropertyData writes no more
\* than it holds; the one reply that does is left out by name.
THEOREM RepliesNeverOverrun ==
  ASSUME NEW o, NEW a, NEW n \in Nat, NEW acquired \in BOOLEAN,
         <<o, a.selector>> \notin WritesTooMuch
  PROVE  Fits(GetPropertyData(o, a, n, acquired), n)
<1>1. o = PlugIn => a.selector # "ResourceBundle"
  BY DEF WritesTooMuch
<1> QED
  BY <1>1, PlugInFits, BoxFits, DeviceFits, StreamFits, ControlFits, ReplyKinds DEF GetPropertyData

-----------------------------------------------------------------------------
(* The switch families: what one says the others say                       *)

LEMMA SettableIs ==
  ASSUME NEW s, NEW no, NEW yes, no \cap yes = {}
  PROVE  /\ Settable(s, no, yes) = "yes" <=> s \in yes
         /\ Settable(s, no, yes) = "unknown" <=> s \notin no \cup yes
  BY DEF Settable

\* A buffer of the reported size is filled.
LEMMA FullReplies ==
  /\ \A n \in Nat : Fills(Value(n, n), n) /\ Fills(ItemList(n, n), n)
  /\ Fills(Value(Word, Word), Word)
  /\ \A o : Fills(ObjectValue(Word, o), Word)
  /\ \A n \in Nat : \A objects : Fills(Reply(n, objects), n)
  /\ \A first : /\ Fills(ObjectList(0, first, 0), 0)
                /\ Fills(ObjectList(Word, first, 1), Word)
                /\ Fills(ObjectList(2 * Word, first, 2), 2 * Word)
                /\ Fills(ObjectList(3 * Word, first, 3), 3 * Word)
  /\ \A count \in Nat : Fitting(Word * count, count) = count
<1> USE DEF Word
<1>3. ASSUME NEW n \in Int, NEW objects
      PROVE Fills(Reply(n, objects), n)
  BY DEF Reply, Fills
<1>1. \A n \in Nat : Fills(Value(n, n), n) /\ Fills(ItemList(n, n), n)
  BY <1>3 DEF Value, ItemList
<1>2. \A o : Fills(ObjectValue(Word, o), Word)
  BY <1>3 DEF ObjectValue
<1>5. \A count \in Nat : Fitting(Word * count, count) = count
  BY DEF Fitting
<1>6. ASSUME NEW first, NEW count \in Nat
      PROVE Fills(ObjectList(4 * count, first, count), 4 * count)
   BY <1>3, <1>5 DEF ObjectList
<1>7. \A first : /\ Fills(ObjectList(0, first, 0), 0)
                /\ Fills(ObjectList(Word, first, 1), Word)
                /\ Fills(ObjectList(2 * Word, first, 2), 2 * Word)
                /\ Fills(ObjectList(3 * Word, first, 3), 3 * Word)
  <2>1. \A first : Fills(ObjectList(4 * 0, first, 0), 4 * 0) /\ Fills(ObjectList(4 * 1, first,
        1), 4 * 1) /\ Fills(ObjectList(4 * 2, first, 2), 4 * 2) /\ Fills(ObjectList(4 * 3,
        first, 3), 4 * 3)
    BY <1>6
  <2> QED BY <2>1
<1> QED BY <1>1, <1>2, <1>3, <1>5, <1>7

LEMMA PlugInAgrees ==
  ASSUME NEW a, NEW acquired \in BOOLEAN
  PROVE  LET size == GetPlugInPropertyDataSize(a.selector, acquired)
         IN  Consistent(HasPlugInProperty(a), IsPlugInPropertySettable(a.selector), size,
                        GetPlugInPropertyData(a, size, acquired),
                        SetPlugInPropertyData(a.selector, size))
<1> DEFINE size == GetPlugInPropertyDataSize(a.selector, acquired)
           reply == GetPlugInPropertyData(a, size, acquired)
<1>1. HasPlugInProperty(a) => /\ IsPlugInPropertySettable(a.selector) # "unknown"
                              /\ size \in Nat
  BY SettableIs DEF HasPlugInProperty, IsPlugInPropertySettable, GetPlugInPropertyDataSize,
     Word, Pointer, CustomInfo
<1> USE DEF Word, Pointer, CustomInfo
<1>2. HasPlugInProperty(a) => Fills(reply, size)
  <2>1. CASE a.selector \in {"BaseClass", "Class", "Owner"}
    BY <2>1, FullReplies DEF GetPlugInPropertyDataSize, GetPlugInPropertyData
  <2>4. CASE a.selector \in {"Manufacturer", "Custom", "CustomPropertyInfoList"}
    BY <2>4, FullReplies DEF GetPlugInPropertyDataSize, GetPlugInPropertyData
  <2>5. CASE a.selector \in {"ResourceBundle"}
    <3>1. size = 8
      BY <2>5 DEF GetPlugInPropertyDataSize
    <3>2. reply = Reply(8, <<>>)
      BY <2>5, <3>1 DEF GetPlugInPropertyData
    <3> QED BY <3>1, <3>2, FullReplies
  <2>2. CASE a.selector = "OwnedObjects"
    <3>1. reply = PlugInOwnedObjects(size, acquired)
      BY <2>2 DEF GetPlugInPropertyData
    <3>2. Fitting(4, 1) = 1 /\ Fitting(8, 2) = 2
      BY DEF Fitting
    <3>3. PlugInOwnedObjects(4, FALSE) = Reply(4, <<Box>>)
      BY <3>2 DEF PlugInOwnedObjects
    <3>4. PlugInOwnedObjects(8, TRUE) = Reply(8, <<Device, Unwritten>>)
      BY <3>2 DEF PlugInOwnedObjects
    <3>5. size = IF acquired THEN 8 ELSE 4
      BY <2>2 DEF GetPlugInPropertyDataSize
    <3> QED BY <3>1, <3>3, <3>4, <3>5, FullReplies DEF GetPlugInPropertyDataSize
  <2>3. CASE a.selector \in {"BoxList", "TranslateUIDToBox", "DeviceList", "TranslateUIDToDevice"}
    <3>1. reply = PlugInLists(a, size, acquired)
      BY <2>3 DEF GetPlugInPropertyData
    <3> QED
      BY <2>3, <3>1, FullReplies DEF GetPlugInPropertyDataSize, PlugInLists
  <2> QED BY <2>1, <2>2, <2>3, <2>4, <2>5 DEF HasPlugInProperty
<1>3. IsPlugInPropertySettable(a.selector) = "yes" <=> SetPlugInPropertyData(a.selector,
      size) = "ok"
  <2>1. IsPlugInPropertySettable(a.selector) = "yes" <=> a.selector = "Custom"
    BY SettableIs DEF IsPlugInPropertySettable
  <2>2. a.selector = "Custom" => size = 8
    BY DEF GetPlugInPropertyDataSize
  <2> HIDE DEF size
  <2>3. Accepts(a.selector, size, [Custom |-> 8]) = "ok" <=> a.selector = "Custom" /\ size = 8
    BY DEF Accepts
  <2> QED BY <2>1, <2>2, <2>3 DEF SetPlugInPropertyData
<1> QED BY <1>1, <1>2, <1>3 DEF Consistent, Described, Fills

\* Which property of which object departs from what is reported of it.
LEMMA Exceptions ==
  ASSUME NEW o, NEW s
  PROVE  /\ <<o, s>> \in SizeNotReported <=> o = Box /\ s = "BoxUID"
         /\ <<o, s>> \in Unreadable <=>
              o = Device /\ s = "Icon" /\ "DeviceIcon.icns" \notin Resources
         /\ Box # Device
  BY DEF SizeNotReported, Unreadable, Box, Device

LEMMA BoxAgrees ==
  ASSUME NEW a, NEW acquired \in BOOLEAN
  PROVE  LET size == GetBoxPropertyDataSize(a.selector, acquired)
         IN  /\ Described(HasBoxProperty(a), IsBoxPropertySettable(a.selector), size,
                          SetBoxPropertyData(a.selector, size))
             /\ HasBoxProperty(a) =>
                  AsReported(Box, a.selector, size, GetBoxPropertyData(a.selector, size, acquired))
<1> DEFINE s == a.selector
           size == GetBoxPropertyDataSize(s, acquired)
           reply == GetBoxPropertyData(s, size, acquired)
<1> USE DEF Word, Pointer
<1>1. HasBoxProperty(a) => IsBoxPropertySettable(s) # "unknown" /\ size \in Nat
  BY SettableIs DEF HasBoxProperty, IsBoxPropertySettable, GetBoxPropertyDataSize
<1>2. HasBoxProperty(a) => IF s = "BoxUID" THEN reply = Reply(Unset, <<>>) ELSE Fills(reply, size)
  <2>1. CASE s \in {"BaseClass", "Class", "Identify", "TransportType", "HasAudio", "HasVideo",
                    "HasMIDI", "IsProtected", "Acquired", "AcquisitionFailed"}
    BY <2>1, FullReplies DEF GetBoxPropertyDataSize, GetBoxPropertyData
  <2>2. CASE s \in {"Name", "ModelName", "Manufacturer", "SerialNumber", "FirmwareVersion"}
    BY <2>2, FullReplies DEF GetBoxPropertyDataSize, GetBoxPropertyData
  <2>3. CASE s \in {"Owner", "OwnedObjects"}
    BY <2>3, FullReplies DEF GetBoxPropertyDataSize, GetBoxPropertyData
  <2>4. CASE s = "BoxDeviceList"
    BY <2>4, FullReplies DEF GetBoxPropertyDataSize, GetBoxPropertyData, BoxDeviceList
  <2>5. CASE s = "BoxUID"
    BY <2>5 DEF GetBoxPropertyDataSize, GetBoxPropertyData
  <2> QED BY <2>1, <2>2, <2>3, <2>4, <2>5 DEF HasBoxProperty
<1>3. IsBoxPropertySettable(s) = "yes" <=> SetBoxPropertyData(s, size) = "ok"
  <2>1. IsBoxPropertySettable(s) = "yes" <=> s \in {"Name", "Identify", "Acquired"}
    BY SettableIs DEF IsBoxPropertySettable
  <2>2. (s = "Name" => size = 8) /\ (s \in {"Identify", "Acquired"} => size = 4)
    BY DEF GetBoxPropertyDataSize
  <2> HIDE DEF size
  <2>3. SetBoxPropertyData(s, size) = "ok"
          <=> \/ s = "Name" /\ size = 8
              \/ s \in {"Identify", "Acquired"} /\ size = 4
    <3>1. CASE s = "Name"
      BY <3>1 DEF Accepts, SetBoxPropertyData
    <3>2. CASE s \in {"Identify", "Acquired"}
      BY <3>2 DEF Accepts, SetBoxPropertyData
    <3>3. CASE s \notin {"Name", "Identify", "Acquired"}
      BY <3>3 DEF Accepts, SetBoxPropertyData
    <3> QED BY <3>1, <3>2, <3>3
  <2> QED BY <2>1, <2>2, <2>3
<1>4. HasBoxProperty(a) => AsReported(Box, s, size, reply)
  BY <1>2, Exceptions DEF AsReported
<1> QED BY <1>1, <1>3, <1>4 DEF Described

LEMMA DeviceAgrees ==
  ASSUME NEW a
  PROVE  LET size == GetDevicePropertyDataSize(a)
         IN  /\ Described(HasDeviceProperty(a), IsDevicePropertySettable(a.selector), size,
                          SetDevicePropertyData(a.selector, size))
             /\ HasDeviceProperty(a) =>
                  AsReported(Device, a.selector, size, GetDevicePropertyData(a, size))
<1> DEFINE s == a.selector
           size == GetDevicePropertyDataSize(a)
           reply == GetDevicePropertyData(a, size)
<1> USE DEF Word, Pointer, ValueRange, ChannelLayout
<1>1. HasDeviceProperty(a) => IsDevicePropertySettable(s) # "unknown" /\ size \in Nat
  BY SettableIs DEF HasDeviceProperty, IsDevicePropertySettable, GetDevicePropertyDataSize, OnOutput
<1>2. HasDeviceProperty(a) =>
        IF s = "Icon" /\ "DeviceIcon.icns" \notin Resources THEN reply = Refused("unspecified")
                                                         ELSE Fills(reply, size)
  <2>1. CASE s \in {"BaseClass", "Class", "Owner", "Name", "Manufacturer", "ElementName"}
    <3>1. reply = DeviceDescription(s, size)
      BY <2>1 DEF GetDevicePropertyData
    <3> QED BY <2>1, <3>1, FullReplies DEF GetDevicePropertyDataSize, DeviceDescription
  <2>2. CASE s \in {"DeviceUID", "ModelUID", "TransportType", "RelatedDevices", "ClockDomain",
                    "DeviceIsAlive"}
    <3>1. reply = DeviceIdentity(s, size)
      BY <2>2 DEF GetDevicePropertyData
    <3> QED BY <2>2, <3>1, FullReplies DEF GetDevicePropertyDataSize, DeviceIdentity
  <2>3. CASE s \in {"DeviceIsRunning", "CanBeDefaultDevice", "CanBeDefaultSystemDevice",
                    "Latency"}
    BY <2>3, FullReplies DEF GetDevicePropertyDataSize, GetDevicePropertyData, DeviceActivity
  <2>4. CASE s \in {"OwnedObjects", "Streams"}
    BY <2>4, FullReplies DEF GetDevicePropertyDataSize, GetDevicePropertyData,
       DeviceOwnedObjects, DeviceStreams, OnOutput
  <2>5. CASE s = "ControlList"
    BY <2>5, FullReplies DEF GetDevicePropertyDataSize, GetDevicePropertyData, DeviceControls
  <2>6. CASE s \in {"SafetyOffset", "NominalSampleRate", "AvailableNominalSampleRates"}
    <3>1. reply = DeviceRates(s, size)
      BY <2>6 DEF GetDevicePropertyData
    <3> QED BY <2>6, <3>1, FullReplies DEF GetDevicePropertyDataSize, DeviceRates
  <2>7. CASE s \in {"IsHidden", "PreferredChannelsForStereo", "PreferredChannelLayout",
                    "ZeroTimeStampPeriod"}
    <3>1. reply = DevicePresentation(s, size)
      BY <2>7 DEF GetDevicePropertyData
    <3> QED BY <2>7, <3>1, FullReplies DEF GetDevicePropertyDataSize, DevicePresentation
  <2>8. CASE s = "Icon"
    <3>1. size = 8
      BY <2>8 DEF GetDevicePropertyDataSize
    <3>2. reply = DeviceIcon(8)
      BY <2>8, <3>1 DEF GetDevicePropertyData
    <3> QED BY <2>8, <3>1, <3>2, FullReplies DEF DeviceIcon
  <2> QED BY <2>1, <2>2, <2>3, <2>4, <2>5, <2>6, <2>7, <2>8 DEF HasDeviceProperty
<1>3. IsDevicePropertySettable(s) = "yes" <=> SetDevicePropertyData(s, size) = "ok"
  <2>1. IsDevicePropertySettable(s) = "yes" <=> s = "NominalSampleRate"
    BY SettableIs DEF IsDevicePropertySettable
  <2>2. s = "NominalSampleRate" => size = 8
    BY DEF GetDevicePropertyDataSize
  <2> HIDE DEF size
  <2>3. SetDevicePropertyData(s, size) = "ok" <=> s = "NominalSampleRate" /\ size = 8
    BY DEF Accepts, SetDevicePropertyData
  <2> QED BY <2>1, <2>2, <2>3
<1>4. HasDeviceProperty(a) => AsReported(Device, s, size, reply)
  BY <1>2, Exceptions DEF AsReported
<1> QED BY <1>1, <1>3, <1>4 DEF Described

LEMMA StreamAgrees ==
  ASSUME NEW a
  PROVE  LET size == GetStreamPropertyDataSize(a.selector)
         IN  Consistent(HasStreamProperty(a), IsStreamPropertySettable(a.selector), size,
                        GetStreamPropertyData(a.selector, size),
                        SetStreamPropertyData(a.selector, size))
<1> DEFINE s == a.selector
           size == GetStreamPropertyDataSize(s)
           reply == GetStreamPropertyData(s, size)
<1> USE DEF Word, Pointer, StreamFormat, RangedFormat
<1>1. HasStreamProperty(a) => IsStreamPropertySettable(s) # "unknown" /\ size \in Nat
  BY SettableIs DEF HasStreamProperty, IsStreamPropertySettable, GetStreamPropertyDataSize
<1>2. HasStreamProperty(a) => Fills(reply, size)
  BY FullReplies DEF HasStreamProperty, GetStreamPropertyDataSize, GetStreamPropertyData
<1>3. IsStreamPropertySettable(s) = "yes" <=> SetStreamPropertyData(s, size) = "ok"
  <2>1. IsStreamPropertySettable(s) = "yes"
          <=> s \in {"IsActive", "VirtualFormat", "PhysicalFormat"}
    BY SettableIs DEF IsStreamPropertySettable
  <2>2. /\ s = "IsActive" => size = 4
        /\ s \in {"VirtualFormat", "PhysicalFormat"} => size = 40
    BY DEF GetStreamPropertyDataSize
  <2> HIDE DEF size
  <2>3. SetStreamPropertyData(s, size) = "ok"
          <=> \/ s = "IsActive" /\ size = 4
              \/ s \in {"VirtualFormat", "PhysicalFormat"} /\ size = 40
    BY DEF Accepts, SetStreamPropertyData
  <2> QED BY <2>1, <2>2, <2>3
<1> QED BY <1>1, <1>2, <1>3 DEF Consistent, Described, Fills

LEMMA ControlAgrees ==
  ASSUME NEW a, NEW o \in Controls
  PROVE  LET size == GetControlPropertyDataSize(o, a.selector)
         IN  Consistent(HasControlProperty(o, a), IsControlPropertySettable(o, a.selector), size,
                        GetControlPropertyData(o, a.selector, size),
                        SetControlPropertyData(o, a.selector, size))
<1> DEFINE s == a.selector
           size == GetControlPropertyDataSize(o, s)
           reply == GetControlPropertyData(o, s, size)
<1> USE DEF Word, Pointer, ValueRange, DataSourceItems
<1>a. /\ o \in Volumes => o \notin Mutes /\ o \notin Selectors
      /\ o \in Mutes => o \notin Volumes /\ o \notin Selectors
      /\ o \in Selectors => o \notin Volumes /\ o \notin Mutes
  BY DEF Controls, Volumes, Mutes, Selectors, VolumeInput, VolumeOutput, MuteInput, MuteOutput,
         DataSourceInput, DataSourceOutput, PlayThru
<1>1. CASE s \in ControlCommon
  <2>1. size = IF s = "OwnedObjects" THEN 0 ELSE 4
    BY <1>1, <1>a DEF GetControlPropertyDataSize, ControlCommon
  <2>2. reply = ControlData(s, size)
    <3>1. CASE o \in Volumes
      BY <1>1, <1>a, <3>1 DEF GetControlPropertyData, VolumeData, ControlCommon
    <3>2. CASE o \in Mutes
      BY <1>1, <1>a, <3>2 DEF GetControlPropertyData, MuteData, ControlCommon
    <3>3. CASE o \in Selectors
      BY <1>1, <1>a, <3>3 DEF GetControlPropertyData, DataSourceData, ControlCommon
    <3> QED BY <3>1, <3>2, <3>3 DEF Controls
  <2> HIDE DEF reply, size
  <2>3. Fills(reply, size)
    BY <2>1, <2>2, FullReplies DEF ControlData
  <2>4. IsControlPropertySettable(o, s) = "no"
    BY <1>1, <1>a DEF IsControlPropertySettable, Settable, ControlCommon, Controls
  <2>5. SetControlPropertyData(o, s, size) # "ok"
    BY <1>1, <1>a DEF SetControlPropertyData, Accepts, ControlCommon
  <2> QED BY <2>1, <2>3, <2>4, <2>5 DEF Consistent, Described, Fills, reply, size
<1> USE DEF ControlCommon
<1>2. CASE s \notin ControlCommon /\ o \in Volumes
  <2>1. HasControlProperty(o, a) => IsControlPropertySettable(o, s) # "unknown" /\ size \in Nat
    BY <1>2, <1>a, SettableIs DEF HasControlProperty, IsControlPropertySettable,
       GetControlPropertyDataSize
  <2>2. HasControlProperty(o, a) => Fills(reply, size)
    <3>1. reply = VolumeData(s, size)
      BY <1>2, <1>a DEF GetControlPropertyData
    <3> QED BY <1>2, <1>a, <3>1, FullReplies DEF HasControlProperty, GetControlPropertyDataSize,
            VolumeData
  <2>3. IsControlPropertySettable(o, s) = "yes" <=> s \in {"ScalarValue", "DecibelValue"}
    BY <1>2, <1>a, SettableIs DEF IsControlPropertySettable
  <2>4. s \in {"ScalarValue", "DecibelValue"} => size = 4
    BY <1>2, <1>a DEF GetControlPropertyDataSize
  <2>5. SetControlPropertyData(o, s, size) = "ok"
          <=> s \in {"ScalarValue", "DecibelValue"} /\ size = 4
    <3> HIDE DEF size
    <3> QED BY <1>2, <1>a DEF SetControlPropertyData, Accepts
  <2> QED BY <2>1, <2>2, <2>3, <2>4, <2>5 DEF Consistent, Described, Fills
<1>3. CASE s \notin ControlCommon /\ o \in Mutes
  <2>1. HasControlProperty(o, a) => IsControlPropertySettable(o, s) # "unknown" /\ size \in Nat
    BY <1>3, <1>a, SettableIs DEF HasControlProperty, IsControlPropertySettable,
       GetControlPropertyDataSize
  <2>2. HasControlProperty(o, a) => Fills(reply, size)
    <3>1. reply = MuteData(s, size)
      BY <1>3, <1>a DEF GetControlPropertyData
    <3> QED BY <1>3, <1>a, <3>1, FullReplies DEF HasControlProperty, GetControlPropertyDataSize,
            MuteData
  <2>3. IsControlPropertySettable(o, s) = "yes" <=> s = "BooleanValue"
    BY <1>3, <1>a, SettableIs DEF IsControlPropertySettable
  <2>4. s = "BooleanValue" => size = 4
    BY <1>3, <1>a DEF GetControlPropertyDataSize
  <2>5. SetControlPropertyData(o, s, size) = "ok" <=> s = "BooleanValue" /\ size = 4
    <3> HIDE DEF size
    <3> QED BY <1>3, <1>a DEF SetControlPropertyData, Accepts
  <2> QED BY <2>1, <2>2, <2>3, <2>4, <2>5 DEF Consistent, Described, Fills
<1>4. CASE s \notin ControlCommon /\ o \in Selectors
  <2>1. HasControlProperty(o, a) => IsControlPropertySettable(o, s) # "unknown" /\ size \in Nat
    BY <1>4, <1>a, SettableIs DEF HasControlProperty, IsControlPropertySettable,
       GetControlPropertyDataSize
  <2>2. HasControlProperty(o, a) => Fills(reply, size)
    <3>1. reply = DataSourceData(s, size)
      BY <1>4, <1>a DEF GetControlPropertyData
    <3>2. Fitting(16, 4) = 4
      BY DEF Fitting
    <3>3. HasControlProperty(o, a)
            => \/ s = "CurrentItem" /\ size = 4
               \/ s = "AvailableItems" /\ size = 16
               \/ s = "ItemName" /\ size = 8
      BY <1>4, <1>a DEF HasControlProperty, GetControlPropertyDataSize
    <3> HIDE DEF size, reply
    <3>4. s = "CurrentItem" /\ size = 4 => Fills(reply, size)
      BY <3>1, FullReplies DEF DataSourceData
    <3>5. s = "AvailableItems" /\ size = 16 => Fills(reply, size)
      <4>1. s = "AvailableItems" /\ size = 16 => reply = Reply(16, <<>>)
        BY <3>1, <3>2 DEF DataSourceData
      <4> QED BY <4>1, FullReplies
    <3>6. s = "ItemName" /\ size = 8 => Fills(reply, size)
      BY <3>1, FullReplies DEF DataSourceData
    <3> QED BY <3>3, <3>4, <3>5, <3>6
  <2>3. IsControlPropertySettable(o, s) = "yes" <=> s = "CurrentItem"
    BY <1>4, <1>a, SettableIs DEF IsControlPropertySettable
  <2>4. s = "CurrentItem" => size = 4
    BY <1>4, <1>a DEF GetControlPropertyDataSize
  <2>5. SetControlPropertyData(o, s, size) = "ok" <=> s = "CurrentItem" /\ size = 4
    <3> HIDE DEF size
    <3> QED BY <1>4, <1>a DEF SetControlPropertyData, Accepts
  <2> QED BY <2>1, <2>2, <2>3, <2>4, <2>5 DEF Consistent, Described, Fills
<1> QED BY <1>1, <1>2, <1>3, <1>4 DEF Controls

\* A selector that no switch knows.
IsHidden(settable, size, reply) ==
  settable = "unknown" /\ size = Unknown /\ reply.status = "unknown"

LEMMA RefusedIs == Refused("unknown").status = "unknown"
  BY DEF Refused

LEMMA PlugInHides ==
  ASSUME NEW a, NEW n, NEW acquired \in BOOLEAN, ~HasPlugInProperty(a)
  PROVE  IsHidden(IsPlugInPropertySettable(a.selector),
                  GetPlugInPropertyDataSize(a.selector, acquired),
                  GetPlugInPropertyData(a, n, acquired))
  BY RefusedIs DEF HasPlugInProperty, IsPlugInPropertySettable, Settable,
     GetPlugInPropertyDataSize, GetPlugInPropertyData, IsHidden

LEMMA BoxHides ==
  ASSUME NEW a, NEW n, NEW acquired \in BOOLEAN, ~HasBoxProperty(a)
  PROVE  IsHidden(IsBoxPropertySettable(a.selector),
                  GetBoxPropertyDataSize(a.selector, acquired),
                  GetBoxPropertyData(a.selector, n, acquired))
  BY RefusedIs DEF HasBoxProperty, IsBoxPropertySettable, Settable,
     GetBoxPropertyDataSize, GetBoxPropertyData, IsHidden

LEMMA DeviceHides ==
  ASSUME NEW a, NEW n, NEW b, b.selector = a.selector, b.scope = "Output", b.element = 0,
         ~HasDeviceProperty(b)
  PROVE  IsHidden(IsDevicePropertySettable(a.selector), GetDevicePropertyDataSize(a),
                  GetDevicePropertyData(a, n))
  BY RefusedIs DEF HasDeviceProperty, IsDevicePropertySettable, Settable,
     GetDevicePropertyDataSize, GetDevicePropertyData, IsHidden

LEMMA StreamHides ==
  ASSUME NEW a, NEW n, ~HasStreamProperty(a)
  PROVE  IsHidden(IsStreamPropertySettable(a.selector), GetStreamPropertyDataSize(a.selector),
                  GetStreamPropertyData(a.selector, n))
  BY RefusedIs DEF HasStreamProperty, IsStreamPropertySettable, Settable,
     GetStreamPropertyDataSize, GetStreamPropertyData, IsHidden

LEMMA ControlHides ==
  ASSUME NEW a, NEW n, NEW o \in RoutedControls, ~HasControlProperty(o, a)
  PROVE  IsHidden(IsControlPropertySettable(o, a.selector),
                  GetControlPropertyDataSize(o, a.selector),
                  GetControlPropertyData(o, a.selector, n))
<1>1. \/ o \in Volumes /\ o \notin Mutes /\ o \notin Selectors
      \/ o \in Mutes /\ o \notin Volumes /\ o \notin Selectors
  BY DEF RoutedControls, Volumes, Mutes, Selectors, VolumeInput, VolumeOutput, MuteInput,
         MuteOutput, DataSourceInput, DataSourceOutput, PlayThru
<1> QED
  BY <1>1, RefusedIs DEF HasControlProperty, IsControlPropertySettable, Settable, Controls,
     ControlCommon, GetControlPropertyDataSize, GetControlPropertyData, VolumeData, MuteData,
     IsHidden

\* Each object is answered by the switches of its kind.
LEMMA Routing ==
  ASSUME NEW o \in Routed, NEW a, NEW n, NEW acquired
  PROVE  /\ o = PlugIn =>
            /\ HasProperty(o, a) <=> HasPlugInProperty(a)
            /\ IsPropertySettable(o, a) = IsPlugInPropertySettable(a.selector)
            /\ GetPropertyDataSize(o, a, acquired) = GetPlugInPropertyDataSize(a.selector, acquired)
            /\ GetPropertyData(o, a, n, acquired) = GetPlugInPropertyData(a, n, acquired)
            /\ SetPropertyData(o, a, n) = SetPlugInPropertyData(a.selector, n)
         /\ o = Box =>
            /\ HasProperty(o, a) <=> HasBoxProperty(a)
            /\ IsPropertySettable(o, a) = IsBoxPropertySettable(a.selector)
            /\ GetPropertyDataSize(o, a, acquired) = GetBoxPropertyDataSize(a.selector, acquired)
            /\ GetPropertyData(o, a, n, acquired) = GetBoxPropertyData(a.selector, n, acquired)
            /\ SetPropertyData(o, a, n) = SetBoxPropertyData(a.selector, n)
         /\ o = Device =>
            /\ HasProperty(o, a) <=> HasDeviceProperty(a)
            /\ IsPropertySettable(o, a) = IsDevicePropertySettable(a.selector)
            /\ GetPropertyDataSize(o, a, acquired) = GetDevicePropertyDataSize(a)
            /\ GetPropertyData(o, a, n, acquired) = GetDevicePropertyData(a, n)
            /\ SetPropertyData(o, a, n) = SetDevicePropertyData(a.selector, n)
         /\ o = StreamOutput =>
            /\ HasProperty(o, a) <=> HasStreamProperty(a)
            /\ IsPropertySettable(o, a) = IsStreamPropertySettable(a.selector)
            /\ GetPropertyDataSize(o, a, acquired) = GetStreamPropertyDataSize(a.selector)
            /\ GetPropertyData(o, a, n, acquired) = GetStreamPropertyData(a.selector, n)
            /\ SetPropertyData(o, a, n) = SetStreamPropertyData(a.selector, n)
         /\ o \in RoutedControls =>
            /\ HasProperty(o, a) <=> HasControlProperty(o, a)
            /\ IsPropertySettable(o, a) = IsControlPropertySettable(o, a.selector)
            /\ GetPropertyDataSize(o, a, acquired) = GetControlPropertyDataSize(o, a.selector)
            /\ GetPropertyData(o, a, n, acquired) = GetControlPropertyData(o, a.selector, n)
            /\ SetPropertyData(o, a, n) = SetControlPropertyData(o, a.selector, n)
<1> USE DEF Routed, RoutedControls, PlugIn, Box, Device, StreamOutput, VolumeOutput, MuteOutput
<1> QED
  BY DEF HasProperty, IsPropertySettable, GetPropertyDataSize, GetPropertyData, SetPropertyData

LEMMA AllAgree ==
  ASSUME NEW acquired \in BOOLEAN
  PROVE  SwitchesAgree(acquired) /\ SelectorSwitchesAgree
<1>1. ASSUME NEW o \in Routed, NEW a
      PROVE  LET size == GetPropertyDataSize(o, a, acquired)
             IN  /\ Described(HasProperty(o, a), IsPropertySettable(o, a), size,
                              SetPropertyData(o, a, size))
                 /\ HasProperty(o, a) => AsReported(o, a.selector, size,
                                                   GetPropertyData(o, a, size, acquired))
  <2> DEFINE size == GetPropertyDataSize(o, a, acquired)
  <2>1. ASSUME NEW reply, Fills(reply, size), o \notin {Box, Device}
        PROVE  AsReported(o, a.selector, size, reply)
    BY <2>1, Exceptions DEF AsReported
  <2>a. PlugIn \notin {Box, Device} /\ StreamOutput \notin {Box, Device}
        /\ \A c \in RoutedControls : c \notin {Box, Device}
    BY DEF PlugIn, Box, Device, StreamOutput, RoutedControls, VolumeOutput, MuteOutput
  <2>2. o \in RoutedControls => o \in Controls
    BY DEF RoutedControls, Controls, Volumes, Mutes
  <2>3. CASE o = PlugIn
    <3>1. /\ size = GetPlugInPropertyDataSize(a.selector, acquired)
          /\ HasProperty(o, a) <=> HasPlugInProperty(a)
          /\ IsPropertySettable(o, a) = IsPlugInPropertySettable(a.selector)
          /\ GetPropertyData(o, a, size, acquired) = GetPlugInPropertyData(a, size, acquired)
          /\ SetPropertyData(o, a, size) = SetPlugInPropertyData(a.selector, size)
      BY <2>3, Routing
    <3>2. Consistent(HasPlugInProperty(a), IsPlugInPropertySettable(a.selector), size,
                     GetPlugInPropertyData(a, size, acquired), SetPlugInPropertyData(a.selector, size))
      BY <3>1, <2>3, PlugInAgrees
    <3> QED BY <2>3, <2>a, <2>1, <3>1, <3>2 DEF Consistent, Described
  <2>4. CASE o = Box
    <3>1. /\ size = GetBoxPropertyDataSize(a.selector, acquired)
          /\ HasProperty(o, a) <=> HasBoxProperty(a)
          /\ IsPropertySettable(o, a) = IsBoxPropertySettable(a.selector)
          /\ GetPropertyData(o, a, size, acquired) = GetBoxPropertyData(a.selector, size, acquired)
          /\ SetPropertyData(o, a, size) = SetBoxPropertyData(a.selector, size)
      BY <2>4, Routing
    <3>2. /\ Described(HasBoxProperty(a), IsBoxPropertySettable(a.selector), size,
                       SetBoxPropertyData(a.selector, size))
          /\ HasBoxProperty(a) =>
               AsReported(Box, a.selector, size, GetBoxPropertyData(a.selector, size, acquired))
      BY <3>1, BoxAgrees
    <3> QED BY <2>4, <3>1, <3>2 DEF Described
  <2>5. CASE o = Device
    <3>1. /\ size = GetDevicePropertyDataSize(a)
          /\ HasProperty(o, a) <=> HasDeviceProperty(a)
          /\ IsPropertySettable(o, a) = IsDevicePropertySettable(a.selector)
          /\ GetPropertyData(o, a, size, acquired) = GetDevicePropertyData(a, size)
          /\ SetPropertyData(o, a, size) = SetDevicePropertyData(a.selector, size)
      BY <2>5, Routing
    <3>2. /\ Described(HasDeviceProperty(a), IsDevicePropertySettable(a.selector), size,
                       SetDevicePropertyData(a.selector, size))
          /\ HasDeviceProperty(a) =>
               AsReported(Device, a.selector, size, GetDevicePropertyData(a, size))
      BY <3>1, DeviceAgrees
    <3> QED BY <2>5, <3>1, <3>2 DEF Described
  <2>6. CASE o = StreamOutput
    <3>1. /\ size = GetStreamPropertyDataSize(a.selector)
          /\ HasProperty(o, a) <=> HasStreamProperty(a)
          /\ IsPropertySettable(o, a) = IsStreamPropertySettable(a.selector)
          /\ GetPropertyData(o, a, size, acquired) = GetStreamPropertyData(a.selector, size)
          /\ SetPropertyData(o, a, size) = SetStreamPropertyData(a.selector, size)
      BY <2>6, Routing
    <3>2. Consistent(HasStreamProperty(a), IsStreamPropertySettable(a.selector), size,
                     GetStreamPropertyData(a.selector, size), SetStreamPropertyData(a.selector, size))
      BY <3>1, <2>6, StreamAgrees
    <3> QED BY <2>6, <2>a, <2>1, <3>1, <3>2 DEF Consistent, Described
  <2>7. CASE o \in RoutedControls
    <3>1. /\ size = GetControlPropertyDataSize(o, a.selector)
          /\ HasProperty(o, a) <=> HasControlProperty(o, a)
          /\ IsPropertySettable(o, a) = IsControlPropertySettable(o, a.selector)
          /\ GetPropertyData(o, a, size, acquired) = GetControlPropertyData(o, a.selector, size)
          /\ SetPropertyData(o, a, size) = SetControlPropertyData(o, a.selector, size)
      BY <2>7, Routing
    <3>2. Consistent(HasControlProperty(o, a), IsControlPropertySettable(o, a.selector), size,
          GetControlPropertyData(o, a.selector, size), SetControlPropertyData(o, a.selector,
          size))
      BY <3>1, <2>2, <2>7, ControlAgrees
    <3> QED BY <2>7, <2>a, <2>1, <3>1, <3>2 DEF Consistent, Described
  <2> QED BY <2>3, <2>4, <2>5, <2>6, <2>7 DEF Routed
<1>2. SwitchesAgree(acquired)
  BY <1>1 DEF SwitchesAgree
<1>3. SelectorSwitchesAgree
  BY ControlAgrees DEF SelectorSwitchesAgree, Controls
<1> QED BY <1>2, <1>3

LEMMA AllHide ==
  ASSUME NEW acquired \in BOOLEAN
  PROVE  NothingHidden(acquired)
<1> SUFFICES ASSUME NEW o \in Routed, NEW a \in Addresses,
                    \A b \in Addresses : b.selector = a.selector => ~HasProperty(o, b)
             PROVE  IsHidden(IsPropertySettable(o, a), GetPropertyDataSize(o, a, acquired),
                             GetPropertyData(o, a, RangedFormat, acquired))
  BY DEF NothingHidden, IsHidden
<1> DEFINE b == [selector |-> a.selector, scope |-> "Output", element |-> 0, uid |-> "other"]
<1>1. b \in Addresses /\ b.selector = a.selector /\ b.scope = "Output" /\ b.element = 0
  BY DEF Addresses
<1> HIDE DEF b
<1>2. ~HasProperty(o, a) /\ ~HasProperty(o, b)
  BY <1>1
<1>3. o = Device => ~HasDeviceProperty(b)
  BY <1>2 DEF HasProperty
<1>4. CASE o = PlugIn
  BY <1>2, <1>4, Routing, PlugInHides
<1>5. CASE o = Box
  <2>1. /\ ~HasBoxProperty(a)
        /\ IsPropertySettable(o, a) = IsBoxPropertySettable(a.selector)
        /\ GetPropertyDataSize(o, a, acquired) = GetBoxPropertyDataSize(a.selector, acquired)
        /\ GetPropertyData(o, a, RangedFormat, acquired) = GetBoxPropertyData(a.selector,
           RangedFormat, acquired)
    BY <1>2, <1>5, Routing
  <2> QED BY <1>5, <2>1, BoxHides
<1>6. CASE o = Device
  BY <1>1, <1>3, <1>6, Routing, DeviceHides
<1>7. CASE o = StreamOutput
  BY <1>2, <1>7, Routing, StreamHides
<1>8. CASE o \in RoutedControls
  <2>1. /\ ~HasControlProperty(o, a)
        /\ IsPropertySettable(o, a) = IsControlPropertySettable(o, a.selector)
        /\ GetPropertyDataSize(o, a, acquired) = GetControlPropertyDataSize(o, a.selector)
        /\ GetPropertyData(o, a, RangedFormat, acquired) = GetControlPropertyData(o, a.selector,
           RangedFormat)
    BY <1>2, <1>8, Routing
  <2> QED BY <1>8, <2>1, ControlHides
<1> QED BY <1>4, <1>5, <1>6, <1>7, <1>8 DEF Routed

LEMMA TablesAlwaysFit == \A acquired \in BOOLEAN : TablesFit[acquired]
<1> SUFFICES ASSUME NEW acquired \in BOOLEAN
             PROVE  TablesFit[acquired]
  OBVIOUS
<1>1. RepliesFit(acquired)
  <2>1. BufferSizes \subseteq Nat
    BY DEF BufferSizes
  <2> QED BY <2>1, RepliesNeverOverrun DEF RepliesFit, Fits
<1>2. OperationsAgree
  BY DEF OperationsAgree, WillDoIOOperation, DoIOOperation
<1> QED BY <1>1, <1>2, AllAgree, AllHide DEF TablesFit

-----------------------------------------------------------------------------
(* The switch families: the tree of objects                                *)

\* What a list holds, without its order.
Items(objects) == {objects[i] : i \in DOMAIN objects}

LEMMA ItemsOf ==
  /\ Items(<<>>) = {}
  /\ \A x : Items(<<x>>) = {x}
  /\ \A x, y : Items(<<x, y>>) = {x, y}
  BY DEF Items

LEMMA ReplyObjects ==
  /\ \A n, objects : Reply(n, objects).objects = objects
  /\ \A o : ObjectValue(Word, o).objects = <<o>>
<1>1. \A n, objects : Reply(n, objects).objects = objects
  BY DEF Reply
<1> QED BY <1>1 DEF ObjectValue, Word

LEMMA ListItems ==
  ASSUME NEW first \in Int, NEW count \in Nat
  PROVE  Items(ObjectList(Word * count, first, count).objects) = first .. first + count - 1
<1> DEFINE objects == [i \in 1 .. count |-> first + i - 1]
<1>1. Fitting(Word * count, count) = count
  BY FullReplies
<1>2. ObjectList(Word * count, first, count).objects = objects
  BY <1>1, ReplyObjects DEF ObjectList
<1>3. Items(objects) \subseteq first .. first + count - 1
  BY DEF Items
<1>4. ASSUME NEW x \in first .. first + count - 1
      PROVE  x \in Items(objects)
  <2>1. x - first + 1 \in 1 .. count /\ objects[x - first + 1] = x
    OBVIOUS
  <2>2. DOMAIN objects = 1 .. count
    OBVIOUS
  <2> QED BY <2>1, <2>2 DEF Items
<1> QED BY <1>2, <1>3, <1>4

LEMMA ShortLists ==
  ASSUME NEW first \in Int
  PROVE  /\ Items(ObjectList(0, first, 0).objects) = {}
         /\ Items(ObjectList(Word, first, 1).objects) = {first}
         /\ Items(ObjectList(2 * Word, first, 2).objects) = {first, first + 1}
         /\ Items(ObjectList(3 * Word, first, 3).objects) = {first, first + 1, first + 2}
<1> USE DEF Word
<1>1. /\ Items(ObjectList(4 * 0, first, 0).objects) = first .. first + 0 - 1
      /\ Items(ObjectList(4 * 1, first, 1).objects) = first .. first + 1 - 1
      /\ Items(ObjectList(4 * 2, first, 2).objects) = first .. first + 2 - 1
      /\ Items(ObjectList(4 * 3, first, 3).objects) = first .. first + 3 - 1
  BY ListItems
<1>2. first .. first + 0 - 1 = {} /\ first .. first + 1 - 1 = {first}
  OBVIOUS
<1>3. first .. first + 2 - 1 = {first, first + 1}
  OBVIOUS
<1>4. first .. first + 3 - 1 = {first, first + 1, first + 2}
  OBVIOUS
<1> QED BY <1>1, <1>2, <1>3, <1>4

LEMMA AddressIs ==
  ASSUME NEW s, NEW scope, NEW uid
  PROVE  Address(s, scope, uid).selector = s /\ Address(s, scope, uid).scope = scope
  BY DEF Address

LEMMA ListedIs ==
  ASSUME NEW o, NEW s, NEW scope, NEW acquired
  PROVE  LET a == Address(s, scope, "other")
         IN  Listed(o, s, scope, acquired)
               = Items(GetPropertyData(o, a, GetPropertyDataSize(o, a, acquired), acquired).objects)
  BY DEF Listed, Items

\* The reachable objects are told apart by their numbers.
LEMMA ObjectNumbers ==
  /\ {PlugIn, Box, Device, StreamOutput} \cup RoutedControls = Routed
  /\ PlugIn # Box /\ PlugIn # Device /\ PlugIn # StreamOutput
  /\ Box # Device /\ Box # StreamOutput /\ Device # StreamOutput
  /\ \A o \in RoutedControls :
       /\ o \notin {PlugIn, Box, Device, StreamOutput}
       /\ o \notin Selectors
       /\ (o \in Volumes /\ o \notin Mutes) \/ (o \in Mutes /\ o \notin Volumes)
  BY DEF Routed, RoutedControls, PlugIn, Box, Device, StreamOutput, VolumeOutput, MuteOutput,
         Volumes, Mutes, Selectors, VolumeInput, MuteInput, DataSourceInput, DataSourceOutput,
         PlayThru

LEMMA OwnerIs ==
  /\ Owner(PlugIn) = UnknownObject
  /\ Owner(Box) = PlugIn /\ Owner(Device) = PlugIn
  /\ Owner(StreamOutput) = Device
  /\ \A o \in RoutedControls : Owner(o) = Device
<1> DEFINE a == Address("Owner", "Global", "other")
<1>1. a.selector = "Owner"
  BY AddressIs
<1>2. \A o : Owner(o) = GetPropertyData(o, a, Word, TRUE).objects[1]
  BY DEF Owner
<1> HIDE DEF a
<1>3. GetPropertyData(PlugIn, a, Word, TRUE) = ObjectValue(Word, UnknownObject)
  <2>1. GetPropertyData(PlugIn, a, Word, TRUE) = GetPlugInPropertyData(a, Word, TRUE)
    BY ObjectNumbers DEF GetPropertyData
  <2> QED BY <1>1, <2>1 DEF GetPlugInPropertyData
<1>4. GetPropertyData(Box, a, Word, TRUE) = ObjectValue(Word, PlugIn)
  <2>1. GetPropertyData(Box, a, Word, TRUE) = GetBoxPropertyData(a.selector, Word, TRUE)
    BY ObjectNumbers DEF GetPropertyData
  <2> QED BY <1>1, <2>1 DEF GetBoxPropertyData
<1>5. GetPropertyData(Device, a, Word, TRUE) = ObjectValue(Word, PlugIn)
  <2>1. GetPropertyData(Device, a, Word, TRUE) = GetDevicePropertyData(a, Word)
    BY ObjectNumbers DEF GetPropertyData
  <2> QED BY <1>1, <2>1 DEF GetDevicePropertyData, DeviceDescription
<1>6. GetPropertyData(StreamOutput, a, Word, TRUE) = ObjectValue(Word, Device)
  <2>1. GetPropertyData(StreamOutput, a, Word, TRUE) = GetStreamPropertyData(a.selector, Word)
    BY ObjectNumbers DEF GetPropertyData
  <2> QED BY <1>1, <2>1 DEF GetStreamPropertyData
<1>7. ASSUME NEW o \in RoutedControls
      PROVE  GetPropertyData(o, a, Word, TRUE) = ObjectValue(Word, Device)
  <2>1. GetPropertyData(o, a, Word, TRUE) = GetControlPropertyData(o, "Owner", Word)
    BY <1>1, ObjectNumbers DEF GetPropertyData
  <2>2. GetControlPropertyData(o, "Owner", Word) = ControlData("Owner", Word)
    BY ObjectNumbers DEF GetControlPropertyData, VolumeData, MuteData, ControlCommon
  <2> QED BY <2>1, <2>2 DEF ControlData
<1>8. \A o : ObjectValue(Word, o).objects[1] = o
  BY ReplyObjects
<1> QED BY <1>2, <1>3, <1>4, <1>5, <1>6, <1>7, <1>8

LEMMA PlugInListed ==
  ASSUME NEW scope, NEW acquired \in BOOLEAN
  PROVE  /\ Listed(PlugIn, "OwnedObjects", scope, acquired)
              = IF acquired THEN {Device, Unwritten} ELSE {Box}
         /\ Listed(PlugIn, "DeviceList", scope, acquired) = IF acquired THEN {Device} ELSE {}
         /\ Listed(PlugIn, "BoxList", scope, acquired) = {Box}
<1> USE DEF Word
<1>1. ASSUME NEW s
      PROVE  Listed(PlugIn, s, scope, acquired)
               = Items(GetPlugInPropertyData(Address(s, scope, "other"),
                         GetPlugInPropertyDataSize(s, acquired), acquired).objects)
  <2> DEFINE a == Address(s, scope, "other")
  <2>1. a.selector = s
    BY AddressIs
  <2>2. Listed(PlugIn, s, scope, acquired)
          = Items(GetPropertyData(PlugIn, a, GetPropertyDataSize(PlugIn, a, acquired),
            acquired).objects)
    BY ListedIs
  <2> HIDE DEF a
  <2>3. \A n : GetPropertyData(PlugIn, a, n, acquired) = GetPlugInPropertyData(a, n, acquired)
    BY ObjectNumbers DEF GetPropertyData
  <2>4. GetPropertyDataSize(PlugIn, a, acquired) = GetPlugInPropertyDataSize(s, acquired)
    BY <2>1, ObjectNumbers DEF GetPropertyDataSize
  <2> QED BY <2>2, <2>3, <2>4 DEF a
<1>2. ASSUME NEW s
      PROVE  Address(s, scope, "other").selector = s
  BY AddressIs
<1>3. Fitting(4, 1) = 1 /\ Fitting(8, 2) = 2
  BY DEF Fitting
<1>4. Listed(PlugIn, "OwnedObjects", scope, acquired)
        = IF acquired THEN {Device, Unwritten} ELSE {Box}
  <2>1. GetPlugInPropertyDataSize("OwnedObjects", acquired) = IF acquired THEN 8 ELSE 4
    BY DEF GetPlugInPropertyDataSize
  <2>2. GetPlugInPropertyData(Address("OwnedObjects", scope, "other"),
          IF acquired THEN 8 ELSE 4, acquired).objects
          = IF acquired THEN <<Device, Unwritten>> ELSE <<Box>>
    BY <1>2, <1>3, ReplyObjects DEF GetPlugInPropertyData, PlugInOwnedObjects
  <2> QED BY <1>1, <2>1, <2>2, ItemsOf
<1>5. Listed(PlugIn, "DeviceList", scope, acquired) = IF acquired THEN {Device} ELSE {}
  <2>1. GetPlugInPropertyDataSize("DeviceList", acquired) = IF acquired THEN 4 ELSE 0
    BY DEF GetPlugInPropertyDataSize
  <2>2. \A n : GetPlugInPropertyData(Address("DeviceList", scope, "other"), n, acquired)
                 = ObjectList(n, Device, IF acquired THEN 1 ELSE 0)
    BY <1>2 DEF GetPlugInPropertyData, PlugInLists
  <2>3. Device \in Int
    BY DEF Device
  <2>4. Listed(PlugIn, "DeviceList", scope, acquired)
          = Items(ObjectList(IF acquired THEN 4 ELSE 0, Device,
                             IF acquired THEN 1 ELSE 0).objects)
    BY <1>1, <2>1, <2>2
  <2> QED BY <2>3, <2>4, ShortLists
<1>6. Listed(PlugIn, "BoxList", scope, acquired) = {Box}
  <2>1. GetPlugInPropertyDataSize("BoxList", acquired) = 4
    BY DEF GetPlugInPropertyDataSize
  <2>2. \A n : GetPlugInPropertyData(Address("BoxList", scope, "other"), n, acquired)
                 = ObjectList(n, Box, 1)
    BY <1>2 DEF GetPlugInPropertyData, PlugInLists
  <2>3. Box \in Int
    BY DEF Box
  <2> QED BY <1>1, <2>1, <2>2, <2>3, ShortLists
<1> QED BY <1>4, <1>5, <1>6

LEMMA BoxListed ==
  ASSUME NEW scope, NEW acquired \in BOOLEAN
  PROVE  /\ Listed(Box, "OwnedObjects", scope, acquired) = {}
         /\ Listed(Box, "BoxDeviceList", scope, acquired) = IF acquired THEN {Device} ELSE {}
<1>1. ASSUME NEW s
      PROVE  Listed(Box, s, scope, acquired)
               = Items(GetBoxPropertyData(s, GetBoxPropertyDataSize(s, acquired), acquired).objects)
  <2> DEFINE a == Address(s, scope, "other")
  <2>1. a.selector = s
    BY AddressIs
  <2>2. Listed(Box, s, scope, acquired)
          = Items(GetPropertyData(Box, a, GetPropertyDataSize(Box, a, acquired), acquired).objects)
    BY ListedIs
  <2> HIDE DEF a
  <2>3. \A n : GetPropertyData(Box, a, n, acquired) = GetBoxPropertyData(s, n, acquired)
    BY <2>1, ObjectNumbers DEF GetPropertyData
  <2>4. GetPropertyDataSize(Box, a, acquired) = GetBoxPropertyDataSize(s, acquired)
    BY <2>1, ObjectNumbers DEF GetPropertyDataSize
  <2> QED BY <2>2, <2>3, <2>4
<1>2. \A n : GetBoxPropertyData("OwnedObjects", n, acquired).objects = <<>>
  BY ReplyObjects DEF GetBoxPropertyData
<1>3. GetBoxPropertyDataSize("BoxDeviceList", acquired) = IF acquired THEN Word ELSE 0
  BY DEF GetBoxPropertyDataSize
<1>4. \A n : GetBoxPropertyData("BoxDeviceList", n, acquired) = BoxDeviceList(n, acquired)
  BY DEF GetBoxPropertyData
<1>5. BoxDeviceList(IF acquired THEN Word ELSE 0, acquired).objects
        = IF acquired THEN <<Device>> ELSE <<>>
  BY ReplyObjects DEF BoxDeviceList
<1> QED BY <1>1, <1>2, <1>3, <1>4, <1>5, ItemsOf

LEMMA DeviceListed ==
  ASSUME NEW scope, NEW acquired \in BOOLEAN
  PROVE  /\ Listed(Device, "OwnedObjects", scope, acquired)
              = IF scope = "Input" THEN {} ELSE {StreamOutput, VolumeOutput, MuteOutput}
         /\ Listed(Device, "Streams", scope, acquired)
              = IF scope = "Input" THEN {} ELSE {StreamOutput}
         /\ Listed(Device, "ControlList", scope, acquired) = {VolumeOutput, MuteOutput}
<1> USE DEF Word
<1>2. ASSUME NEW s
      PROVE  Address(s, scope, "other").selector = s /\ Address(s, scope, "other").scope = scope
  BY AddressIs
<1>1. ASSUME NEW s
      PROVE  LET a == Address(s, scope, "other")
             IN  Listed(Device, s, scope, acquired)
                   = Items(GetDevicePropertyData(a, GetDevicePropertyDataSize(a)).objects)
  <2> DEFINE a == Address(s, scope, "other")
  <2>1. Listed(Device, s, scope, acquired)
          = Items(GetPropertyData(Device, a, GetPropertyDataSize(Device, a, acquired),
            acquired).objects)
    BY ListedIs
  <2> HIDE DEF a
  <2>2. \A n : GetPropertyData(Device, a, n, acquired) = GetDevicePropertyData(a, n)
    BY ObjectNumbers DEF GetPropertyData
  <2>3. GetPropertyDataSize(Device, a, acquired) = GetDevicePropertyDataSize(a)
    BY ObjectNumbers DEF GetPropertyDataSize
  <2> QED BY <2>1, <2>2, <2>3 DEF a
<1>3. StreamOutput \in Int /\ VolumeOutput \in Int
  BY DEF StreamOutput, VolumeOutput
<1>4. Listed(Device, "OwnedObjects", scope, acquired)
        = IF scope = "Input" THEN {} ELSE {StreamOutput, VolumeOutput, MuteOutput}
  <2> DEFINE a == Address("OwnedObjects", scope, "other")
  <2>1. GetDevicePropertyDataSize(a) = IF scope = "Input" THEN 0 ELSE 12
    BY <1>2 DEF GetDevicePropertyDataSize, OnOutput
  <2>2. \A n : GetDevicePropertyData(a, n)
                 = ObjectList(n, StreamOutput, IF scope = "Input" THEN 0 ELSE 3)
    BY <1>2 DEF GetDevicePropertyData, DeviceOwnedObjects
  <2> HIDE DEF a
  <2>3. Listed(Device, "OwnedObjects", scope, acquired)
          = Items(GetDevicePropertyData(a, GetDevicePropertyDataSize(a)).objects)
    BY <1>1 DEF a
  <2>4. StreamOutput + 1 = VolumeOutput /\ StreamOutput + 2 = MuteOutput
    BY DEF StreamOutput, VolumeOutput, MuteOutput
  <2>5. CASE scope = "Input"
    BY <1>3, <2>1, <2>2, <2>3, <2>5, ShortLists
  <2>6. CASE scope # "Input"
    BY <1>3, <2>1, <2>2, <2>3, <2>4, <2>6, ShortLists
  <2> QED BY <2>5, <2>6
<1>5. Listed(Device, "Streams", scope, acquired)
        = IF scope = "Input" THEN {} ELSE {StreamOutput}
  <2> DEFINE a == Address("Streams", scope, "other")
  <2>1. GetDevicePropertyDataSize(a) = IF scope = "Input" THEN 0 ELSE 4
    BY <1>2 DEF GetDevicePropertyDataSize, OnOutput
  <2>2. \A n : GetDevicePropertyData(a, n)
                 = ObjectList(n, StreamOutput, IF scope = "Input" THEN 0 ELSE 1)
    BY <1>2 DEF GetDevicePropertyData, DeviceStreams
  <2> HIDE DEF a
  <2>3. Listed(Device, "Streams", scope, acquired)
          = Items(GetDevicePropertyData(a, GetDevicePropertyDataSize(a)).objects)
    BY <1>1 DEF a
  <2> QED BY <1>3, <2>1, <2>2, <2>3, ShortLists
<1>6. Listed(Device, "ControlList", scope, acquired) = {VolumeOutput, MuteOutput}
  <2> DEFINE a == Address("ControlList", scope, "other")
  <2>1. GetDevicePropertyDataSize(a) = 8
    BY <1>2 DEF GetDevicePropertyDataSize
  <2>2. \A n : GetDevicePropertyData(a, n) = ObjectList(n, VolumeOutput, 2)
    BY <1>2 DEF GetDevicePropertyData, DeviceControls
  <2> HIDE DEF a
  <2>3. Listed(Device, "ControlList", scope, acquired)
          = Items(GetDevicePropertyData(a, GetDevicePropertyDataSize(a)).objects)
    BY <1>1 DEF a
  <2>4. VolumeOutput + 1 = MuteOutput
    BY DEF VolumeOutput, MuteOutput
  <2> QED BY <1>3, <2>1, <2>2, <2>3, <2>4, ShortLists
<1> QED BY <1>4, <1>5, <1>6

LEMMA LeafListed ==
  ASSUME NEW o \in {StreamOutput} \cup RoutedControls, NEW scope, NEW acquired \in BOOLEAN
  PROVE  Listed(o, "OwnedObjects", scope, acquired) = {}
<1> DEFINE a == Address("OwnedObjects", scope, "other")
<1>1. a.selector = "OwnedObjects"
  BY AddressIs
<1>a. Listed(o, "OwnedObjects", scope, acquired)
        = Items(GetPropertyData(o, a, GetPropertyDataSize(o, a, acquired), acquired).objects)
  BY ListedIs
<1> HIDE DEF a
<1>2. \A n : GetPropertyData(o, a, n, acquired).objects = <<>>
  <2> SUFFICES ASSUME NEW n
               PROVE  GetPropertyData(o, a, n, acquired).objects = <<>>
    OBVIOUS
  <2>1. CASE o = StreamOutput
    <3>1. GetPropertyData(o, a, n, acquired) = GetStreamPropertyData("OwnedObjects", n)
      BY <1>1, <2>1, ObjectNumbers DEF GetPropertyData
    <3> QED BY <3>1, ReplyObjects DEF GetStreamPropertyData
  <2>2. CASE o \in RoutedControls
    <3>1. GetPropertyData(o, a, n, acquired) = GetControlPropertyData(o, "OwnedObjects", n)
      BY <1>1, <2>2, ObjectNumbers DEF GetPropertyData
    <3>2. GetControlPropertyData(o, "OwnedObjects", n) = ControlData("OwnedObjects", n)
      BY <2>2, ObjectNumbers DEF GetControlPropertyData, VolumeData, MuteData, ControlCommon
    <3> QED BY <3>1, <3>2, ReplyObjects DEF ControlData
  <2> QED BY <2>1, <2>2
<1> QED BY <1>a, <1>2, ItemsOf

LEMMA ObjectsAlwaysFit == \A acquired \in BOOLEAN : ObjectsFit[acquired]
<1> SUFFICES ASSUME NEW acquired \in BOOLEAN
             PROVE  ObjectsFit[acquired]
  OBVIOUS
<1>1. ASSUME NEW o \in Routed, NEW scope \in {"Global", "Output"}
      PROVE  LET owned == Listed(o, "OwnedObjects", scope, acquired)
             IN IF <<o, acquired>> \in IncompleteList
                THEN owned = {Device, Unwritten}
                ELSE owned = {child \in Routed : /\ Owner(child) = o
                                                 /\ child = Device => acquired}
  <2> DEFINE theirs == {child \in Routed : Owner(child) = o /\ (child = Device => acquired)}
  <2> USE DEF Routed, RoutedControls, PlugIn, Box, Device, StreamOutput, VolumeOutput,
              MuteOutput, UnknownObject
  <2>1. CASE o = PlugIn /\ acquired
    BY <2>1, PlugInListed DEF IncompleteList
  <2>2. CASE o = PlugIn /\ ~acquired
    <3>1. theirs = {Box}
      BY <2>2, OwnerIs
    <3>2. <<o, acquired>> \notin IncompleteList
      BY <2>2 DEF IncompleteList
    <3> QED BY <2>2, <3>1, <3>2, PlugInListed
  <2>3. CASE o = Box
    <3>1. theirs = {}
      BY <2>3, OwnerIs
    <3>2. <<o, acquired>> \notin IncompleteList
      BY <2>3 DEF IncompleteList
    <3> QED BY <2>3, <3>1, <3>2, BoxListed
  <2>4. CASE o = Device
    <3>1. theirs = {StreamOutput, VolumeOutput, MuteOutput}
      BY <2>4, OwnerIs
    <3>2. <<o, acquired>> \notin IncompleteList
      BY <2>4 DEF IncompleteList
    <3>3. Listed(o, "OwnedObjects", scope, acquired) = {StreamOutput, VolumeOutput, MuteOutput}
      BY <2>4, DeviceListed
    <3> QED BY <3>1, <3>2, <3>3
  <2>5. CASE o \in {StreamOutput} \cup RoutedControls
    <3>1. theirs = {}
      BY <2>5, OwnerIs
    <3>2. <<o, acquired>> \notin IncompleteList
      <4>1. o # PlugIn
        BY <2>5
      <4> QED BY <4>1 DEF IncompleteList
    <3> QED BY <2>5, <3>1, <3>2, LeafListed
  <2> QED BY <2>1, <2>2, <2>3, <2>4, <2>5
<1>2. OwnersListTheirs(acquired)
  BY <1>1 DEF OwnersListTheirs
<1>3. DeviceListsAgree
  <2>1. \A o \in {VolumeOutput, MuteOutput} : ControlScope(o) = "Output"
    BY DEF ControlScope, VolumeInput, VolumeOutput, MuteInput, MuteOutput, DataSourceInput,
           DataSourceOutput
  <2> QED BY <2>1, DeviceListed DEF DeviceListsAgree
<1>4. PlugInAgreesWithBox(acquired)
  <2>1. ASSUME NEW s \in {"TranslateUIDToBox", "TranslateUIDToDevice"},
               NEW uid \in {"box", "device", "other"}
        PROVE  GetPropertyData(PlugIn, Address(s, "Global", uid), Word, acquired).objects[1]
                 \in {UnknownObject, Box, Device}
    <3> DEFINE a == Address(s, "Global", uid)
    <3>1. a.selector = s
      BY AddressIs
    <3> HIDE DEF a
    <3>2. GetPropertyData(PlugIn, a, Word, acquired) = PlugInLists(a, Word, acquired)
      <4>1. GetPropertyData(PlugIn, a, Word, acquired) = GetPlugInPropertyData(a, Word, acquired)
        BY ObjectNumbers DEF GetPropertyData
      <4> QED BY <3>1, <4>1 DEF GetPlugInPropertyData
    <3>3. \E o \in {UnknownObject, Box, Device} :
            PlugInLists(a, Word, acquired) = ObjectValue(Word, o)
      BY <3>1 DEF PlugInLists
    <3> QED BY <3>2, <3>3, ReplyObjects DEF a
  <2> QED BY <2>1, PlugInListed, BoxListed DEF PlugInAgreesWithBox
<1> QED BY <1>2, <1>3, <1>4 DEF ObjectsFit

-----------------------------------------------------------------------------
(* The switch families in every state                                      *)

\* In every reachable state, whether the box is acquired or not, the five switch families
\* say the same of every address (HasProperty, IsPropertySettable, GetPropertyDataSize,
\* GetPropertyData and SetPropertyData).
THEOREM SwitchesAlwaysAgree == Spec => []TablesAgree
<1>1. IInv => TablesAgree
  BY TablesAlwaysFit DEF IInv, DriverInv, TypeOK, TablesAgree
<1> QED BY <1>1, Inductive, PTL

\* In every reachable state the objects form one tree, in which the owners and the lists of
\* the plug-in, the box and the device name one another.
THEOREM ObjectsAlwaysOwnEachOther == Spec => []ObjectsOwnEachOther
<1>1. IInv => ObjectsOwnEachOther
  BY ObjectsAlwaysFit DEF IInv, DriverInv, TypeOK, ObjectsOwnEachOther
<1> QED BY <1>1, Inductive, PTL

=============================================================================
