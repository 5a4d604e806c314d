----------------------- MODULE AdaptivePlaybackBuffer -----------------------
(***************************************************************************)
(* The iPhone's playback buffer (HushPortCore/AdaptivePlaybackBuffer.swift) *)
(* behind the network and in front of the audio engine: ingest is called   *)
(* for every received datagram (ReceiverModel.handleIncomingPacket),       *)
(* popReadyPayload by the playback pump (ReceiverModel.drainReadyPayloads), *)
(* reset when the receiver starts or stops listening.  All of them run on  *)
(* the main actor, so each call is one action.                             *)
(*                                                                         *)
(* The environment is a Mac whose stream sessions number their packets     *)
(* from 0, and a UDP path that loses, repeats and reorders them: any       *)
(* packet among the last Window of a session may arrive at any time, any   *)
(* number of times, or never.                                              *)
(*                                                                         *)
(* Times are ages in ticks: stalledFor is now - stalledSince, backlogFor   *)
(* is now - sustainedHighQueueSince, each saturating at the timeout it is  *)
(* compared with; NoTime stands for nil.  gapSkips, latencyTrims and       *)
(* lastTrimAt are write-only statistics and are left out.                  *)
(***************************************************************************)
EXTENDS JitterBuffer

CONSTANTS Prebuffer,      \* prebufferPackets, 8 .. 20
          MaxLatency,     \* maximumPlaybackLatencyPackets, 28
          MaxConceal,     \* maxConcealmentPacketsPerGap, 3
          MaxStepGap,     \* the widest gap stepped over one number at a time, 4
          GapTimeout,     \* gapTimeoutNanoseconds, 30 ms
          TrimAfter,      \* sustainedBacklogTrimNanoseconds, 3 s
          MaxSessions,    \* bound: stream sessions the Mac starts
          MaxSent,        \* bound: packets the Mac sends in one session
          Window          \* bound: how many packets back one may still arrive

ASSUME PlaybackAssumption ==
  /\ {Prebuffer, MaxLatency, MaxSessions} \subseteq Nat \ {0}
  /\ {MaxConceal, MaxStepGap, GapTimeout, TrimAfter, MaxSent, Window} \subseteq Nat
  /\ MaxLatency > 1
  /\ MaxLatency <= Capacity

VARIABLES jb,                     \* jitterBuffer
          ingestedPackets,        \* saturates at Prebuffer, its only use
          isPrimed,
          stalledFor,             \* age of stalledSince
          backlogFor,             \* age of sustainedHighQueueSince
          lastPayload,            \* the last packet played
          concealmentUses,        \* concealmentUsesForCurrentGap
          lastPopWasConcealment,
          queuedPackets,
          session,                \* the Mac's current stream session
          sent                    \* packets sent in each session

bufferVars == <<jb, ingestedPackets, isPrimed, stalledFor, backlogFor, lastPayload,
                concealmentUses, lastPopWasConcealment, queuedPackets>>
macVars == <<session, sent>>
vars == <<bufferVars, macVars>>

Session == 1 .. MaxSessions
NoTime == -1
NoPayload == [session |-> 0, seq |-> NoSeq]
Payload == [session : Session, seq : SeqNum]

AtMost(n, limit) == IF n < limit THEN n ELSE limit

TypeOK ==
  /\ Keys(jb) \subseteq SeqNum
  /\ jb = [packets |-> jb.packets, next |-> jb.next]
  /\ jb.packets \in [Keys(jb) -> Session]
  /\ jb.next \in SeqNum \cup {NoSeq}
  /\ ingestedPackets \in 0 .. Prebuffer
  /\ isPrimed \in BOOLEAN
  /\ stalledFor \in {NoTime} \cup 0 .. GapTimeout
  /\ backlogFor \in {NoTime} \cup 0 .. TrimAfter
  /\ lastPayload \in Payload \cup {NoPayload}
  /\ concealmentUses \in 0 .. MaxConceal
  /\ lastPopWasConcealment \in BOOLEAN
  /\ queuedPackets \in Nat
  /\ session \in Session
  /\ sent \in [Session -> 0 .. MaxSent]

InitBuffer == /\ jb = EmptyBuffer
              /\ ingestedPackets = 0
              /\ isPrimed = FALSE
              /\ stalledFor = NoTime
              /\ backlogFor = NoTime
              /\ lastPayload = NoPayload
              /\ concealmentUses = 0
              /\ lastPopWasConcealment = FALSE
              /\ queuedPackets = 0

Init == /\ InitBuffer
        /\ session = 1
        /\ sent = [s \in Session |-> 0]

-----------------------------------------------------------------------------
(* The Mac and the network                                                 *)

\* The send loop emits the next packet of the session (sequence &+= 1).
Send == /\ sent[session] < MaxSent
        /\ sent' = [sent EXCEPT ![session] = @ + 1]
        /\ UNCHANGED <<bufferVars, session>>

\* startStreaming: a new session numbers its packets from 0 again.
RestartStream == /\ session < MaxSessions
                 /\ session' = session + 1
                 /\ UNCHANGED <<bufferVars, sent>>

\* The packets of session s that may still be delivered.
InFlight(s) == {n \in 0 .. MaxSent : n < sent[s] /\ n >= sent[s] - Window}

-----------------------------------------------------------------------------
(* ingest                                                                  *)

\* Mutant of TrimExcessLatencyIfNeeded: the trim clock starts one packet too late.
TrimExcessLatencyLate(inserted) ==
  \/ /\ Count(inserted) <= MaxLatency + 1
     /\ jb' = inserted
     /\ backlogFor' = NoTime
  \/ /\ Count(inserted) > MaxLatency + 1
     /\ jb' = inserted
     /\ backlogFor' = 0

\* trimExcessLatencyIfNeeded on the buffer as it is after the insertion.
TrimExcessLatencyIfNeeded(inserted) ==
  \/ /\ Count(inserted) <= MaxLatency
     /\ jb' = inserted
     /\ backlogFor' = NoTime
  \/ /\ Count(inserted) > MaxLatency
     /\ backlogFor = NoTime
     /\ jb' = inserted
     /\ backlogFor' = 0
  \/ /\ Count(inserted) > MaxLatency
     /\ backlogFor # NoTime
     /\ backlogFor < TrimAfter
     /\ jb' = inserted
     /\ UNCHANGED backlogFor
  \/ /\ Count(inserted) > MaxLatency
     /\ backlogFor = TrimAfter
     /\ jb' = TrimToMaximumPacketCount(inserted, MaxLatency - 1)
     /\ backlogFor' = 0

\* Packets that insert rejects count towards the prebuffer like the others.
Ingest(s, n) ==
  /\ n \in InFlight(s)
  /\ ingestedPackets' = AtMost(ingestedPackets + 1, Prebuffer)
  /\ isPrimed' = (isPrimed \/ ingestedPackets' >= Prebuffer)
  /\ TrimExcessLatencyIfNeeded(Insert(jb, n % SeqMod, s))
  /\ queuedPackets' = Count(jb')
  /\ UNCHANGED <<stalledFor, lastPayload, concealmentUses, lastPopWasConcealment, macVars>>

-----------------------------------------------------------------------------
(* popReadyPayload, one action per way through it                          *)

\* Take the next packet out of buf and play it.
PlayNextOf(buf) ==
  /\ jb' = PopNext(buf)
  /\ lastPayload' = [session |-> buf.packets[buf.next], seq |-> buf.next]
  /\ stalledFor' = NoTime
  /\ concealmentUses' = 0

PopUnprimed == /\ ~isPrimed
               /\ lastPopWasConcealment' = FALSE
               /\ UNCHANGED <<jb, stalledFor, lastPayload, concealmentUses>>

PopFresh == /\ isPrimed
            /\ HasNext(jb)
            /\ PlayNextOf(jb)
            /\ lastPopWasConcealment' = FALSE

PopEmpty == /\ isPrimed
            /\ ~HasNext(jb)
            /\ ~IsStalled(jb)
            /\ stalledFor' = NoTime
            /\ lastPopWasConcealment' = FALSE
            /\ UNCHANGED <<jb, lastPayload, concealmentUses>>

PopStartStall == /\ isPrimed
                 /\ IsStalled(jb)
                 /\ stalledFor = NoTime
                 /\ stalledFor' = 0
                 /\ lastPopWasConcealment' = FALSE
                 /\ UNCHANGED <<jb, lastPayload, concealmentUses>>

PopWaitStall == /\ isPrimed
                /\ IsStalled(jb)
                /\ stalledFor # NoTime
                /\ stalledFor < GapTimeout
                /\ lastPopWasConcealment' = FALSE
                /\ UNCHANGED <<jb, stalledFor, lastPayload, concealmentUses>>

GapTimedOut == isPrimed /\ IsStalled(jb) /\ stalledFor = GapTimeout
CanConceal == lastPayload # NoPayload /\ concealmentUses < MaxConceal

\* Mutant of PopConcealment: repeats are not counted.
PopConcealmentUncounted == /\ GapTimedOut
                           /\ CanConceal
                           /\ lastPopWasConcealment' = TRUE
                           /\ stalledFor' = 0
                           /\ UNCHANGED <<jb, lastPayload, concealmentUses>>

\* Repeat the last packet played and wait for another timeout.
PopConcealment == /\ GapTimedOut
                  /\ CanConceal
                  /\ concealmentUses' = concealmentUses + 1
                  /\ lastPopWasConcealment' = TRUE
                  /\ stalledFor' = 0
                  /\ UNCHANGED <<jb, lastPayload>>

\* Give the missing packet up, or a wide gap as a whole, and pop again: the
\* packet after it is played, or the stall clock starts for the next missing one.
Skipped(buf) == IF GapUntilNextAvailable(buf) > MaxStepGap
                  THEN SkipToNextAvailable(buf)
                  ELSE SkipMissingPacket(buf)

PopSkip ==
  /\ GapTimedOut
  /\ ~CanConceal
  /\ lastPopWasConcealment' = FALSE
  /\ \/ /\ HasNext(Skipped(jb))
        /\ PlayNextOf(Skipped(jb))
     \/ /\ ~HasNext(Skipped(jb))
        /\ jb' = Skipped(jb)
        /\ stalledFor' = 0
        /\ concealmentUses' = 0
        /\ UNCHANGED lastPayload

PopReadyPayload ==
  /\ \/ PopUnprimed
     \/ PopFresh
     \/ PopEmpty
     \/ PopStartStall
     \/ PopWaitStall
     \/ PopConcealment
     \/ PopSkip
  /\ queuedPackets' = Count(jb')
  /\ UNCHANGED <<ingestedPackets, isPrimed, backlogFor, macVars>>

-----------------------------------------------------------------------------
(* reset, when the receiver starts or stops listening                      *)

\* Mutant of Reset: the payload to conceal with survives.
ResetKeepsPayload == /\ jb' = EmptyBuffer
                     /\ ingestedPackets' = 0
                     /\ isPrimed' = FALSE
                     /\ stalledFor' = NoTime
                     /\ backlogFor' = NoTime
                     /\ concealmentUses' = 0
                     /\ lastPopWasConcealment' = FALSE
                     /\ queuedPackets' = 0
                     /\ UNCHANGED <<lastPayload, macVars>>

Reset == /\ jb' = EmptyBuffer
         /\ ingestedPackets' = 0
         /\ isPrimed' = FALSE
         /\ stalledFor' = NoTime
         /\ backlogFor' = NoTime
         /\ lastPayload' = NoPayload
         /\ concealmentUses' = 0
         /\ lastPopWasConcealment' = FALSE
         /\ queuedPackets' = 0
         /\ UNCHANGED macVars

\* The clock advances.
Older(age, limit) == IF age = NoTime THEN NoTime ELSE AtMost(age + 1, limit)
Tick == /\ stalledFor' = Older(stalledFor, GapTimeout)
        /\ backlogFor' = Older(backlogFor, TrimAfter)
        /\ UNCHANGED <<jb, ingestedPackets, isPrimed, lastPayload, concealmentUses,
                       lastPopWasConcealment, queuedPackets, macVars>>

Next == \/ Send
        \/ RestartStream
        \/ \E s \in Session, n \in 0 .. MaxSent : Ingest(s, n)
        \/ PopReadyPayload
        \/ Reset
        \/ Tick

\* The playback pump calls popReadyPayload every millisecond while the receiver
\* listens, and time passes.  Nothing obliges the Mac or the network to anything.
Fairness == WF_vars(PopReadyPayload) /\ WF_vars(Tick)

Spec == Init /\ [][Next]_vars /\ Fairness

-----------------------------------------------------------------------------
(* Properties                                                              *)

\* The dictionary never holds a packet below the play position, never more than
\* Capacity packets, and the depth shown to the rest of the receiver is its real
\* one: insert's plain "<", the overflow loop and the three ways of skipping agree,
\* also when the sequence numbers wrap.
BufferWindow == /\ \A k \in Keys(jb) : jb.next # NoSeq /\ jb.next <= k
                /\ Count(jb) <= Capacity
                /\ queuedPackets = Count(jb)

\* Until the prebuffer is reached nothing of an earlier run is left: no payload to
\* conceal with, no stall clock, and no packet that was not counted (reset).
FreshUntilPrimed == ~isPrimed => /\ ingestedPackets < Prebuffer
                                 /\ Count(jb) <= ingestedPackets
                                 /\ lastPayload = NoPayload
                                 /\ concealmentUses = 0
                                 /\ stalledFor = NoTime

\* A queue above the latency limit is always on the clock that will trim it
\* (trimExcessLatencyIfNeeded runs on ingest only, pops go on in between).
BacklogIsTimed == Count(jb) > MaxLatency => backlogFor # NoTime

\* Audio is played in sequence order and no packet twice, whatever the network
\* repeats or reorders and whatever is trimmed or skipped, as long as the sequence
\* numbers have not wrapped (a pop removes a packet exactly when it plays one).
PlayedInOrder ==
  [][(/\ PopReadyPayload
      /\ Count(jb') < Count(jb)
      /\ lastPayload # NoPayload
      /\ \A s \in Session : sent[s] < SeqMod)
     => lastPayload.seq < lastPayload'.seq]_vars

\* Once playing, every buffered packet leaves the buffer: no loss pattern leaves
\* the stall clock and the concealment counter in a state that holds the queue.
NoPacketStuck == \A s \in SeqNum : (isPrimed /\ s \in Keys(jb)) ~> (s \notin Keys(jb))

\* A packet of the Mac's running session is never rejected as older than what was
\* played of an earlier session.
RestartedStreamIsHeard ==
  [][\A n \in 0 .. MaxSent :
       (/\ Ingest(session, n)
        /\ lastPayload # NoPayload
        /\ lastPayload.session # session)
       => InsertResult(jb, n % SeqMod) # "tooLate"]_vars

=============================================================================
