-------------------- MODULE AdaptivePlaybackBufferProofs --------------------
(***************************************************************************)
(* The safety properties of AdaptivePlaybackBuffer for every modulus,      *)
(* capacity, prebuffer, limit and timeout.                                 *)
(*                                                                         *)
(* The inductive invariant adds two facts to the properties: no buffered   *)
(* packet lies below the play position (IsBuffer), and, until the numbers  *)
(* wrap, the last packet played does (PlayPosition).  First come the       *)
(* lemmas about what each operation of JitterBuffer preserves.             *)
(***************************************************************************)
EXTENDS AdaptivePlaybackBuffer, FiniteSetTheorems, WellFoundedInduction, TLAPS

\* A buffer whose packets, sent by the sessions S, all lie at or above next.
IsBuffer(buf, S) ==
  /\ buf = [packets |-> buf.packets, next |-> buf.next]
  /\ Keys(buf) \subseteq SeqNum
  /\ buf.packets \in [Keys(buf) -> S]
  /\ buf.next \in SeqNum \cup {NoSeq}
  /\ \A k \in Keys(buf) : buf.next # NoSeq /\ buf.next <= k

-----------------------------------------------------------------------------
(* The lowest and the highest of a set of sequence numbers                 *)

LEMMA NatMin ==
  ASSUME NEW T \in SUBSET Nat, T # {}
  PROVE  \E m \in T : \A x \in T : m <= x
<1>1. \E m \in T : \A x \in T : <<x, m>> \notin OpToRel(<, Nat)
  BY NatLessThanWellFounded, WFMin
<1>2. PICK m \in T : \A x \in T : <<x, m>> \notin OpToRel(<, Nat)
  BY <1>1
<1>3. \A x \in T : ~ (x < m)
  BY <1>2 DEF OpToRel
<1> QED BY <1>3

LEMMA MinIsLowest ==
  ASSUME NEW T \in SUBSET SeqNum, T # {}
  PROVE  Min(T) \in T /\ \A x \in T : Min(T) <= x
<1>1. T \in SUBSET Nat
  BY JitterAssumption DEF SeqNum
<1>2. \E m \in T : \A x \in T : m <= x
  BY <1>1, NatMin
<1> QED BY <1>2 DEF Min

LEMMA MaxIsHighest ==
  ASSUME NEW T \in SUBSET SeqNum, T # {}
  PROVE  Max(T) \in T /\ \A x \in T : Max(T) >= x
<1> DEFINE Mirror == {SeqMod - x : x \in T}
<1>1. Mirror \in SUBSET Nat /\ Mirror # {}
  <2>1. \A x \in T : SeqMod - x \in Nat
    BY JitterAssumption DEF SeqNum
  <2>2. PICK x \in T : TRUE
    OBVIOUS
  <2>3. SeqMod - x \in Mirror
    OBVIOUS
  <2> QED BY <2>1, <2>3
<1>2. PICK m \in Mirror : \A y \in Mirror : m <= y
  BY <1>1, NatMin
<1>3. PICK h \in T : m = SeqMod - h
  BY <1>2
<1>4. \A x \in T : h >= x
  <2> TAKE x \in T
  <2>1. SeqMod - h <= SeqMod - x
    BY <1>2, <1>3
  <2> QED BY <2>1, JitterAssumption DEF SeqNum
<1> QED BY <1>4 DEF Max

LEMMA SeqNumFinite ==
  ASSUME NEW T \in SUBSET SeqNum
  PROVE  IsFiniteSet(T) /\ Cardinality(T) \in Nat
<1>1. IsFiniteSet(SeqNum)
  BY FS_Interval, JitterAssumption DEF SeqNum
<1> QED BY <1>1, FS_Subset, FS_CardinalityType

-----------------------------------------------------------------------------
(* insert, popNext, the two ways of skipping, and the trim                 *)

LEMMA EmptyIsBuffer == \A S : IsBuffer(EmptyBuffer, S) /\ Count(EmptyBuffer) = 0
<1>1. Keys(EmptyBuffer) = {}
  BY DEF Keys, EmptyBuffer
<1> QED BY <1>1, FS_EmptySet DEF IsBuffer, Count, EmptyBuffer, Keys

LEMMA StoreKeeps ==
  ASSUME NEW S, NEW buf, IsBuffer(buf, S), NEW s \in SeqNum, NEW x \in S,
         InsertResult(buf, s) = "accepted"
  PROVE  /\ IsBuffer(Store(buf, s, x), S)
         /\ Keys(Store(buf, s, x)) = Keys(buf) \cup {s}
         /\ Count(Store(buf, s, x)) = Count(buf) + 1
         /\ Store(buf, s, x).next # NoSeq
         /\ buf.next # NoSeq => Store(buf, s, x).next = buf.next
<1> DEFINE st == Store(buf, s, x)
<1>1. ~IsTooLate(buf, s) /\ s \notin Keys(buf)
  BY DEF InsertResult, IsDuplicate
<1>2. Keys(st) = Keys(buf) \cup {s}
  BY DEF Store, Keys
<1>3. st.packets \in [Keys(st) -> S]
  BY <1>2 DEF Store, IsBuffer, Keys
<1>4. /\ st.next \in SeqNum
      /\ st.next # NoSeq
      /\ buf.next # NoSeq => st.next = buf.next
  BY JitterAssumption DEF Store, IsBuffer, SeqNum, NoSeq
<1>5. \A k \in Keys(st) : st.next <= k
  BY <1>1, <1>2, JitterAssumption DEF Store, IsBuffer, IsTooLate, SeqNum, NoSeq
<1>6. Count(st) = Count(buf) + 1
  BY <1>1, <1>2, SeqNumFinite, FS_AddElement DEF Count, IsBuffer
<1>7. st = [packets |-> st.packets, next |-> st.next]
  BY DEF Store
<1> HIDE DEF st
<1>8. IsBuffer(st, S)
  BY <1>2, <1>3, <1>4, <1>5, <1>7 DEF IsBuffer
<1> QED BY <1>2, <1>4, <1>6, <1>8 DEF st

LEMMA RestrictKeeps ==
  ASSUME NEW S, NEW buf, IsBuffer(buf, S), NEW K \in SUBSET Keys(buf), NEW n \in SeqNum,
         \A k \in K : n <= k
  PROVE  /\ IsBuffer([packets |-> Restrict(buf.packets, K), next |-> n], S)
         /\ Keys([packets |-> Restrict(buf.packets, K), next |-> n]) = K
         /\ Count([packets |-> Restrict(buf.packets, K), next |-> n]) <= Count(buf)
<1> DEFINE r == [packets |-> Restrict(buf.packets, K), next |-> n]
<1>1. Keys(r) = K
  BY DEF Keys, Restrict
<1>2. r.packets \in [K -> S]
  BY DEF Restrict, IsBuffer
<1>3. n # NoSeq
  BY JitterAssumption DEF SeqNum, NoSeq
<1>4. IsBuffer(r, S)
  BY <1>1, <1>2, <1>3 DEF IsBuffer
<1>5. Cardinality(K) <= Count(buf)
  BY SeqNumFinite, FS_Subset DEF IsBuffer, Count
<1> QED BY <1>1, <1>4, <1>5 DEF Count

LEMMA InsertKeeps ==
  ASSUME NEW S, NEW buf, IsBuffer(buf, S), NEW s \in SeqNum, NEW x \in S,
         Count(buf) <= Capacity
  PROVE  /\ IsBuffer(Insert(buf, s, x), S)
         /\ Keys(Insert(buf, s, x)) \subseteq Keys(buf) \cup {s}
         /\ Count(Insert(buf, s, x)) <= Capacity
         /\ Count(Insert(buf, s, x)) <= Count(buf) + 1
         /\ buf.next # NoSeq => buf.next <= Insert(buf, s, x).next
<1>a. Count(buf) \in Nat /\ Capacity \in Nat
  BY SeqNumFinite, JitterAssumption DEF Count, IsBuffer
<1>b. buf.next # NoSeq => buf.next \in SeqNum /\ buf.next <= buf.next
  BY JitterAssumption DEF IsBuffer, SeqNum
<1>1. CASE InsertResult(buf, s) # "accepted"
  <2>1. Insert(buf, s, x) = buf
    BY <1>1 DEF Insert
  <2> QED BY <2>1, <1>a, <1>b
<1>2. CASE InsertResult(buf, s) = "accepted"
  <2> DEFINE st == Store(buf, s, x)
  <2>1. /\ IsBuffer(st, S)
        /\ Keys(st) = Keys(buf) \cup {s}
        /\ Count(st) = Count(buf) + 1
        /\ buf.next # NoSeq => st.next = buf.next
    BY <1>2, StoreKeeps
  <2>2. Insert(buf, s, x) = DropOverflow(st)
    BY <1>2 DEF Insert
  <2> HIDE DEF st
  <2>3. CASE Count(st) <= Capacity
    <3>1. DropOverflow(st) = st
      BY <2>3 DEF DropOverflow
    <3> QED BY <2>1, <2>2, <2>3, <3>1, <1>a, <1>b
  <2>4. CASE ~ (Count(st) <= Capacity)
    <3> DEFINE K == Keys(st) \ {Max(Keys(st))}
               r == [packets |-> Restrict(st.packets, K), next |-> Min(Keys(st))]
    <3>1. DropOverflow(st) = r
      BY <2>4 DEF DropOverflow
    <3>2. Keys(st) \in SUBSET SeqNum /\ s \in Keys(st)
      BY <2>1 DEF IsBuffer
    <3>3. /\ Max(Keys(st)) \in Keys(st)
          /\ Min(Keys(st)) \in Keys(st)
          /\ \A k \in Keys(st) : Min(Keys(st)) <= k
      BY <3>2, MaxIsHighest, MinIsLowest
    <3>4. IsBuffer(r, S) /\ Keys(r) = K
      <4>1. K \in SUBSET Keys(st)
        OBVIOUS
      <4>2. Min(Keys(st)) \in SeqNum
        BY <3>2, <3>3
      <4>3. \A k \in K : Min(Keys(st)) <= k
        BY <3>3
      <4> HIDE DEF K
      <4> QED BY <2>1, <4>1, <4>2, <4>3, RestrictKeeps
    <3>5. Count(r) = Count(st) - 1
      BY <3>2, <3>3, <3>4, SeqNumFinite, FS_RemoveElement DEF Count
    <3>6. st.next <= Min(Keys(st))
      BY <2>1, <3>3 DEF IsBuffer
    <3>7. r.next = Min(Keys(st))
      OBVIOUS
    <3> HIDE DEF r
    <3> QED BY <2>1, <2>2, <2>4, <3>1, <3>4, <3>5, <3>6, <3>7, <1>a
  <2> QED BY <2>3, <2>4
<1> QED BY <1>1, <1>2

LEMMA PopKeeps ==
  ASSUME NEW S, NEW buf, IsBuffer(buf, S), HasNext(buf)
  PROVE  /\ IsBuffer(PopNext(buf), S)
         /\ Keys(PopNext(buf)) = Keys(buf) \ {buf.next}
         /\ Count(PopNext(buf)) = Count(buf) - 1
         /\ PopNext(buf).next = NextOf(buf.next)
         /\ buf.next \in SeqNum
<1> DEFINE K == Keys(buf) \ {buf.next}
<1>1. buf.next \in SeqNum
  BY DEF HasNext, IsBuffer
<1>2. NextOf(buf.next) \in SeqNum
  BY <1>1, JitterAssumption DEF NextOf, SeqNum
<1>3. \A k \in K : NextOf(buf.next) <= k
  <2> SUFFICES ASSUME NEW k \in K
               PROVE  NextOf(buf.next) <= k
    OBVIOUS
  <2>1. k \in SeqNum /\ buf.next < k
    BY <1>1, JitterAssumption DEF IsBuffer, SeqNum
  <2> QED BY <2>1, <1>1, JitterAssumption DEF NextOf, SeqNum
<1>4. K \in SUBSET Keys(buf)
  OBVIOUS
<1>5. /\ IsBuffer(PopNext(buf), S)
      /\ Keys(PopNext(buf)) = K
  <2> HIDE DEF K
  <2>1. PopNext(buf) = [packets |-> Restrict(buf.packets, K), next |-> NextOf(buf.next)]
    BY DEF PopNext, K
  <2> QED BY <1>2, <1>3, <1>4, <2>1, RestrictKeeps
<1>6. Count(PopNext(buf)) = Count(buf) - 1
  BY <1>5, SeqNumFinite, FS_RemoveElement DEF Count, HasNext, IsBuffer
<1>7. PopNext(buf).next = NextOf(buf.next)
  BY DEF PopNext
<1> QED BY <1>1, <1>5, <1>6, <1>7

LEMMA SkipsKeep ==
  ASSUME NEW S, NEW buf, IsBuffer(buf, S), IsStalled(buf)
  PROVE  /\ IsBuffer(SkipMissingPacket(buf), S)
         /\ Keys(SkipMissingPacket(buf)) = Keys(buf)
         /\ buf.next < SkipMissingPacket(buf).next
         /\ IsBuffer(SkipToNextAvailable(buf), S)
         /\ Keys(SkipToNextAvailable(buf)) = Keys(buf)
         /\ buf.next < SkipToNextAvailable(buf).next
<1>1. /\ buf.next \in SeqNum
      /\ Keys(buf) \in SUBSET SeqNum
      /\ Keys(buf) # {}
      /\ \A k \in Keys(buf) : buf.next < k
  BY JitterAssumption DEF IsStalled, HasNext, IsBuffer, SeqNum
<1>2. Min(Keys(buf)) \in Keys(buf) /\ \A k \in Keys(buf) : Min(Keys(buf)) <= k
  BY <1>1, MinIsLowest
<1>3. /\ NextOf(buf.next) \in SeqNum
      /\ buf.next < NextOf(buf.next)
      /\ \A k \in Keys(buf) : NextOf(buf.next) <= k
  <2>1. PICK k \in Keys(buf) : k \in SeqNum
    BY <1>1
  <2>2. NextOf(buf.next) = buf.next + 1
    BY <1>1, <2>1, JitterAssumption DEF NextOf, SeqNum
  <2> QED BY <1>1, <2>1, <2>2, JitterAssumption DEF SeqNum
<1>4. NoSeq \notin SeqNum
  BY JitterAssumption DEF SeqNum, NoSeq
<1>5. /\ SkipMissingPacket(buf) = [packets |-> buf.packets, next |-> NextOf(buf.next)]
      /\ SkipToNextAvailable(buf) = [packets |-> buf.packets, next |-> Min(Keys(buf))]
  BY DEF SkipMissingPacket, SkipToNextAvailable, IsBuffer
<1>6. /\ Keys(SkipMissingPacket(buf)) = Keys(buf)
      /\ Keys(SkipToNextAvailable(buf)) = Keys(buf)
  BY <1>5 DEF Keys
<1>7. IsBuffer(SkipMissingPacket(buf), S)
  BY <1>1, <1>3, <1>4, <1>5, <1>6 DEF IsBuffer
<1>8. IsBuffer(SkipToNextAvailable(buf), S)
  BY <1>1, <1>2, <1>4, <1>5, <1>6 DEF IsBuffer
<1> QED BY <1>1, <1>2, <1>3, <1>5, <1>6, <1>7, <1>8

\* The newest n of a set of sequence numbers all lie above the others.
LEMMA NewestAreHighest ==
  ASSUME NEW T \in SUBSET SeqNum, NEW n \in Nat,
         NEW k \in Newest(T, n), NEW g \in T \ Newest(T, n)
  PROVE  g < k
<1> SUFFICES ASSUME ~ (g < k)
             PROVE  FALSE
  OBVIOUS
<1>1. k \in T /\ k \in Int /\ g \in Int
  BY JitterAssumption DEF Newest, SeqNum
<1>2. k <= g
  BY <1>1
<1> DEFINE Above(x) == {l \in T : l > x}
<1>3. Above(g) \in SUBSET Above(k)
  <2>1. \A l \in T : l \in Int /\ (l > g => l > k)
    BY <1>1, <1>2, JitterAssumption DEF SeqNum
  <2> QED BY <2>1
<1>4. Above(k) \in SUBSET SeqNum
  OBVIOUS
<1>5. /\ Cardinality(Above(g)) <= Cardinality(Above(k))
      /\ Cardinality(Above(g)) \in Nat
      /\ Cardinality(Above(k)) \in Nat
  <2> HIDE DEF Above
  <2> QED BY <1>3, <1>4, SeqNumFinite, FS_Subset, FS_CardinalityType
<1>6. Cardinality(Above(k)) < n
  BY DEF Newest
<1>7. Cardinality(Above(g)) < n
  BY <1>5, <1>6
<1> QED BY <1>7 DEF Newest

LEMMA TrimKeeps ==
  ASSUME NEW S, NEW buf, IsBuffer(buf, S), NEW n \in Nat
  PROVE  /\ IsBuffer(TrimToMaximumPacketCount(buf, n), S)
         /\ Keys(TrimToMaximumPacketCount(buf, n)) \subseteq Keys(buf)
         /\ Count(TrimToMaximumPacketCount(buf, n)) <= Count(buf)
         /\ \/ TrimToMaximumPacketCount(buf, n).next = buf.next
            \/ \E g \in Keys(buf) : /\ buf.next # NoSeq
                                   /\ buf.next <= g
                                   /\ TrimToMaximumPacketCount(buf, n).next = NextOf(g)
<1> DEFINE kept == Newest(Keys(buf), n)
           gone == Keys(buf) \ kept
           tr == TrimToMaximumPacketCount(buf, n)
<1>1. CASE gone = {}
  <2>1. tr = buf
    BY <1>1 DEF TrimToMaximumPacketCount
  <2>2. Count(buf) <= Count(buf)
    BY SeqNumFinite DEF Count, IsBuffer
  <2> QED BY <2>1, <2>2
<1>2. CASE gone # {}
  <2> DEFINE m == Max(gone)
  <2>1. tr = [packets |-> Restrict(buf.packets, kept), next |-> NextOf(m)]
    BY <1>2 DEF TrimToMaximumPacketCount
  <2>2. Keys(buf) \in SUBSET SeqNum /\ kept \in SUBSET Keys(buf)
    BY DEF IsBuffer, Newest
  <2>3. m \in gone
    <3>1. gone \in SUBSET SeqNum
      BY <2>2
    <3> HIDE DEF gone
    <3> QED BY <1>2, <3>1, MaxIsHighest
  <2>4. m \in SeqNum
    BY <2>2, <2>3
  <2>5. NextOf(m) \in SeqNum
    BY <2>4, JitterAssumption DEF NextOf, SeqNum
  <2>6. \A k \in kept : NextOf(m) <= k
    <3> SUFFICES ASSUME NEW k \in kept
                 PROVE  NextOf(m) <= k
      OBVIOUS
    <3>1. m < k /\ k \in SeqNum
      <4> HIDE DEF m
      <4> QED BY <2>2, <2>3, NewestAreHighest
    <3> HIDE DEF m
    <3> QED BY <3>1, <2>4, JitterAssumption DEF NextOf, SeqNum
  <2>7. buf.next # NoSeq /\ buf.next <= m
    BY <2>3 DEF IsBuffer
  <2> HIDE DEF kept, m
  <2>8. IsBuffer(tr, S) /\ Keys(tr) = kept /\ Count(tr) <= Count(buf)
    <3> DEFINE cut == [packets |-> Restrict(buf.packets, kept), next |-> NextOf(m)]
    <3>1. IsBuffer(cut, S) /\ Keys(cut) = kept /\ Count(cut) <= Count(buf)
      BY <2>2, <2>5, <2>6, RestrictKeeps
    <3> QED BY <2>1, <3>1
  <2>9. tr.next = NextOf(m)
    BY <2>1
  <2> HIDE DEF tr
  <2>10. m \in Keys(buf)
    BY <2>3
  <2> QED BY <2>2, <2>7, <2>8, <2>9, <2>10 DEF tr
<1> QED BY <1>1, <1>2

-----------------------------------------------------------------------------
(* The invariant of AdaptivePlaybackBuffer                                 *)

NotWrapped == \A s \in Session : sent[s] < SeqMod

PlayPosition ==
  NotWrapped => /\ \A k \in Keys(jb) : k < SeqMod - 1
                /\ lastPayload # NoPayload => jb.next # NoSeq /\ lastPayload.seq < jb.next

IInv == /\ TypeOK
        /\ IsBuffer(jb, Session)
        /\ BufferWindow
        /\ FreshUntilPrimed
        /\ BacklogIsTimed
        /\ PlayPosition

-----------------------------------------------------------------------------

LEMMA ConstantTypes ==
  /\ Prebuffer \in Nat \ {0} /\ MaxLatency \in Nat \ {0} /\ MaxSessions \in Nat \ {0}
  /\ MaxConceal \in Nat /\ MaxStepGap \in Nat /\ GapTimeout \in Nat
  /\ TrimAfter \in Nat /\ MaxSent \in Nat /\ Window \in Nat
  /\ MaxLatency - 1 \in Nat
  /\ Capacity \in Nat \ {0} /\ SeqMod \in Nat \ {0}
  /\ NoSeq \notin SeqNum /\ NoTime = -1
  /\ NoPayload \notin Payload
<1>1. NoSeq \notin SeqNum
  BY JitterAssumption DEF NoSeq, SeqNum
<1>2. NoPayload \notin Payload
  BY <1>1 DEF NoPayload, Payload
<1> QED BY <1>1, <1>2, PlaybackAssumption, JitterAssumption DEF NoTime

LEMMA AtMostType ==
  ASSUME NEW n \in Nat, NEW limit \in Nat
  PROVE  /\ AtMost(n, limit) \in 0 .. limit
         /\ AtMost(n, limit) <= n
         /\ AtMost(n, limit) < limit => AtMost(n, limit) = n
BY DEF AtMost

LEMMA TypedBuffer ==
  ASSUME NEW b, IsBuffer(b, Session)
  PROVE  /\ Keys(b) \subseteq SeqNum
         /\ b = [packets |-> b.packets, next |-> b.next]
         /\ b.packets \in [Keys(b) -> Session]
         /\ b.next \in SeqNum \cup {NoSeq}
         /\ Count(b) \in Nat
         /\ \A k \in Keys(b) : b.next # NoSeq /\ b.next <= k
BY SeqNumFinite DEF IsBuffer, Count

LEMMA InitHolds == Init => IInv
<1> SUFFICES ASSUME Init
             PROVE  IInv
  OBVIOUS
<1>1. /\ IsBuffer(jb, Session)
      /\ Count(jb) = 0
      /\ Keys(jb) = {}
      /\ jb.next = NoSeq
  BY EmptyIsBuffer DEF Init, InitBuffer, EmptyBuffer, Keys
<1>2. TypeOK
  <2>1. /\ ingestedPackets \in 0 .. Prebuffer
        /\ concealmentUses \in 0 .. MaxConceal
        /\ queuedPackets \in Nat
        /\ session \in Session
    BY ConstantTypes DEF Init, InitBuffer, Session
  <2>2. sent \in [Session -> 0 .. MaxSent]
    <3>1. 0 \in 0 .. MaxSent
      BY ConstantTypes
    <3> QED BY <3>1 DEF Init
  <2> QED BY <1>1, <2>1, <2>2, TypedBuffer DEF TypeOK, Init, InitBuffer
<1>3. BufferWindow /\ FreshUntilPrimed /\ BacklogIsTimed /\ PlayPosition
  BY <1>1, ConstantTypes
     DEF BufferWindow, FreshUntilPrimed, BacklogIsTimed, PlayPosition, Init, InitBuffer
<1> QED BY <1>1, <1>2, <1>3 DEF IInv

LEMMA TickStep == IInv /\ Tick => IInv'
<1> SUFFICES ASSUME IInv, Tick
             PROVE  IInv'
  OBVIOUS
<1>1. /\ stalledFor' \in {NoTime} \cup 0 .. GapTimeout
      /\ backlogFor' \in {NoTime} \cup 0 .. TrimAfter
      /\ stalledFor = NoTime => stalledFor' = NoTime
      /\ backlogFor # NoTime => backlogFor' # NoTime
  <2>1. \A age, limit : age \in {NoTime} \cup 0 .. limit /\ limit \in Nat =>
           /\ Older(age, limit) \in {NoTime} \cup 0 .. limit
           /\ age # NoTime => Older(age, limit) # NoTime
           /\ age = NoTime => Older(age, limit) = NoTime
    BY DEF Older, AtMost, NoTime
  <2> QED BY <2>1, ConstantTypes DEF IInv, TypeOK, Tick
<1>2. TypeOK' /\ IsBuffer(jb, Session)'
  BY <1>1 DEF IInv, TypeOK, Tick, macVars, IsBuffer
<1>3. BufferWindow' /\ FreshUntilPrimed' /\ BacklogIsTimed' /\ PlayPosition'
  BY <1>1 DEF IInv, Tick, macVars, BufferWindow, FreshUntilPrimed, BacklogIsTimed,
              PlayPosition, NotWrapped
<1> QED BY <1>2, <1>3 DEF IInv

LEMMA ResetStep == IInv /\ Reset => IInv'
<1> SUFFICES ASSUME IInv, Reset
             PROVE  IInv'
  OBVIOUS
<1>1. /\ IsBuffer(jb', Session)
      /\ Count(jb') = 0
      /\ Keys(jb') = {}
      /\ jb'.next = NoSeq
  BY EmptyIsBuffer DEF Reset, EmptyBuffer, Keys
<1>2. TypeOK'
  <2>1. /\ ingestedPackets' \in 0 .. Prebuffer
        /\ concealmentUses' \in 0 .. MaxConceal
        /\ queuedPackets' \in Nat
    BY ConstantTypes DEF Reset
  <2> QED BY <1>1, <2>1, TypedBuffer DEF TypeOK, Reset, IInv, macVars
<1>3. BufferWindow' /\ FreshUntilPrimed' /\ BacklogIsTimed' /\ PlayPosition'
  BY <1>1, ConstantTypes
     DEF BufferWindow, FreshUntilPrimed, BacklogIsTimed, PlayPosition, Reset
<1> QED BY <1>1, <1>2, <1>3 DEF IInv

LEMMA MacStep == IInv /\ (Send \/ RestartStream) => IInv'
<1> SUFFICES ASSUME IInv, Send \/ RestartStream
             PROVE  IInv'
  OBVIOUS
<1>1. /\ session' \in Session
      /\ sent' \in [Session -> 0 .. MaxSent]
      /\ \A s \in Session : sent[s] <= sent'[s]
  <2>1. /\ MaxSessions \in Nat /\ MaxSent \in Nat
        /\ session \in Session
        /\ sent \in [Session -> 0 .. MaxSent]
    BY ConstantTypes DEF IInv, TypeOK
  <2>2. CASE Send
    BY <2>1, <2>2 DEF Send
  <2>3. CASE RestartStream
    BY <2>1, <2>3 DEF RestartStream, Session
  <2> QED BY <2>2, <2>3
<1>2. UNCHANGED bufferVars
  BY DEF Send, RestartStream
<1>3. TypeOK' /\ IsBuffer(jb, Session)'
  BY <1>1, <1>2 DEF IInv, TypeOK, bufferVars, IsBuffer
<1>4. NotWrapped' => NotWrapped
  BY <1>1, ConstantTypes DEF NotWrapped, IInv, TypeOK
<1>5. BufferWindow' /\ FreshUntilPrimed' /\ BacklogIsTimed'
  BY <1>2 DEF IInv, bufferVars, BufferWindow, FreshUntilPrimed, BacklogIsTimed
<1>6. PlayPosition'
  BY <1>2, <1>4 DEF IInv, bufferVars, PlayPosition
<1> QED BY <1>3, <1>5, <1>6 DEF IInv

-----------------------------------------------------------------------------
(* ingest                                                                  *)

LEMMA IngestStep ==
  ASSUME IInv, NEW s \in Session, NEW n \in 0 .. MaxSent, Ingest(s, n)
  PROVE  IInv'
<1> DEFINE q == n % SeqMod
           ins == Insert(jb, q, s)
<1>a. /\ TypeOK /\ IsBuffer(jb, Session) /\ BufferWindow /\ FreshUntilPrimed
      /\ BacklogIsTimed /\ PlayPosition
  BY DEF IInv
<1>b. /\ n \in Nat /\ q \in SeqNum
      /\ n < SeqMod => q = n
      /\ n < sent[s]
  BY ConstantTypes DEF SeqNum, Ingest, InFlight
<1>c. Count(jb) \in Nat /\ Count(jb) <= Capacity
  BY <1>a, TypedBuffer DEF BufferWindow
<1>d. UNCHANGED <<stalledFor, lastPayload, concealmentUses, lastPopWasConcealment, session, sent>>
  BY DEF Ingest, macVars
<1>e. TrimExcessLatencyIfNeeded(ins)
  BY DEF Ingest
<1>1. /\ IsBuffer(ins, Session)
      /\ Keys(ins) \subseteq Keys(jb) \cup {q}
      /\ Count(ins) <= Capacity
      /\ Count(ins) <= Count(jb) + 1
      /\ Count(ins) \in Nat
      /\ jb.next # NoSeq => jb.next <= ins.next
  <2> HIDE DEF q
  <2> QED BY <1>a, <1>b, <1>c, InsertKeeps, TypedBuffer
<1> HIDE DEF q, ins
<1>2. /\ IsBuffer(jb', Session)
      /\ Keys(jb') \subseteq Keys(ins)
      /\ Count(jb') <= Count(ins)
      /\ Count(jb') \in Nat
      /\ \/ jb'.next = ins.next
         \/ \E g \in Keys(ins) : /\ ins.next <= g
                                 /\ jb'.next = NextOf(g)
      /\ backlogFor' \in {NoTime} \cup 0 .. TrimAfter
      /\ Count(jb') > MaxLatency => backlogFor' # NoTime
  <2>1. CASE jb' = ins
    <3>1. /\ backlogFor' \in {NoTime} \cup 0 .. TrimAfter
          /\ Count(ins) > MaxLatency => backlogFor' # NoTime
      BY <2>1, <1>1, <1>a, <1>e, ConstantTypes DEF TrimExcessLatencyIfNeeded, TypeOK
    <3> QED BY <2>1, <3>1, <1>1
  <2>2. CASE jb' = TrimToMaximumPacketCount(ins, MaxLatency - 1) /\ backlogFor' = 0
    <3>1. 0 \in 0 .. TrimAfter /\ 0 # NoTime
      BY ConstantTypes
    <3>2. /\ IsBuffer(jb', Session)
          /\ Keys(jb') \subseteq Keys(ins)
          /\ Count(jb') <= Count(ins)
          /\ \/ jb'.next = ins.next
             \/ \E g \in Keys(ins) : /\ ins.next # NoSeq
                                     /\ ins.next <= g
                                     /\ jb'.next = NextOf(g)
      BY <2>2, <1>1, ConstantTypes, TrimKeeps
    <3>3. Count(jb') \in Nat
      BY <3>2, TypedBuffer
    <3> QED BY <2>2, <3>1, <3>2, <3>3
  <2> QED BY <2>1, <2>2, <1>e DEF TrimExcessLatencyIfNeeded
<1>3. /\ ingestedPackets' \in 0 .. Prebuffer
      /\ isPrimed' \in BOOLEAN
      /\ isPrimed => isPrimed'
      /\ ~isPrimed' => ingestedPackets' < Prebuffer /\ ingestedPackets' = ingestedPackets + 1
  <2>1. ingestedPackets \in Nat /\ Prebuffer \in Nat
    BY <1>a, ConstantTypes DEF TypeOK
  <2>2. /\ ingestedPackets' \in 0 .. Prebuffer
        /\ ingestedPackets' < Prebuffer => ingestedPackets' = ingestedPackets + 1
    BY <2>1, AtMostType DEF Ingest
  <2>3. isPrimed' = (isPrimed \/ ingestedPackets' >= Prebuffer)
    BY DEF Ingest
  <2>4. ~(ingestedPackets' >= Prebuffer) => ingestedPackets' < Prebuffer
    BY <2>1, <2>2
  <2> QED BY <2>2, <2>3, <2>4
<1>4. queuedPackets' = Count(jb')
  BY DEF Ingest
<1>5. TypeOK'
  BY <1>a, <1>d, <1>2, <1>3, <1>4, TypedBuffer DEF TypeOK
<1>6. BufferWindow'
  <2>1. Count(jb') <= Capacity
    BY <1>1, <1>2, ConstantTypes
  <2> QED BY <2>1, <1>2, <1>4, TypedBuffer DEF BufferWindow
<1>7. FreshUntilPrimed'
  <2> SUFFICES ASSUME ~isPrimed'
               PROVE  /\ ingestedPackets' < Prebuffer
                      /\ Count(jb') <= ingestedPackets'
                      /\ lastPayload' = NoPayload
                      /\ concealmentUses' = 0
                      /\ stalledFor' = NoTime
    BY DEF FreshUntilPrimed
  <2>1. ~isPrimed /\ ingestedPackets' < Prebuffer /\ ingestedPackets' = ingestedPackets + 1
    BY <1>3
  <2>2. Count(jb) <= ingestedPackets /\ ingestedPackets \in Nat
    BY <2>1, <1>a DEF FreshUntilPrimed, TypeOK
  <2>3. Count(jb') <= ingestedPackets'
    BY <2>1, <2>2, <1>1, <1>2, <1>c
  <2> QED BY <2>1, <2>3, <1>a, <1>d DEF FreshUntilPrimed
<1>8. BacklogIsTimed'
  BY <1>2 DEF BacklogIsTimed
<1>9. PlayPosition'
  <2> SUFFICES ASSUME NotWrapped
               PROVE  /\ \A k \in Keys(jb') : k < SeqMod - 1
                      /\ lastPayload # NoPayload =>
                           jb'.next # NoSeq /\ lastPayload.seq < jb'.next
    BY <1>d DEF PlayPosition, NotWrapped
  <2>1. sent[s] \in Nat /\ sent[s] < SeqMod
    BY <1>a, ConstantTypes DEF NotWrapped, TypeOK
  <2>2. q < SeqMod - 1
    BY <2>1, <1>b, ConstantTypes
  <2>3. \A k \in Keys(ins) : k < SeqMod - 1
    BY <2>2, <1>1, <1>a DEF PlayPosition
  <2>4. ASSUME lastPayload # NoPayload
        PROVE  jb'.next # NoSeq /\ lastPayload.seq < jb'.next
    <3>1. jb.next # NoSeq /\ lastPayload.seq < jb.next /\ lastPayload.seq \in SeqNum
      BY <2>4, <1>a DEF PlayPosition, TypeOK, Payload
    <3>2. jb.next \in Nat /\ lastPayload.seq \in Nat /\ jb.next <= ins.next
      BY <3>1, <1>a, <1>1, TypedBuffer, ConstantTypes DEF SeqNum
    <3>3. ins.next \in Int
      BY <1>1, TypedBuffer, ConstantTypes DEF SeqNum, NoSeq
    <3>4. CASE jb'.next = ins.next
      BY <3>1, <3>2, <3>3, <3>4 DEF NoSeq
    <3>5. CASE \E g \in Keys(ins) : ins.next <= g /\ jb'.next = NextOf(g)
      <4>1. PICK g \in Keys(ins) : ins.next <= g /\ jb'.next = NextOf(g)
        BY <3>5
      <4>2. g \in Nat /\ g < SeqMod - 1
        BY <2>3, <1>1, TypedBuffer, ConstantTypes DEF SeqNum
      <4>3. NextOf(g) = g + 1
        BY <4>2, ConstantTypes DEF NextOf
      <4> QED BY <3>1, <3>2, <3>3, <4>1, <4>2, <4>3 DEF NoSeq
    <3> QED BY <3>4, <3>5, <1>2
  <2> QED BY <2>3, <2>4, <1>2
<1> QED BY <1>2, <1>5, <1>6, <1>7, <1>8, <1>9 DEF IInv

-----------------------------------------------------------------------------
(* popReadyPayload: every way through it leaves the buffer alone, or moves *)
(* next up, or plays the packet at next.                                   *)

LEMMA SkippedKeeps ==
  ASSUME IsBuffer(jb, Session), IsStalled(jb)
  PROVE  /\ IsBuffer(Skipped(jb), Session)
         /\ Keys(Skipped(jb)) = Keys(jb)
         /\ jb.next < Skipped(jb).next
BY SkipsKeep DEF Skipped

\* Playing the next packet of a buffer that holds the same packets as jb and
\* stands at or after its position.
LEMMA PlayKeeps ==
  ASSUME IInv, NEW buf, IsBuffer(buf, Session), HasNext(buf), Keys(buf) = Keys(jb),
         jb.next <= buf.next, PlayNextOf(buf), UNCHANGED macVars
  PROVE  /\ IsBuffer(jb', Session)
         /\ Count(jb') \in Nat
         /\ Count(jb') <= Count(jb)
         /\ lastPayload' \in Payload
         /\ PlayPosition'
         /\ stalledFor' = NoTime
         /\ concealmentUses' = 0
<1>1. /\ jb' = PopNext(buf)
      /\ lastPayload' = [session |-> buf.packets[buf.next], seq |-> buf.next]
      /\ stalledFor' = NoTime
      /\ concealmentUses' = 0
  BY DEF PlayNextOf
<1>2. /\ IsBuffer(jb', Session)
      /\ Keys(jb') = Keys(buf) \ {buf.next}
      /\ jb'.next = NextOf(buf.next)
      /\ buf.next \in SeqNum
      /\ buf.next \in Keys(jb)
  BY <1>1, PopKeeps DEF HasNext
<1>3. Count(jb') \in Nat /\ Count(jb) \in Nat /\ Count(jb') <= Count(jb)
  <2>1. Keys(jb') \in SUBSET Keys(jb)
    BY <1>2
  <2> QED BY <2>1, <1>2, TypedBuffer, SeqNumFinite, FS_Subset DEF Count, IInv
<1>4. lastPayload' \in Payload
  <2>1. buf.packets[buf.next] \in Session
    BY TypedBuffer DEF HasNext
  <2> QED BY <2>1, <1>1, <1>2 DEF Payload
<1>5. PlayPosition'
  <2> SUFFICES ASSUME NotWrapped
               PROVE  /\ \A k \in Keys(jb') : k < SeqMod - 1
                      /\ jb'.next # NoSeq /\ lastPayload'.seq < jb'.next
    BY DEF PlayPosition, NotWrapped, macVars
  <2>1. \A k \in Keys(jb) : k < SeqMod - 1
    BY DEF IInv, PlayPosition
  <2>2. buf.next \in Nat /\ buf.next < SeqMod - 1
    BY <2>1, <1>2, ConstantTypes DEF SeqNum
  <2>3. jb'.next = buf.next + 1
    BY <2>2, <1>2, ConstantTypes DEF NextOf
  <2>4. lastPayload'.seq = buf.next
    BY <1>1
  <2>5. jb'.next # NoSeq /\ lastPayload'.seq < jb'.next
    BY <2>2, <2>3, <2>4 DEF NoSeq
  <2> QED BY <2>1, <2>5, <1>2
<1> QED BY <1>1, <1>2, <1>3, <1>4, <1>5

LEMMA PopStep == IInv /\ PopReadyPayload => IInv'
<1> SUFFICES ASSUME IInv, PopReadyPayload
             PROVE  IInv'
  OBVIOUS
<1>a. /\ TypeOK /\ IsBuffer(jb, Session) /\ BufferWindow /\ FreshUntilPrimed
      /\ BacklogIsTimed /\ PlayPosition
  BY DEF IInv
<1>b. /\ queuedPackets' = Count(jb')
      /\ UNCHANGED <<ingestedPackets, isPrimed, backlogFor>>
      /\ UNCHANGED macVars
      /\ UNCHANGED <<session, sent>>
  BY DEF PopReadyPayload, macVars
<1>c. Count(jb) \in Nat /\ 0 \in 0 .. GapTimeout /\ 0 \in 0 .. MaxConceal
  BY <1>a, TypedBuffer, ConstantTypes
<1> DEFINE Kept == /\ IsBuffer(jb', Session)
                   /\ Count(jb') \in Nat
                   /\ Count(jb') <= Count(jb)
                   /\ lastPayload' \in Payload \cup {NoPayload}
                   /\ lastPopWasConcealment' \in BOOLEAN
                   /\ stalledFor' \in {NoTime} \cup 0 .. GapTimeout
                   /\ concealmentUses' \in 0 .. MaxConceal
                   /\ PlayPosition'
                   /\ ~isPrimed => FreshUntilPrimed'
<1>1. ASSUME PopUnprimed PROVE Kept
  <2>1. UNCHANGED <<jb, stalledFor, lastPayload, concealmentUses>> /\ lastPopWasConcealment' = FALSE
    BY <1>1 DEF PopUnprimed
  <2>2. PlayPosition' /\ FreshUntilPrimed'
    BY <2>1, <1>a, <1>b DEF PlayPosition, NotWrapped, FreshUntilPrimed
  <2>3. /\ stalledFor' \in {NoTime} \cup 0 .. GapTimeout
        /\ concealmentUses' \in 0 .. MaxConceal
        /\ lastPayload' \in Payload \cup {NoPayload}
    BY <2>1, <1>a DEF TypeOK
  <2>4. IsBuffer(jb', Session) /\ Count(jb') = Count(jb)
    BY <2>1, <1>a
  <2>5. Count(jb') \in Nat /\ Count(jb') <= Count(jb)
    BY <2>4, <1>c
  <2>6. lastPopWasConcealment' \in BOOLEAN
    BY <2>1
  <2> QED BY <2>1, <2>2, <2>3, <2>4, <2>5, <2>6
<1>2. ASSUME PopFresh PROVE Kept
  <2>1. /\ isPrimed /\ HasNext(jb) /\ PlayNextOf(jb)
        /\ lastPopWasConcealment' = FALSE
    BY <1>2 DEF PopFresh
  <2>2. jb.next <= jb.next
    <3>1. jb.next \in SeqNum
      BY <2>1, <1>a, PopKeeps
    <3> QED BY <3>1, ConstantTypes DEF SeqNum
  <2> QED BY <2>1, <2>2, <1>a, <1>b, <1>c, PlayKeeps
<1>3. ASSUME PopEmpty \/ PopStartStall \/ PopWaitStall PROVE Kept
  <2>1. /\ isPrimed
        /\ UNCHANGED <<jb, lastPayload, concealmentUses>>
        /\ lastPopWasConcealment' = FALSE
        /\ stalledFor' \in {NoTime, 0, stalledFor}
    BY <1>3 DEF PopEmpty, PopStartStall, PopWaitStall
  <2>2. PlayPosition'
    BY <2>1, <1>a, <1>b DEF PlayPosition, NotWrapped
  <2>3. /\ stalledFor' \in {NoTime} \cup 0 .. GapTimeout
        /\ concealmentUses' \in 0 .. MaxConceal
        /\ lastPayload' \in Payload \cup {NoPayload}
    BY <2>1, <1>a, <1>c DEF TypeOK
  <2>4. IsBuffer(jb', Session) /\ Count(jb') = Count(jb)
    BY <2>1, <1>a
  <2>5. Count(jb') \in Nat /\ Count(jb') <= Count(jb)
    BY <2>4, <1>c
  <2>6. lastPopWasConcealment' \in BOOLEAN
    BY <2>1
  <2> QED BY <2>1, <2>2, <2>3, <2>4, <2>5, <2>6
<1>4. ASSUME PopConcealment PROVE Kept
  <2>1. /\ isPrimed
        /\ UNCHANGED <<jb, lastPayload>>
        /\ lastPopWasConcealment' = TRUE
        /\ stalledFor' = 0
        /\ concealmentUses < MaxConceal
        /\ concealmentUses' = concealmentUses + 1
    BY <1>4 DEF PopConcealment, GapTimedOut, CanConceal
  <2>2. PlayPosition'
    BY <2>1, <1>a, <1>b DEF PlayPosition, NotWrapped
  <2>3. concealmentUses' \in 0 .. MaxConceal
    BY <2>1, <1>a, ConstantTypes DEF TypeOK
  <2> QED BY <2>1, <2>2, <2>3, <1>a, <1>c DEF TypeOK
<1>5. ASSUME PopSkip PROVE Kept
  <2>1. /\ isPrimed /\ IsStalled(jb)
        /\ lastPopWasConcealment' = FALSE
    BY <1>5 DEF PopSkip, GapTimedOut
  <2>2. /\ IsBuffer(Skipped(jb), Session)
        /\ Keys(Skipped(jb)) = Keys(jb)
        /\ jb.next < Skipped(jb).next
    BY <2>1, <1>a, SkippedKeeps
  <2>3. jb.next \in SeqNum /\ jb.next \in Nat
    BY <2>1, <1>a, ConstantTypes DEF TypeOK, IsStalled, SeqNum
  <2>4. Skipped(jb).next \in Int
    BY <2>2, TypedBuffer, ConstantTypes DEF SeqNum, NoSeq
  <2>5. CASE HasNext(Skipped(jb)) /\ PlayNextOf(Skipped(jb))
    <3>1. jb.next <= Skipped(jb).next
      BY <2>2, <2>3, <2>4
    <3> QED BY <2>1, <2>2, <2>5, <3>1, <1>a, <1>b, <1>c, PlayKeeps
  <2>6. CASE /\ jb' = Skipped(jb)
             /\ stalledFor' = 0
             /\ concealmentUses' = 0
             /\ UNCHANGED lastPayload
    <3>1. Count(jb') = Count(jb)
      BY <2>2, <2>6 DEF Count
    <3>2. PlayPosition'
      <4> SUFFICES ASSUME NotWrapped
                   PROVE  /\ \A k \in Keys(jb') : k < SeqMod - 1
                          /\ lastPayload # NoPayload =>
                               jb'.next # NoSeq /\ lastPayload.seq < jb'.next
        BY <1>b, <2>6 DEF PlayPosition, NotWrapped
      <4>1. \A k \in Keys(jb') : k < SeqMod - 1
        BY <2>2, <2>6, <1>a DEF PlayPosition
      <4>2. ASSUME lastPayload # NoPayload
            PROVE  jb'.next # NoSeq /\ lastPayload.seq < jb'.next
        <5>1. lastPayload.seq \in Int /\ lastPayload.seq < jb.next
          BY <4>2, <1>a, ConstantTypes DEF PlayPosition, TypeOK, Payload, SeqNum
        <5> QED BY <5>1, <2>2, <2>3, <2>4, <2>6 DEF NoSeq
      <4> QED BY <4>1, <4>2
    <3>3. lastPayload' \in Payload \cup {NoPayload}
      BY <2>6, <1>a DEF TypeOK
    <3>4. IsBuffer(jb', Session)
      BY <2>2, <2>6
    <3>5. Count(jb') \in Nat /\ Count(jb') <= Count(jb)
      BY <3>1, <1>c
    <3>6. /\ lastPopWasConcealment' \in BOOLEAN
          /\ stalledFor' \in {NoTime} \cup 0 .. GapTimeout
          /\ concealmentUses' \in 0 .. MaxConceal
      BY <2>1, <2>6, <1>c
    <3> QED BY <2>1, <3>2, <3>3, <3>4, <3>5, <3>6
  <2> QED BY <1>5, <2>5, <2>6 DEF PopSkip
<1>6. Kept
  BY <1>1, <1>2, <1>3, <1>4, <1>5 DEF PopReadyPayload
<1>7. TypeOK'
  BY <1>6, <1>a, <1>b, TypedBuffer DEF TypeOK
<1>8. BufferWindow'
  <2>1. Count(jb') <= Capacity
    BY <1>6, <1>a, <1>c, ConstantTypes DEF BufferWindow
  <2> QED BY <2>1, <1>6, <1>b, TypedBuffer DEF BufferWindow
<1>9. FreshUntilPrimed'
  BY <1>6, <1>b DEF FreshUntilPrimed
<1>10. BacklogIsTimed'
  BY <1>6, <1>a, <1>b, <1>c, ConstantTypes DEF BacklogIsTimed
<1> QED BY <1>6, <1>7, <1>8, <1>9, <1>10 DEF IInv

-----------------------------------------------------------------------------
(* The theorems                                                            *)

LEMMA IInvStep == IInv /\ [Next]_vars => IInv'
<1> SUFFICES ASSUME IInv, [Next]_vars
             PROVE  IInv'
  OBVIOUS
<1>1. CASE Send \/ RestartStream
  BY <1>1, MacStep
<1>2. CASE \E s \in Session, n \in 0 .. MaxSent : Ingest(s, n)
  BY <1>2, IngestStep
<1>3. CASE PopReadyPayload
  BY <1>3, PopStep
<1>4. CASE Reset
  BY <1>4, ResetStep
<1>5. CASE Tick
  BY <1>5, TickStep
<1>6. CASE UNCHANGED vars
  BY <1>6 DEF vars, bufferVars, macVars, IInv, TypeOK, IsBuffer, BufferWindow,
              FreshUntilPrimed, BacklogIsTimed, PlayPosition, NotWrapped
<1> QED BY <1>1, <1>2, <1>3, <1>4, <1>5, <1>6 DEF Next

\* The inductive invariant holds of every run, whatever the network delivers.
THEOREM InductiveInvariant == Spec => []IInv
BY InitHolds, IInvStep, PTL DEF Spec

\* Every run keeps the types of the playback buffer's fields.
THEOREM TypeCorrect == Spec => []TypeOK
<1>1. IInv => TypeOK
  BY DEF IInv
<1> QED BY <1>1, InductiveInvariant, PTL

\* The jitter buffer never holds a packet below its play position nor more than
\* its capacity, for every modulus: a sequence wrap does not break it either.
THEOREM BufferWindowHolds == Spec => []BufferWindow
<1>1. IInv => BufferWindow
  BY DEF IInv
<1> QED BY <1>1, InductiveInvariant, PTL

\* Before the prebuffer is reached nothing of an earlier listening run is left.
THEOREM FreshUntilPrimedHolds == Spec => []FreshUntilPrimed
<1>1. IInv => FreshUntilPrimed
  BY DEF IInv
<1> QED BY <1>1, InductiveInvariant, PTL

\* A backlog over the latency limit always has its trim clock running.
THEOREM BacklogIsTimedHolds == Spec => []BacklogIsTimed
<1>1. IInv => BacklogIsTimed
  BY DEF IInv
<1> QED BY <1>1, InductiveInvariant, PTL

-----------------------------------------------------------------------------
(* Order of playback                                                       *)

\* A pop that takes a packet out plays it, from a position at or after the old one.
LEMMA PopPlays ==
  ASSUME IInv, PopReadyPayload, Count(jb') < Count(jb)
  PROVE  /\ jb.next <= lastPayload'.seq
         /\ lastPayload'.seq \in Nat
<1>a. IsBuffer(jb, Session) /\ TypeOK
  BY DEF IInv
<1>b. Count(jb) \in Nat /\ ~(Count(jb) < Count(jb))
  BY <1>a, TypedBuffer
<1>1. jb' # jb
  BY <1>b
<1>2. CASE PopFresh
  <2>1. jb.next \in SeqNum
    BY <1>2, <1>a, PopKeeps DEF PopFresh
  <2>2. lastPayload'.seq = jb.next
    BY <1>2 DEF PopFresh, PlayNextOf
  <2> QED BY <2>1, <2>2, ConstantTypes DEF SeqNum
<1>3. CASE PopSkip
  <2>1. IsStalled(jb)
    BY <1>3 DEF PopSkip, GapTimedOut
  <2>2. /\ IsBuffer(Skipped(jb), Session)
        /\ Keys(Skipped(jb)) = Keys(jb)
        /\ jb.next < Skipped(jb).next
    BY <2>1, <1>a, SkippedKeeps
  <2>3. jb' # Skipped(jb)
    BY <2>2, <1>b DEF Count
  <2>4. HasNext(Skipped(jb)) /\ PlayNextOf(Skipped(jb))
    BY <1>3, <2>3 DEF PopSkip
  <2>5. lastPayload'.seq = Skipped(jb).next
    BY <2>4 DEF PlayNextOf
  <2>6. Skipped(jb).next \in SeqNum /\ jb.next \in SeqNum
    BY <2>1, <2>2, <2>4, <1>a, PopKeeps DEF IsStalled, TypeOK
  <2> QED BY <2>2, <2>5, <2>6, ConstantTypes DEF SeqNum
<1> QED BY <1>1, <1>2, <1>3
        DEF PopReadyPayload, PopUnprimed, PopEmpty, PopStartStall, PopWaitStall, PopConcealment

\* Until the sequence numbers wrap, audio is played in order and no packet twice,
\* for every capacity and latency limit and every loss, repetition and reordering.
THEOREM PlayedInOrderHolds == Spec => PlayedInOrder
<1>1. IInv /\ [Next]_vars =>
        [(/\ PopReadyPayload
          /\ Count(jb') < Count(jb)
          /\ lastPayload # NoPayload
          /\ \A s \in Session : sent[s] < SeqMod)
         => lastPayload.seq < lastPayload'.seq]_vars
  <2> SUFFICES ASSUME IInv, PopReadyPayload, Count(jb') < Count(jb),
                      lastPayload # NoPayload, NotWrapped
               PROVE  lastPayload.seq < lastPayload'.seq
    BY DEF NotWrapped
  <2>1. lastPayload.seq \in Nat /\ jb.next \in Nat /\ lastPayload.seq < jb.next
    BY ConstantTypes DEF IInv, PlayPosition, TypeOK, Payload, SeqNum
  <2>2. jb.next <= lastPayload'.seq /\ lastPayload'.seq \in Nat
    BY PopPlays
  <2> QED BY <2>1, <2>2
<1>2. Spec => [][Next]_vars
  BY DEF Spec
<1> QED BY <1>1, <1>2, InductiveInvariant, PTL DEF PlayedInOrder

=============================================================================
