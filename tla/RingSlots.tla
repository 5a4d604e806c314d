------------------------------ MODULE RingSlots ------------------------------
(***************************************************************************)
(* Facts both ring buffers' proofs rest on.  Positions count on for ever   *)
(* and the slot of a position is its remainder modulo the capacity C, so   *)
(* two positions less than a capacity apart have different slots.          *)
(***************************************************************************)
EXTENDS Integers, TLAPS

LEMMA Remainder ==
  ASSUME NEW M \in Nat \ {0}, NEW x \in Int
  PROVE  /\ x % M \in 0 .. M - 1
         /\ 0 <= x /\ x < M => x % M = x
<1>1. M \in Nat /\ M > 0
  OBVIOUS
<1>2. x % M \in 0 .. M - 1 /\ x = M * (x \div M) + (x % M) /\ x \div M \in Int
  BY <1>1, Z3
<1>3. ASSUME 0 <= x, x < M
      PROVE  x % M = x
  BY <1>1, <1>3, Z3
<1> QED
  BY <1>2, <1>3

LEMMA Division ==
  ASSUME NEW C \in Nat \ {0}, NEW k \in Nat
  PROVE  \E q \in Nat, r \in 0 .. C - 1 : k % C = r /\ k = C * q + r
<1>1. C \in Nat /\ C > 0
  OBVIOUS
<1>2. /\ k % C \in 0 .. C - 1
      /\ k = C * (k \div C) + (k % C)
      /\ k \div C \in Nat
  BY <1>1, Z3
<1> QED
  BY <1>2

\* Positions less than a capacity apart have different slots.
LEMMA SlotsDiffer ==
  ASSUME NEW C \in Nat \ {0}, NEW j \in Nat, NEW k \in Nat,
         j < k, k < j + C
  PROVE  j % C # k % C
<1> SUFFICES ASSUME j % C = k % C
             PROVE  FALSE
  OBVIOUS
<1>1. C \in Nat /\ C > 0
  OBVIOUS
<1>2. PICK p \in Nat, r \in 0 .. C - 1 : j % C = r /\ j = C * p + r
  BY Division
<1>3. PICK q \in Nat, s \in 0 .. C - 1 : k % C = s /\ k = C * q + s
  BY Division
<1>4. r = s /\ r \in Nat
  BY <1>1, <1>2, <1>3
<1>5. k - j = C * q - C * p
  BY <1>1, <1>2, <1>3, <1>4
<1>6. CASE q <= p
  <2>1. C * q <= C * p
    BY <1>1, <1>6, Z3
  <2>2. C * q \in Nat /\ C * p \in Nat
    BY <1>1
  <2> QED
    BY <1>5, <2>1, <2>2
<1>7. CASE p + 1 <= q
  <2>1. C * (p + 1) <= C * q /\ C * (p + 1) = C * p + C
    BY <1>1, <1>7, Z3
  <2>2. C * q \in Nat /\ C * p \in Nat
    BY <1>1
  <2> QED
    BY <1>1, <1>5, <2>1, <2>2
<1> QED
  BY <1>6, <1>7

\* The two memcpys of a call reach the slots of the positions from its start on.
LEMMA WrappedSlot ==
  ASSUME NEW C \in Nat \ {0}, NEW p \in Nat, NEW i \in 0 .. C - 1
  PROVE  /\ (IF i < C - (p % C) THEN (p % C) + i ELSE i - (C - (p % C))) = (p + i) % C
         /\ (p + i) % C \in 0 .. C - 1
<1>1. C \in Nat /\ C > 0 /\ i \in Nat /\ i < C
  OBVIOUS
<1>2. PICK q \in Nat, r \in 0 .. C - 1 : p % C = r /\ p = C * q + r
  BY Division
<1>3. PICK u \in Nat, s \in 0 .. C - 1 : (p + i) % C = s /\ p + i = C * u + s
  <2>1. p + i \in Nat
    BY <1>1
  <2> QED
    BY <2>1, Division
<1>4. r \in Nat /\ r < C /\ s \in Nat /\ s < C
  BY <1>1
<1>5. C * q \in Nat /\ C * u \in Nat
  BY <1>1
<1>6. C * u + s = C * q + r + i
  BY <1>1, <1>2, <1>3, <1>4, <1>5
<1>7. u = q \/ u = q + 1
  <2>1. CASE u + 1 <= q
    <3>1. C * (u + 1) <= C * q /\ C * (u + 1) = C * u + C
      BY <1>1, <2>1, Z3
    <3> QED
      BY <1>1, <1>4, <1>5, <1>6, <3>1
  <2>2. CASE q + 2 <= u
    <3>1. C * (q + 2) <= C * u /\ C * (q + 2) = C * q + C + C
      BY <1>1, <2>2, Z3
    <3> QED
      BY <1>1, <1>4, <1>5, <1>6, <3>1
  <2> QED
    BY <2>1, <2>2
<1>8. p % C = r
  BY <1>2
<1>9. CASE u = q
  BY <1>1, <1>3, <1>4, <1>5, <1>6, <1>8, <1>9
<1>10. CASE u = q + 1
  <2>1. C * (q + 1) = C * q + C
    BY <1>1, Z3
  <2> QED
    BY <1>1, <1>3, <1>4, <1>5, <1>6, <1>8, <1>10, <2>1
<1> QED
  BY <1>7, <1>9, <1>10

=============================================================================
