---------------------------- MODULE JitterBuffer ----------------------------
(***************************************************************************)
(* The reorder buffer of the iPhone's playback path                        *)
(* (HushPortCore/JitterBuffer.swift), as operators on its two fields:      *)
(*                                                                         *)
(*   packets  the dictionary from sequence number to packet; what a packet *)
(*            carries is reduced to the Mac stream session that sent it    *)
(*   next     nextSequenceNumber, NoSeq for nil                            *)
(*                                                                         *)
(* Sequence numbers are UInt32 in the code: they wrap at SeqMod (2^32) in  *)
(* "&+ 1", but insert compares them with a plain "<".  The two loops of    *)
(* the code (drop on overflow, trim) are given in closed form; they agree  *)
(* with the loops because no buffered number is below next (BufferWindow   *)
(* in AdaptivePlaybackBuffer), so stepping over missing numbers ends at    *)
(* the lowest buffered one without a wrap.                                 *)
(***************************************************************************)
EXTENDS Integers, FiniteSets, FiniteSetsExt, Functions

CONSTANTS SeqMod,    \* 2^32: sequence numbers are 0 .. SeqMod - 1
          Capacity   \* packets the buffer may hold (64)

ASSUME JitterAssumption == /\ SeqMod \in Nat \ {0}
                           /\ Capacity \in Nat \ {0}

SeqNum == 0 .. SeqMod - 1
NoSeq == -1

EmptyBuffer == [packets |-> [s \in {} |-> 0], next |-> NoSeq]

Keys(jb) == DOMAIN jb.packets
Count(jb) == Cardinality(Keys(jb))
\* Mutant of NextOf: the play position does not wrap.
NextOfNoWrap(s) == s + 1
NextOf(s) == (s + 1) % SeqMod

HasNext(jb) == jb.next \in Keys(jb)
IsStalled(jb) == jb.next # NoSeq /\ ~HasNext(jb) /\ Keys(jb) # {}

-----------------------------------------------------------------------------
(* insert                                                                  *)

\* Mutant of IsTooLate: the packet just played is let in again.
IsTooLateOffByOne(jb, s) == jb.next # NoSeq /\ s + 1 < jb.next
IsTooLate(jb, s) == jb.next # NoSeq /\ s < jb.next
IsDuplicate(jb, s) == s \in Keys(jb)

InsertResult(jb, s) ==
  IF IsTooLate(jb, s) THEN "tooLate" ELSE IF IsDuplicate(jb, s) THEN "duplicate" ELSE "accepted"

Store(jb, s, session) ==
  [packets |-> [k \in Keys(jb) \cup {s} |-> IF k = s THEN session ELSE jb.packets[k]],
   next    |-> IF jb.next = NoSeq THEN s ELSE jb.next]

\* One packet over capacity: next moves up to a buffered packet if its own is
\* missing, and the highest packet goes (possibly the one just inserted, which
\* insert still reports as accepted).
DropOverflow(jb) ==
  IF Count(jb) <= Capacity
    THEN jb
    ELSE [packets |-> Restrict(jb.packets, Keys(jb) \ {Max(Keys(jb))}),
          next    |-> Min(Keys(jb))]

Insert(jb, s, session) ==
  IF InsertResult(jb, s) = "accepted"
    THEN DropOverflow(Store(jb, s, session))
    ELSE jb

-----------------------------------------------------------------------------
(* popNext, skipMissingPacket, gapUntilNextAvailable, skipToNextAvailable  *)

\* Mutant of PopNext: the play position stays on the packet taken out.
PopNextStays(jb) == [packets |-> Restrict(jb.packets, Keys(jb) \ {jb.next}),
                     next    |-> jb.next]

PopNext(jb) == [packets |-> Restrict(jb.packets, Keys(jb) \ {jb.next}),
                next    |-> NextOf(jb.next)]

SkipMissingPacket(jb) == [jb EXCEPT !.next = NextOf(@)]

GapUntilNextAvailable(jb) == (Min(Keys(jb)) - jb.next) % SeqMod

SkipToNextAvailable(jb) == [jb EXCEPT !.next = Min(Keys(jb))]

-----------------------------------------------------------------------------
(* trimToMaximumPacketCount: the lowest packets go, next follows the last  *)
(* one discarded.                                                          *)

Newest(S, n) == {k \in S : Cardinality({l \in S : l > k}) < n}

TrimToMaximumPacketCount(jb, n) ==
  LET kept == Newest(Keys(jb), n)
      gone == Keys(jb) \ kept
  IN IF gone = {} THEN jb
     ELSE [packets |-> Restrict(jb.packets, kept),
           next    |-> NextOf(Max(gone))]

=============================================================================
