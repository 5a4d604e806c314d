----------------------------- MODULE BoundedFifo -----------------------------
(***************************************************************************)
(* What a single-producer single-consumer frame buffer promises: a bounded *)
(* queue.  A write appends some of the frames offered, a read returns the  *)
(* oldest ones, and both happen at one instant.  Frames are numbered in    *)
(* the order in which they were accepted.                                  *)
(***************************************************************************)
EXTENDS Integers, Sequences

CONSTANT Capacity

VARIABLES queue,      \* the frames in the buffer, oldest first
          accepted,   \* how many frames were ever accepted
          received    \* what the last read returned

vars == <<queue, accepted, received>>

Init == /\ queue = <<>>
        /\ accepted = 0
        /\ received = <<>>

Put == \E n \in 0 .. Capacity - Len(queue) :
         /\ queue' = queue \o [i \in 1 .. n |-> accepted + i - 1]
         /\ accepted' = accepted + n
         /\ UNCHANGED received

Take == \E n \in 0 .. Len(queue) :
          /\ received' = SubSeq(queue, 1, n)
          /\ queue' = SubSeq(queue, n + 1, Len(queue))
          /\ UNCHANGED accepted

Clear == /\ queue' = <<>>
         /\ UNCHANGED <<accepted, received>>

Next == Put \/ Take \/ Clear

Spec == Init /\ [][Next]_vars

=============================================================================
