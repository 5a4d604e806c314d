------------------------- MODULE MCReceiverPlayback -------------------------
(***************************************************************************)
(* ReceiverPlayback for TLC: a schedule of up to three buffers and a queue   *)
(* that can exceed the latency the receiver means to keep.                 *)
(***************************************************************************)
EXTENDS ReceiverPlayback
=============================================================================
