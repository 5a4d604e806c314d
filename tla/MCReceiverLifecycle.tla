------------------------ MODULE MCReceiverLifecycle ------------------------
(***************************************************************************)
(* ReceiverLifecycle for TLC: room for a start beside a cancelled and a    *)
(* live restart, and for an old receiver beside a new one.                 *)
(***************************************************************************)
EXTENDS ReceiverLifecycle
=============================================================================
