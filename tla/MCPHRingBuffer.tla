--------------------------- MODULE MCPHRingBuffer ---------------------------
(***************************************************************************)
(* PHRingBuffer for TLC: a capacity of 3 with requests of up to 4 frames    *)
(* makes calls that are cut short, calls that wrap around the end of the   *)
(* storage, an empty and a full buffer, and reuse of every slot.           *)
(***************************************************************************)
EXTENDS PHRingBuffer
=============================================================================
