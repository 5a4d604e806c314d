--------------------------- MODULE MCSharedAudio ---------------------------
(***************************************************************************)
(* SharedAudio for TLC: a file of 3 frames and packets of 2, a writer that *)
(* can lap the reader twice and is started up to twice.                    *)
(***************************************************************************)
EXTENDS SharedAudio
=============================================================================
