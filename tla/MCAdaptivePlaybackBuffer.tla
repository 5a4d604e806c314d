---------------------- MODULE MCAdaptivePlaybackBuffer ----------------------
(***************************************************************************)
(* AdaptivePlaybackBuffer for TLC, scaled down so that every branch is      *)
(* reached: overflow of the buffer, trimming, concealment, a gap stepped   *)
(* over and a gap jumped over, a restarted stream and a sequence wrap.     *)
(***************************************************************************)
EXTENDS AdaptivePlaybackBuffer
=============================================================================
