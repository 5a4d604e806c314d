---------------------------- MODULE MCMacSession ----------------------------
(***************************************************************************)
(* MacSession for TLC: a phone that advertises itself under one endpoint   *)
(* or two, and room for a cancelled task or stream beside a live one.      *)
(***************************************************************************)
EXTENDS MacSession
=============================================================================
