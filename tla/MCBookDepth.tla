----------------------------- MODULE MCBookDepth -----------------------------
(***************************************************************************)
(* BookDepth for TLC: its cfgs give the constants.                         *)
(***************************************************************************)
EXTENDS BookDepth

==============================================================================
