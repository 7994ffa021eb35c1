--------------------------- MODULE MCGapRegistry ---------------------------
(***************************************************************************)
(* Model values for GapRegistry.                                           *)
(***************************************************************************)
EXTENDS GapRegistry

CONSTANTS periodic, shutdown

=============================================================================
