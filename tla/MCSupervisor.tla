---------------------------- MODULE MCSupervisor ----------------------------
(***************************************************************************)
(* Supervisor for TLC: its cfg gives the bounds.                           *)
(***************************************************************************)
EXTENDS Supervisor

=============================================================================
