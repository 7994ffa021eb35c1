------------------------------ MODULE MCIngest ------------------------------
(***************************************************************************)
(* Model values for Ingest.                                                *)
(***************************************************************************)
EXTENDS Ingest

CONSTANT public

=============================================================================
