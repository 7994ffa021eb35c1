----------------------------- MODULE MCCsvFile -----------------------------
(***************************************************************************)
(* Model values for CsvFile.                                               *)
(***************************************************************************)
EXTENDS CsvFile

CONSTANTS w1, w2, flusher, rotation, cleanup

=============================================================================
