-------------------------- MODULE MCSymbolUniverse --------------------------
(***************************************************************************)
(* Model values for SymbolUniverse: two ordinary symbols, an anchor that   *)
(* the exclusions name, and an excluded one.                               *)
(***************************************************************************)
EXTENDS SymbolUniverse

CONSTANTS btc, eth, sol, usdc

=============================================================================
