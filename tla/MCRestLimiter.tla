--------------------------- MODULE MCRestLimiter ---------------------------
(***************************************************************************)
(* Values for the constants of RestLimiter: a depth request heavier than   *)
(* the whole budget and a light one, two of which fit, share the /fapi     *)
(* budget; each may be sent as often as it is retried.                     *)
(***************************************************************************)
EXTENDS RestLimiter

CONSTANTS depth, light

MCGroup == [r \in Requests |-> "fapi"]
MCWeight == [r \in Requests |-> IF r = depth THEN 3 ELSE 1]
MCBudget == [g \in Groups |-> 2]
MCWindow == [g \in Groups |-> 2]

=============================================================================
