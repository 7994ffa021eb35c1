-------------------------- MODULE MCOrderbookSync --------------------------
(***************************************************************************)
(* Values for the constants of OrderbookSync.  Each diff spans two update  *)
(* ids after one skipped id (diff 1: pu 1, U 3, u 4), so a snapshot id can *)
(* fall on a boundary, in the skipped id and inside a diff, and each       *)
(* bridge rule has snapshots only it accepts.  Two levels, written in turn,*)
(* let a missed diff leave one level stale while the other moves on.       *)
(***************************************************************************)
EXTENDS OrderbookSync

MCBaseId == 1
MCFirstId == [n \in Diffs |-> 3 * n]
MCFinalId == [n \in Diffs |-> 3 * n + 1]
MCTouch == [n \in Diffs |-> IF n % 2 = 1 THEN {"bid"} ELSE {"ask"}]

=============================================================================
