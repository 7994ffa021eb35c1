---------------------------- MODULE DepthStream ----------------------------
(***************************************************************************)
(* One symbol's depth as the exchange sees it: the stream of diffs, the    *)
(* book they describe and the REST snapshots of it (DepthUpdateWs and      *)
(* DepthSnapshotRest of src/models.rs, and the wire behaviour that         *)
(* docs/ORDERBOOK.md and find_bridge rely on).                             *)
(*                                                                         *)
(* Diffs are numbered 1..NumDiffs in the order the exchange emits them,    *)
(* which is the order of their final update ids.  A level's quantity is    *)
(* represented by the number of the diff that last wrote it (0: none yet). *)
(* Quantities are absolute, so writing one again gives the same value.     *)
(***************************************************************************)
EXTENDS Naturals

CONSTANTS
    NumDiffs,      \* bound: how many diffs the exchange emits
    Levels,        \* price levels of the book
    Touch,         \* Touch[n]: the levels diff n sets
    FirstId,       \* FirstId[n]: U, first update id covered by diff n
    FinalId,       \* FinalId[n]: u, final update id covered by diff n
    BaseId,        \* final update id before diff 1
    NoBook         \* orderbooks has no entry for the symbol

Diffs == 1..NumDiffs

\* pu: the final update id of the previous diff.
PrevId(n) == IF n = 1 THEN BaseId ELSE FinalId[n - 1]

ASSUME NumDiffsAssumption == NumDiffs \in Nat
ASSUME TouchAssumption == Touch \in [Diffs -> SUBSET Levels]
\* Update ids grow along the stream and never start at 0.  U may skip ids
\* after pu, which is why the code needs its second bridge rule.
ASSUME IdAssumption ==
    /\ BaseId \in Nat \ {0}
    /\ FirstId \in [Diffs -> Nat]
    /\ FinalId \in [Diffs -> Nat]
    /\ \A n \in Diffs : PrevId(n) < FirstId[n] /\ FirstId[n] <= FinalId[n]
    /\ \A m, n \in Diffs : m < n => FinalId[m] < FirstId[n]
Orderbook == [id : Nat, level : [Levels -> Nat]]

ASSUME NoBookAssumption == NoBook \notin Orderbook

-----------------------------------------------------------------------------
(***************************************************************************)
(* The exchange's own book, and what a REST snapshot of it may contain.    *)
(***************************************************************************)

\* v is the last of the diffs 1..k that wrote level l.
IsCurrent(l, v, k) ==
    /\ v \in 0..k
    /\ v # 0 => l \in Touch[v]
    /\ \A m \in Diffs : v < m /\ m <= k => l \notin Touch[m]

\* k diffs lie wholly at or before update id i.
Covers(k, i) ==
    /\ k \in 0..NumDiffs
    /\ \A n \in Diffs : FinalId[n] <= i <=> n <= k

\* A book that equals the exchange's at its update id.  An id strictly
\* inside diff k+1 may already show some of that diff's levels.
Exact(b) ==
    \E k \in 0..NumDiffs :
        /\ Covers(k, b.id)
        /\ \A l \in Levels :
              \/ IsCurrent(l, b.level[l], k)
              \/ /\ k + 1 \in Diffs
                 /\ FirstId[k + 1] <= b.id
                 /\ l \in Touch[k + 1]
                 /\ b.level[l] = k + 1

\* The ids a REST depth snapshot may carry once k diffs were emitted: any
\* cached one, up to one inside the diff the exchange is still aggregating.
SnapshotIds(k) ==
    {i \in BaseId..(IF NumDiffs = 0 THEN BaseId ELSE FinalId[NumDiffs]) :
        \A n \in Diffs : FinalId[n] <= i => n <= k}

Snapshots(k) ==
    {b \in [id : SnapshotIds(k), level : [Levels -> 0..NumDiffs]] : Exact(b)}

\* apply_update_to_book: absolute quantities replace the levels diff n names
\* and last_update_id becomes n's final id.
Overlay(b, n) ==
    [id |-> FinalId[n],
     level |-> [l \in Levels |-> IF l \in Touch[n] THEN n ELSE b.level[l]]]

=============================================================================
