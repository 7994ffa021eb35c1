--------------------------- MODULE BookAlgorithms ---------------------------
(***************************************************************************)
(* What one attach computes (normalize_messages_for_attach, find_bridge    *)
(* and the loop of try_attach_to_stream in                                 *)
(* src/collectors/orderbook_manager.rs), over every buffer and snapshot of *)
(* a bounded stream: duplicates, messages out of order and missing ones    *)
(* included.  OrderbookSync takes the same code step by step, with a       *)
(* buffer that is already in order.                                        *)
(*                                                                         *)
(* The state is the input: a buffer that grows one message at a time.      *)
(***************************************************************************)
EXTENDS Naturals, Sequences, SequencesExt, FiniteSets

CONSTANTS
    Messages,      \* the depth updates: records with fields U, u, pu and E
    SnapshotIds,   \* lastUpdateId of the snapshots
    MaxBuffer      \* bound: length of the buffer

\* The ids of a stream's updates do not overlap, whichever of the updates come.
ASSUME MessagesAssumption ==
    /\ \A m \in Messages :
          /\ {m.U, m.u, m.pu, m.E} \subseteq Nat
          /\ m.pu < m.U /\ m.U <= m.u
    /\ \A m, n \in Messages : m.u < n.u => m.u <= n.pu
    /\ SnapshotIds \subseteq Nat
    /\ MaxBuffer \in Nat

VARIABLES buffered, snapshotU

bufferVars == <<buffered, snapshotU>>

BufferInit == buffered = <<>> /\ snapshotU \in SnapshotIds

Receive ==
    /\ Len(buffered) < MaxBuffer
    /\ \E m \in Messages : buffered' = Append(buffered, m)
    /\ UNCHANGED snapshotU

BufferNext == Receive

BufferSpec == BufferInit /\ [][BufferNext]_bufferVars

-----------------------------------------------------------------------------
(***************************************************************************)
(* The algorithms.                                                         *)
(***************************************************************************)

\* The order of the first sort: by (U, u, E).
Precedes(m, n) ==
    \/ m.U < n.U
    \/ m.U = n.U /\ m.u < n.u
    \/ m.U = n.U /\ m.u = n.u /\ m.E < n.E

\* The sort is stable: equal records stay in the order they came in.
GoesBefore(msgs, i, j) ==
    Precedes(msgs[i], msgs[j]) \/ (~Precedes(msgs[j], msgs[i]) /\ i < j)

InKeyOrder(msgs) ==
    LET Ahead(i) == {j \in DOMAIN msgs : GoesBefore(msgs, j, i)}
    IN  [k \in DOMAIN msgs |->
            msgs[CHOOSE i \in DOMAIN msgs : Cardinality(Ahead(i)) = k - 1]]

\* One record per final update id: the first, unless a later one is newer.
Keep(kept, m) ==
    IF \A k \in kept : k.u = m.u => m.E > k.E
    THEN {k \in kept : k.u # m.u} \cup {m}
    ELSE kept

Dedup(msgs) ==
    LET sorted == InKeyOrder(msgs)
        kept[i \in 0..Len(sorted)] == IF i = 0 THEN {} ELSE Keep(kept[i - 1], sorted[i])
    IN  kept[Len(sorted)]

\* The second sort, of records with different final ids.
ByFinalId(kept) ==
    [k \in 1..Cardinality(kept) |->
        CHOOSE m \in kept : Cardinality({n \in kept : n.u < m.u}) = k - 1]

\* normalize_messages_for_attach.
Normalize(msgs) == ByFinalId(Dedup(msgs))

\* Mutant: rule 2 forgets where the diff begins after.
BridgesLoosely(m, snapU) ==
    /\ m.u > snapU
    /\ m.U <= snapU + 1 \/ snapU < m.U

\* The two rules: the diff continues the snapshot, or spans it.
BridgesOnto(m, snapU) ==
    /\ m.u > snapU
    /\ m.U <= snapU + 1 \/ (m.pu <= snapU /\ snapU < m.U)

\* find_bridge: the index of the first that bridges, 0 if none does.
FindBridge(snapU, msgs) == SelectInSeq(msgs, LAMBDA m : BridgesOnto(m, snapU))

\* Every diff but the first names its predecessor.
Chained(diffs) == \A i \in 2..Len(diffs) : diffs[i].pu = diffs[i - 1].u

\* The longest prefix the loop applies before it meets a gap.
AppliedPrefix(diffs) ==
    SubSeq(diffs, 1, CHOOSE k \in 0..Len(diffs) :
                        /\ Chained(SubSeq(diffs, 1, k))
                        /\ k < Len(diffs) => ~Chained(SubSeq(diffs, 1, k + 1)))

\* try_attach_to_stream: what it does, and the diffs it applies.
Attach(snapU, msgs) ==
    LET diffs  == Normalize(msgs)
        bridge == FindBridge(snapU, diffs)
        tail   == SubSeq(diffs, bridge, Len(diffs))
        retry  == [outcome |-> "retry", applied |-> <<>>]
    IN  IF msgs = <<>> THEN retry
        ELSE IF snapU < diffs[1].pu THEN [retry EXCEPT !.outcome = "resnapshot"]
        ELSE IF bridge = 0 THEN retry
        ELSE [outcome |-> IF Chained(tail) THEN "live" ELSE "retry",
              applied |-> AppliedPrefix(tail)]

-----------------------------------------------------------------------------
(***************************************************************************)
(* Properties.                                                             *)
(***************************************************************************)

Result == Attach(snapshotU, buffered)

\* Normalising loses no update and keeps of each the newest record, in the
\* order of the final ids, whatever order they came in.
NormalizeKeepsNewest ==
    LET out == Normalize(buffered)
    IN  /\ {m.u : m \in ToSet(out)} = {m.u : m \in ToSet(buffered)}
        /\ \A i, j \in DOMAIN out : i < j => out[i].u < out[j].u
        /\ \A m \in ToSet(out) : \A n \in ToSet(buffered) : n.u = m.u => n.E <= m.E

\* A book goes live with the snapshot and every diff buffered beyond it, and
\* without a hole: the snapshot covers the predecessor of the first diff
\* applied, and every other one continues the one before.
LiveIsExact ==
    LET a == Result.applied
    IN  Result.outcome = "live" =>
            /\ a # <<>>
            /\ a[1].pu <= snapshotU /\ snapshotU < a[1].u
            /\ \A i \in 2..Len(a) : a[i].pu = a[i - 1].u
            /\ {m.u : m \in ToSet(a)} = {u \in {n.u : n \in ToSet(buffered)} : u > snapshotU}

\* A snapshot inside the buffered stretch of an unbroken stream attaches: it
\* is never refused for an order, a duplicate or a diff it already covers.
UnbrokenAttaches ==
    LET diffs == Normalize(buffered)
    IN  (/\ diffs # <<>>
         /\ \A i \in 2..Len(diffs) : diffs[i].pu = diffs[i - 1].u
         /\ diffs[1].pu <= snapshotU
         /\ snapshotU < Last(diffs).u) => Result.outcome = "live"

\* The attach is right on every buffer: it works on the newest record of each
\* update, goes live only with the exact book, and does so whenever it can.
AttachSound == NormalizeKeepsNewest /\ LiveIsExact /\ UnbrokenAttaches

=============================================================================
