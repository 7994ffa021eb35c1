------------------------------ MODULE BookDepth ------------------------------
(***************************************************************************)
(* What a live book's CONTENTS are worth: apply_update_to_book and         *)
(* trim_book_to_depth (src/collectors/orderbook_manager.rs) against the    *)
(* exchange's whole book, with diffs lost in reconnects on the way, for    *)
(* one side of the book.  Prices are numbered from the touch outwards: 1   *)
(* is the best price of the side, so trimming keeps the least.             *)
(***************************************************************************)
EXTENDS Naturals, FiniteSets, Functions

CONSTANTS
    Depth,         \* orderbook.depth_limit
    Worst,         \* bound: the prices are 1..Worst
    Quantities,    \* quantities a level may have
    MaxLost        \* bound: diffs that never arrive

Prices == 1..Worst
Gone == 0

ASSUME DepthAssumption == Depth \in Nat \ {0} /\ Worst \in Nat
ASSUME QuantitiesAssumption == IsFiniteSet(Quantities) /\ Quantities \subseteq Nat \ {Gone}
ASSUME LostAssumption == MaxLost \in Nat

\* A side of a book: the quantity at each price that has a level.
Sides == UNION {[P -> Quantities] : P \in SUBSET Prices}

VARIABLES
    market,        \* the exchange's side
    book,          \* the manager's
    stale,         \* history: prices whose last change was lost
    lost           \* diffs lost so far

depthVars == <<market, book, stale, lost>>

-----------------------------------------------------------------------------
\* trim_book_to_depth.
Trim(side) ==
    Restrict(side, {p \in DOMAIN side : Cardinality({q \in DOMAIN side : q < p}) < Depth})

\* Mutant: quantities are added to the level, as if diffs were deltas.
AppliedAsDelta(side, diff) ==
    LET kept == {p \in DOMAIN side : p \in DOMAIN diff => diff[p] # Gone}
        set  == {p \in DOMAIN diff : diff[p] # Gone}
    IN  [p \in kept \cup set |->
            IF p \in kept /\ p \in set /\ side[p] + diff[p] \in Quantities
            THEN side[p] + diff[p]
            ELSE IF p \in set THEN diff[p] ELSE side[p]]

\* apply_update_to_book: 0 deletes the level, anything else replaces it.
Applied(side, diff) ==
    LET kept == {p \in DOMAIN side : p \in DOMAIN diff => diff[p] # Gone}
        set  == {p \in DOMAIN diff : diff[p] # Gone}
    IN  [p \in kept \cup set |-> IF p \in set THEN diff[p] ELSE side[p]]

\* What changed between two books of the exchange is what the diff says.
DiffOf(before, after) ==
    LET Of(side, p) == IF p \in DOMAIN side THEN side[p] ELSE Gone
    IN  [p \in {q \in Prices : Of(before, q) # Of(after, q)} |-> Of(after, p)]

-----------------------------------------------------------------------------
\* The snapshot the symbol anchors on: the best Depth levels.
DepthInit ==
    /\ market \in Sides
    /\ book = Trim(market)
    /\ stale = {}
    /\ lost = 0

\* apply_diff.
Diff ==
    \E after \in Sides \ {market} :
        LET diff == DiffOf(market, after)
        IN  /\ market' = after
            /\ book' = Trim(Applied(book, diff))
            /\ stale' = stale \ DOMAIN diff
            /\ UNCHANGED lost

\* A diff emitted while the connection was down.
LoseDiff ==
    /\ lost < MaxLost
    /\ lost' = lost + 1
    /\ \E after \in Sides \ {market} :
          /\ market' = after
          /\ stale' = stale \cup DOMAIN DiffOf(market, after)
    /\ UNCHANGED book

DepthNext == Diff \/ LoseDiff

DepthSpec == DepthInit /\ [][DepthNext]_depthVars

-----------------------------------------------------------------------------
(***************************************************************************)
(* Properties.                                                             *)
(***************************************************************************)

DepthTypeOK ==
    /\ market \in Sides
    /\ book \in Sides
    /\ stale \subseteq Prices
    /\ lost \in 0..MaxLost

\* Every level the book shows is the exchange's, but for levels whose last
\* change was lost in a reconnect (docs/ORDERBOOK.md:122-126): the next update
\* of a level makes it right again, whatever was missed before.
HealedLevels ==
    \A p \in DOMAIN book \ stale : p \in DOMAIN market /\ market[p] = book[p]

\* Outages are the only reason for a book to differ from the exchange's best
\* Depth levels (docs/ORDERBOOK.md:122-126).
BookIsTop == lost = 0 => book = Trim(market)

=============================================================================
