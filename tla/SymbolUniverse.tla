--------------------------- MODULE SymbolUniverse ---------------------------
(***************************************************************************)
(* Which symbols are collected: discover_symbols and SymbolSetTracker of   *)
(* src/collectors/symbol_discovery.rs, the periodic discovery loop of      *)
(* src/main.rs with its sanity floor, and the sets it shares with the      *)
(* order-book tasks, the REST pollers (delisted) and the dashboard         *)
(* (new_listings).                                                         *)
(*                                                                         *)
(* The loop works on the shared sets symbol by symbol while the order-book *)
(* tasks look at them, so what one discovery changed is applied in steps.  *)
(* A discovery call that fails feeds the tracker nothing and is a          *)
(* stuttering step.                                                        *)
(***************************************************************************)
EXTENDS Integers, FiniteSets

CONSTANTS
    Symbols,       \* every symbol the exchange may list
    Collectable,   \* those that pass the contract and exclusion filters
    Anchors,       \* collected although excluded (btcusdt, dogeusdt)
    FloorNum,      \* a result is refused below FloorNum/FloorDen of the
    FloorDen,      \*     tracked set (9/10)
    MaxDegraded,   \* bound: answers that miss part of the universe
    MaxRestarts    \* bound: restarts of the process

ASSUME SymbolsAssumption ==
    /\ IsFiniteSet(Symbols)
    /\ Collectable \subseteq Symbols
    /\ Anchors \subseteq Symbols

ASSUME BoundsAssumption == FloorNum \in Nat /\ FloorDen \in Nat /\ MaxDegraded \in Nat /\ MaxRestarts \in Nat

VARIABLES
    trading,       \* the symbols in status TRADING
    known,         \* the tracker's known
    missingOnce,   \* the tracker's missing_once
    added,         \* symbols of the last diff the loop has still to apply
    removed,
    delisted,      \* the shared delisted set
    newListings,   \* the shared new_listings map
    book,          \* the order-book tasks
    absent,        \* history: consecutive results s was absent from, up to 2
    refused,       \* history: the last result was refused
    degraded,      \* degraded answers so far
    restarts       \* restarts so far

trackerVars == <<known, missingOnce, absent>>
sharedVars == <<delisted, newListings>>
vars == <<trading, known, missingOnce, added, removed, delisted, newListings, book,
          absent, refused, degraded, restarts>>

\* discover_symbols, of an answer that lists the symbols in T as TRADING.
Discovered(T) == T \cap (Collectable \cup Anchors)

\* The process starts: the first discovery names the symbols collected.
Started(result) ==
    /\ known' = result
    /\ missingOnce' = {}
    /\ added' = {}
    /\ removed' = {}
    /\ delisted' = {}
    /\ newListings' = {}
    /\ book' = [s \in Symbols |-> IF s \in result THEN "running" ELSE "none"]
    /\ absent' = [s \in Symbols |-> 0]
    /\ refused' = FALSE

Init ==
    /\ trading \in SUBSET Symbols
    /\ known = Discovered(trading)
    /\ missingOnce = {}
    /\ added = {}
    /\ removed = {}
    /\ delisted = {}
    /\ newListings = {}
    /\ book = [s \in Symbols |-> IF s \in Discovered(trading) THEN "running" ELSE "none"]
    /\ absent = [s \in Symbols |-> 0]
    /\ refused = FALSE
    /\ degraded = 0
    /\ restarts = 0

-----------------------------------------------------------------------------
(***************************************************************************)
(* The exchange.                                                           *)
(***************************************************************************)

StartTrading(s) ==
    /\ s \notin trading
    /\ trading' = trading \cup {s}
    /\ UNCHANGED <<trackerVars, added, removed, sharedVars, book, refused, degraded, restarts>>

StopTrading(s) ==
    /\ s \in trading
    /\ trading' = trading \ {s}
    /\ UNCHANGED <<trackerVars, added, removed, sharedVars, book, refused, degraded, restarts>>

\* The exchangeInfo answers: what is TRADING, or, degraded, only part of it.
Answers == IF degraded < MaxDegraded THEN SUBSET trading ELSE {trading}

Counted(T) == degraded' = degraded + (IF T = trading THEN 0 ELSE 1)

-----------------------------------------------------------------------------
(***************************************************************************)
(* One cycle of the discovery loop.                                        *)
(***************************************************************************)

\* Mutant: a strike is never shed.
MissedKeeping(result) == missingOnce \cup (known \ result)

\* The second absence in a row.
Confirmed(result) == (known \ result) \cap missingOnce

\* The first one; a symbol that is back sheds its strike.
Missed(result) == (known \ result) \ missingOnce

\* SymbolSetTracker::observe.
Observe(result) ==
    /\ known' = (known \cup result) \ Confirmed(result)
    /\ missingOnce' = Missed(result)
    /\ added' = result \ known
    /\ removed' = Confirmed(result)
    /\ absent' = [s \in Symbols |-> IF s \in result THEN 0
                                    ELSE IF absent[s] = 0 THEN 1 ELSE 2]

\* The sanity floor: too many symbols left at once.
BelowFloor(result) == Cardinality(result) * FloorDen < Cardinality(known) * FloorNum

\* The loop is between two cycles.
Waiting == added = {} /\ removed = {}

RefusedCycle ==
    /\ Waiting
    /\ \E T \in Answers :
          /\ BelowFloor(Discovered(T))
          /\ Counted(T)
    /\ refused' = TRUE
    /\ UNCHANGED <<trading, trackerVars, added, removed, sharedVars, book, restarts>>

Cycle ==
    /\ Waiting
    /\ \E T \in Answers :
          /\ ~BelowFloor(Discovered(T))
          /\ Observe(Discovered(T))
          /\ Counted(T)
    /\ refused' = FALSE
    /\ UNCHANGED <<trading, sharedVars, book, restarts>>

\* Mutant: only symbols never seen before are announced.
ApplyAddedQuietly(s) ==
    /\ s \in added
    /\ added' = added \ {s}
    /\ delisted' = delisted \ {s}
    /\ newListings' = IF s \in delisted THEN newListings ELSE newListings \cup {s}
    /\ UNCHANGED <<trading, trackerVars, removed, book, refused, degraded, restarts>>

\* A new or relisted symbol: REST resumes, the dashboard asks for a restart.
ApplyAdded(s) ==
    /\ s \in added
    /\ added' = added \ {s}
    /\ delisted' = delisted \ {s}
    /\ newListings' = newListings \cup {s}
    /\ UNCHANGED <<trading, trackerVars, removed, book, refused, degraded, restarts>>

\* Mutant: a symbol that was only announced has nothing to stop.
ApplyRemovedAnnounced(s) ==
    /\ added = {}
    /\ s \in removed
    /\ removed' = removed \ {s}
    /\ newListings' = newListings \ {s}
    /\ delisted' = IF s \in newListings THEN delisted ELSE delisted \cup {s}
    /\ UNCHANGED <<trading, trackerVars, added, book, refused, degraded, restarts>>

\* A confirmed removal, after the additions.
ApplyRemoved(s) ==
    /\ added = {}
    /\ s \in removed
    /\ removed' = removed \ {s}
    /\ newListings' = newListings \ {s}
    /\ delisted' = delisted \cup {s}
    /\ UNCHANGED <<trading, trackerVars, added, book, refused, degraded, restarts>>

\* The symbol's order-book task sees it delisted and ends, for good.
StopBook(s) ==
    /\ book[s] = "running"
    /\ s \in delisted
    /\ book' = [book EXCEPT ![s] = "gone"]
    /\ UNCHANGED <<trading, trackerVars, added, removed, sharedVars, refused, degraded, restarts>>

\* The operator or the supervisor starts the process again.
Restart ==
    /\ restarts < MaxRestarts
    /\ restarts' = restarts + 1
    /\ \E T \in Answers :
          /\ Started(Discovered(T))
          /\ Counted(T)
    /\ UNCHANGED trading

Apply == \E s \in Symbols : ApplyAdded(s) \/ ApplyRemoved(s)

Next ==
    \/ \E s \in Symbols : StartTrading(s) \/ StopTrading(s) \/ StopBook(s)
    \/ Cycle
    \/ RefusedCycle
    \/ Apply
    \/ Restart

Spec == Init /\ [][Next]_vars

\* The loop runs, discovery succeeds again and again, the tasks are polled.
FairSpec ==
    /\ Spec
    /\ WF_vars(Cycle \/ RefusedCycle)
    /\ WF_vars(Apply)
    /\ \A s \in Symbols : WF_vars(StopBook(s))

-----------------------------------------------------------------------------
(***************************************************************************)
(* Properties.                                                             *)
(***************************************************************************)

TypeOK ==
    /\ trading \subseteq Symbols
    /\ known \subseteq Symbols
    /\ missingOnce \subseteq known
    /\ added \subseteq known
    /\ removed \subseteq Symbols \ known
    /\ delisted \subseteq Symbols
    /\ newListings \subseteq Symbols
    /\ book \in [Symbols -> {"none", "running", "gone"}]
    /\ absent \in [Symbols -> 0..2]
    /\ refused \in BOOLEAN
    /\ degraded \in 0..MaxDegraded
    /\ restarts \in 0..MaxRestarts

\* A symbol is only torn down after two consecutive results without it, so
\* one degraded answer never ends a live book (README.md:291-293): whatever
\* is delisted or about to be was missing twice in a row.
TwoStrikes ==
    /\ \A s \in removed : absent[s] = 2
    /\ \A s \in delisted \ added : absent[s] = 2

\* A symbol the tracker counts as listed is collected, or the operator is
\* being told that it needs a restart: also when a delisting and a relisting
\* race the order-book task that ends in between.
CapturedOrAnnounced ==
    \A s \in known : book[s] = "running" \/ s \in newListings \/ s \in added

\* No alert asks for a restart for a symbol that has left (src/main.rs:477-479).
AlertsAreListed == newListings \subseteq known \cup removed

\* The operator's alerts and the universe agree: every listed symbol is
\* collected or asked for, and none is asked for that has left.
AlertsMatch == CapturedOrAnnounced /\ AlertsAreListed

\* A symbol that has left for good ends up without a book, however often it
\* was relisted before, unless the floor refuses every result from then on.
DeadIsDropped ==
    \A s \in Symbols :
        (<>[](s \notin trading) /\ <>[]~refused) => <>[](book[s] # "running")

\* An accepted result lost no more than the floor allows of the tracked set
\* (main.rs:431-436).  Does not hold of the code; see "Disagreements" in the
\* README.
LossWithinFloor ==
    [][Cycle => Cardinality({s \in known : absent'[s] = 0}) * FloorDen
                   >= Cardinality(known) * FloorNum]_vars

=============================================================================
