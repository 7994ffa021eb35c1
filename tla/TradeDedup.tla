----------------------------- MODULE TradeDedup -----------------------------
(***************************************************************************)
(* process_trade of src/websocket/message_handler.rs for one symbol, with  *)
(* its window of recent trade ids, against the cleanup task that drops the *)
(* windows of symbols without trades.  The handler takes one message at a  *)
(* time; it holds the window's lock only to look the id up and record it,  *)
(* and the cleanup may come between any two of its steps.                  *)
(*                                                                         *)
(* A reconnect replays what it likes: any id may come at any time.         *)
(***************************************************************************)
EXTENDS Naturals, Sequences, SequencesExt

CONSTANTS
    Ids,            \* trade ids
    Window          \* TRADE_DEDUP_WINDOW

ASSUME TradeDedupAssumption == Ids \subseteq Nat /\ Window \in Nat \ {0}

VARIABLES
    seen,       \* TradeDedupWindow.seen
    order,      \* TradeDedupWindow.order, oldest first; with no window, empty
    lastSeen,   \* trade_dedup_last_seen: "none", "fresh", "stale" (over an hour)
    step,       \* where process_trade is
    trade,      \* the id it works on
    cleaner,    \* what the cleanup does with this symbol
    accepted,   \* history: the last Window ids taken as new since the window was dropped
    written,    \* history: ids with a row
    unwritten   \* history: ids whose write failed

windowVars == <<seen, order>>
handlerVars == <<step, trade>>
rowVars == <<written, unwritten>>
dedupVars == <<windowVars, lastSeen, handlerVars, cleaner, accepted, rowVars>>

DedupInit ==
    /\ seen = {}
    /\ order = <<>>
    /\ lastSeen = "none"
    /\ step = "idle"
    /\ trade = 0
    /\ cleaner = "idle"
    /\ accepted = <<>>
    /\ written = {}
    /\ unwritten = {}

-----------------------------------------------------------------------------
LastOf(s) == IF Len(s) > Window THEN Tail(s) ELSE s

SeenWith(id) ==
    (seen \union {id}) \ (IF Len(order) = Window THEN {Head(order)} ELSE {})

\* Mutant: ids only count up, so an older one has been seen.
IsNewest(id) == \A old \in seen : old < id

IsNew(id) == id \notin seen

\* TradeDedupWindow::insert, under the window's lock.
Record(id) ==
    /\ step = "idle"
    /\ IsNew(id)
    /\ order' = LastOf(Append(order, id))
    /\ seen' = SeenWith(id)
    /\ step' = "stamp"
    /\ trade' = id
    /\ accepted' = LastOf(Append(accepted, id))
    /\ UNCHANGED <<lastSeen, cleaner, rowVars>>

\* A duplicate leaves even the stamp alone.
Duplicate(id) ==
    /\ step = "idle"
    /\ ~IsNew(id)
    /\ UNCHANGED dedupVars

Stamp ==
    /\ step = "stamp"
    /\ step' = "write"
    /\ lastSeen' = "fresh"
    /\ UNCHANGED <<windowVars, trade, cleaner, accepted, rowVars>>

WriteTrade ==
    /\ step = "write"
    /\ step' = "idle"
    /\ trade' = 0
    /\ \/ written' = written \union {trade} /\ UNCHANGED unwritten
       \/ unwritten' = unwritten \union {trade} /\ UNCHANGED written
    /\ UNCHANGED <<windowVars, lastSeen, cleaner, accepted>>

-----------------------------------------------------------------------------
HourPasses ==
    /\ lastSeen = "fresh"
    /\ lastSeen' = "stale"
    /\ UNCHANGED <<windowVars, handlerVars, cleaner, accepted, rowVars>>

\* The stale symbols are listed first ...
ListStale ==
    /\ cleaner = "idle"
    /\ lastSeen = "stale"
    /\ cleaner' = "listed"
    /\ UNCHANGED <<windowVars, lastSeen, handlerVars, accepted, rowVars>>

\* ... and then taken out of one map and of the other, stale or not by now.
DropWindow ==
    /\ cleaner = "listed"
    /\ cleaner' = "dropped"
    /\ seen' = {}
    /\ order' = <<>>
    /\ accepted' = <<>>
    /\ UNCHANGED <<lastSeen, handlerVars, rowVars>>

DropStamp ==
    /\ cleaner = "dropped"
    /\ cleaner' = "idle"
    /\ lastSeen' = "none"
    /\ UNCHANGED <<windowVars, handlerVars, accepted, rowVars>>

DedupNext ==
    \/ \E id \in Ids : Record(id) \/ Duplicate(id)
    \/ Stamp \/ WriteTrade
    \/ HourPasses \/ ListStale \/ DropWindow \/ DropStamp

DedupSpec == DedupInit /\ [][DedupNext]_dedupVars

-----------------------------------------------------------------------------
DedupTypeOK ==
    /\ seen \subseteq Ids
    /\ order \in Seq(Ids) /\ Len(order) <= Window
    /\ lastSeen \in {"none", "fresh", "stale"}
    /\ step \in {"idle", "stamp", "write"}
    /\ trade \in Ids \union {0}
    /\ cleaner \in {"idle", "listed", "dropped"}
    /\ accepted \in Seq(Ids)
    /\ written \subseteq Ids
    /\ unwritten \subseteq Ids

Takes(id) == step = "idle" /\ step' = "stamp" /\ trade' = id

\* A replayed trade is told from a new one, both ways: one of the last Window
\* trades is never taken again, unless the cleanup dropped the window since;
\* and none is passed over that was not taken before, to be written or to
\* fail, however far back the replay reaches.
ReplayTold ==
    [][\A id \in Ids :
          /\ Takes(id) => id \notin ToSet(accepted)
          /\ ~IsNew(id) => id \in written \union unwritten \union {trade}]_dedupVars

\* What the comment on trade_dedup_last_seen says: it tracks the last trade
\* time per symbol, so that the cleanup drops stale symbols only.  Does not
\* hold of the code; see "Disagreements" in the README.
OnlyStaleDropped == [][DropWindow => lastSeen = "stale"]_dedupVars

=============================================================================
