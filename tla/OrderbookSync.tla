--------------------------- MODULE OrderbookSync ---------------------------
(***************************************************************************)
(* The life of ONE symbol's order book in OrderbookManager                 *)
(* (src/collectors/orderbook_manager.rs): the symbol's manage_symbol task, *)
(* the shared live-update loop, the five-minute stale sweep and the        *)
(* periodic snapshot task, together with the ring buffer the WebSocket     *)
(* side fills (connection_manager.rs).  Symbols share no state in these    *)
(* paths, so one symbol is the whole story; what they do share (the REST   *)
(* budget, the discovery loop) has modules of its own.                     *)
(*                                                                         *)
(* A step is what runs between two points where another task can see the   *)
(* shared maps: every await, and also the gap between draining the buffer, *)
(* applying a diff and publishing Live, because the runtime is             *)
(* multi-threaded.                                                         *)
(*                                                                         *)
(* One TCP stream delivers the diffs of a symbol in the order they were    *)
(* emitted, which is the order of their numbers (DepthStream).  A buffer   *)
(* of diffs is therefore a SET: its front is its minimum, and the sort and *)
(* dedup of normalize_messages_for_attach is what a set already is         *)
(* (BookAlgorithms checks that function itself).                           *)
(***************************************************************************)
EXTENDS DepthStream, FiniteSets

CONSTANTS
    Capacity,      \* websocket.ring_buffer_capacity
    LongSilence    \* TRUE: the stream may stay silent past MAX_IDLE_SECS

ASSUME CapacityAssumption == Capacity \in Nat \ {0}
ASSUME LongSilenceAssumption == LongSilence \in BOOLEAN

VARIABLES
    issued,        \* how many diffs the exchange has emitted
    connected,     \* the batch's public-route WebSocket is up
    buffer,        \* symbol_buffers[symbol]
    missed,        \* history: diffs lost in an outage or evicted unread
    state,         \* symbol_states[symbol]; "Absent": no entry
    book,          \* orderbooks[symbol]: last_update_id and level contents
    idle,          \* last_processed_time is more than MAX_IDLE_SECS old
    pc,            \* where manage_symbol is
    queue,         \* diffs try_attach_to_stream still has to apply
    lastU,         \* its last_u
    bridging,      \* the next diff is the bridge itself (i = 0)
    live,          \* where the live loop is for this symbol
    updates,       \* diffs it drained and still has to apply
    stale,         \* the sweep has put the symbol on its list
    periodic,      \* where the periodic snapshot task is for this symbol
    stamped,       \* last_periodic_snapshot has an entry for the symbol
    resyncs,       \* reasons passed to gap_registry.record_resnapshot
    delisted       \* the shared delisted set contains the symbol

streamVars == <<issued, connected, missed>>
manageVars == <<pc, queue, lastU, bridging>>
liveVars == <<live, updates>>
sideVars == <<periodic, stamped, delisted>>
vars == <<issued, connected, buffer, missed, state, book, idle, pc, queue,
          lastU, bridging, live, updates, stale, periodic, stamped, resyncs,
          delisted>>

OrderbookState ==
    {"Absent", "Initializing", "FetchingSnapshot", "Syncing", "Live"}

ManagePc == {"loop", "cooldown", "fetching", "csv", "backoff", "bridge",
             "apply", "golive", "writing", "done", "dead"}

-----------------------------------------------------------------------------
Init ==
    /\ issued = 0
    /\ connected = FALSE
    /\ buffer = {}
    /\ missed = {}
    /\ state = "Absent"
    /\ book = NoBook
    /\ idle = FALSE
    /\ pc = "loop"
    /\ queue = {}
    /\ lastU = 0
    /\ bridging = FALSE
    /\ live = "tick"
    /\ updates = {}
    /\ stale = FALSE
    /\ periodic = "tick"
    /\ stamped = FALSE
    /\ resyncs = {}
    /\ delisted = FALSE

\* n is the oldest diff of S.
IsFront(n, S) == n \in S /\ \A m \in S : n <= m

-----------------------------------------------------------------------------
(***************************************************************************)
(* The WebSocket side.                                                     *)
(***************************************************************************)

Connect ==
    /\ ~connected
    /\ connected' = TRUE
    /\ UNCHANGED <<issued, buffer, missed, state, book, idle, resyncs, stale>>
    /\ UNCHANGED <<manageVars, liveVars, sideVars>>

\* A dropped connection leaves the ring buffer and the book states alone.
Disconnect ==
    /\ connected
    /\ connected' = FALSE
    /\ UNCHANGED <<issued, buffer, missed, state, book, idle, resyncs, stale>>
    /\ UNCHANGED <<manageVars, liveVars, sideVars>>

\* buffer_depth_update: push_back, then pop_front while over capacity and,
\* while more than one entry is left, while the front has aged out.
ReceiveDiff ==
    /\ issued < NumDiffs
    /\ connected
    /\ issued' = issued + 1
    /\ LET pushed == buffer \cup {issued + 1}
       IN  \E front \in pushed :
              /\ buffer' = {n \in pushed : front <= n}
              /\ Cardinality(buffer') <= Capacity
              /\ missed' = missed \cup (pushed \ buffer')
    /\ UNCHANGED <<connected, state, book, idle, resyncs, stale>>
    /\ UNCHANGED <<manageVars, liveVars, sideVars>>

\* A diff emitted while the socket is down is never replayed.
LoseDiff ==
    /\ issued < NumDiffs
    /\ ~connected
    /\ issued' = issued + 1
    /\ missed' = missed \cup {issued + 1}
    /\ UNCHANGED <<connected, buffer, state, book, idle, resyncs, stale>>
    /\ UNCHANGED <<manageVars, liveVars, sideVars>>

-----------------------------------------------------------------------------
(***************************************************************************)
(* manage_symbol.                                                          *)
(***************************************************************************)

\* remove_symbol_state drops every per-symbol map entry.
RemoveSymbolState ==
    /\ book' = NoBook
    /\ state' = "Absent"
    /\ stamped' = FALSE
    /\ idle' = FALSE

\* Mutant: only a symbol about to fetch looks at the delisted set.
ManageDelistedBeforeFetch ==
    /\ pc = "loop"
    /\ delisted
    /\ state \in {"Absent", "Initializing"}
    /\ pc' = "done"
    /\ RemoveSymbolState
    /\ UNCHANGED <<streamVars, buffer, queue, lastU, bridging, liveVars,
                   stale, periodic, resyncs, delisted>>

\* A confirmed delisting, noticed at the top of the loop, ends the task.
ManageDelisted ==
    /\ pc = "loop"
    /\ delisted
    /\ pc' = "done"
    /\ RemoveSymbolState
    /\ UNCHANGED <<streamVars, buffer, queue, lastU, bridging, liveVars,
                   stale, periodic, resyncs, delisted>>

\* A missing entry counts as Initializing.
ManageInitializing ==
    /\ pc = "loop"
    /\ ~delisted
    /\ state \in {"Absent", "Initializing"}
    /\ state' = "FetchingSnapshot"
    /\ UNCHANGED <<streamVars, buffer, book, idle, manageVars, liveVars, stale,
                   sideVars, resyncs>>

\* The cooldown sleep, with no map guard held.
ManageCooldown ==
    /\ pc = "loop"
    /\ ~delisted
    /\ state = "FetchingSnapshot"
    /\ pc' = "cooldown"
    /\ UNCHANGED <<streamVars, buffer, state, book, idle, queue, lastU,
                   bridging, liveVars, stale, sideVars, resyncs>>

\* fetch_and_apply_snapshot sets the state again and sends the request.
StartFetch ==
    /\ pc = "cooldown"
    /\ pc' = "fetching"
    /\ state' = "FetchingSnapshot"
    /\ UNCHANGED <<streamVars, buffer, book, idle, queue, lastU, bridging,
                   liveVars, stale, sideVars, resyncs>>

\* The response replaces the book, whatever was there before.
FetchOk ==
    /\ pc = "fetching"
    /\ book' \in Snapshots(issued)
    /\ idle' = FALSE
    /\ pc' = "csv"
    /\ UNCHANGED <<streamVars, buffer, state, queue, lastU, bridging, liveVars,
                   stale, sideVars, resyncs>>

\* Timeout, HTTP error or circuit breaker: no book is inserted.
FetchErr ==
    /\ pc = "fetching"
    /\ pc' = "backoff"
    /\ UNCHANGED <<streamVars, buffer, state, book, idle, queue, lastU,
                   bridging, liveVars, stale, sideVars, resyncs>>

\* write_snapshot_csv returned: the symbol may look for its bridge.
SnapshotWritten ==
    /\ pc = "csv"
    /\ pc' = "loop"
    /\ state' = "Syncing"
    /\ UNCHANGED <<streamVars, buffer, book, idle, queue, lastU, bridging,
                   liveVars, stale, sideVars, resyncs>>

\* write_snapshot_csv failed: the fetch counts as failed, the book stays.
SnapshotWriteErr ==
    /\ pc = "csv"
    /\ pc' = "backoff"
    /\ UNCHANGED <<streamVars, buffer, state, book, idle, queue, lastU,
                   bridging, liveVars, stale, sideVars, resyncs>>

EndBackoff ==
    /\ pc = "backoff"
    /\ pc' = "loop"
    /\ state' = "Initializing"
    /\ UNCHANGED <<streamVars, buffer, book, idle, queue, lastU, bridging,
                   liveVars, stale, sideVars, resyncs>>

\* trigger_resnapshot records the event and resets the state.
TriggerResnapshot(reason) ==
    /\ resyncs' = resyncs \cup {reason}
    /\ state' = "Initializing"

\* Mutant: the timeout is looked at only once something is buffered.
BridgeTimeoutAfterDrain ==
    /\ pc = "loop"
    /\ ~delisted
    /\ state = "Syncing"
    /\ buffer # {}
    /\ TriggerResnapshot("bridge_rule_timeout")
    /\ UNCHANGED <<streamVars, buffer, book, idle, manageVars, liveVars, stale,
                   sideVars>>

\* attach_bridge_timeout_seconds have passed since sync_start_time.
BridgeTimeout ==
    /\ pc = "loop"
    /\ ~delisted
    /\ state = "Syncing"
    /\ TriggerResnapshot("bridge_rule_timeout")
    /\ UNCHANGED <<streamVars, buffer, book, idle, manageVars, liveVars, stale,
                   sideVars>>

\* try_attach_to_stream takes everything buffered; an empty buffer only
\* makes the task sleep 500 ms, which changes nothing.
DrainForAttach ==
    /\ pc = "loop"
    /\ ~delisted
    /\ state = "Syncing"
    /\ buffer # {}
    /\ queue' = buffer
    /\ buffer' = {}
    /\ pc' = "bridge"
    /\ UNCHANGED <<streamVars, state, book, idle, lastU, bridging, liveVars,
                   stale, sideVars, resyncs>>

\* last_update_id of the book, 0 when it is missing.
SnapshotU == IF book = NoBook THEN 0 ELSE book.id

\* Mutant: the second rule forgets pu <= snapshot_u.
BridgesPastGap(i, S) == {n \in S : i < FinalId[n]}

\* find_bridge: the diffs either rule accepts for a snapshot at id i.
Bridges(i, S) ==
    {n \in S : /\ i < FinalId[n]
               /\ \/ FirstId[n] <= i + 1
                  \/ PrevId(n) <= i /\ i < FirstId[n]}

SnapshotTooOld ==
    /\ pc = "bridge"
    /\ \E n \in queue : IsFront(n, queue) /\ SnapshotU < PrevId(n)
    /\ TriggerResnapshot("snapshot_older_than_buffer")
    /\ queue' = {}
    /\ pc' = "loop"
    /\ UNCHANGED <<streamVars, buffer, book, idle, lastU, bridging, liveVars,
                   stale, sideVars>>

\* Everything drained is older than the snapshot, or the diff that would
\* bridge is missing: the drained diffs are dropped and the task retries.
\* (The gap > 10000 branch asks for first_pu > snapshot_u, which the check
\* before it has already excluded, so it never runs.)
NoBridge ==
    /\ pc = "bridge"
    /\ \E n \in queue : IsFront(n, queue) /\ SnapshotU >= PrevId(n)
    /\ Bridges(SnapshotU, queue) = {}
    /\ queue' = {}
    /\ pc' = "loop"
    /\ UNCHANGED <<streamVars, buffer, state, book, idle, lastU, bridging,
                   liveVars, stale, sideVars, resyncs>>

FoundBridge ==
    /\ pc = "bridge"
    /\ \E n \in queue : IsFront(n, queue) /\ SnapshotU >= PrevId(n)
    /\ \E b \in queue : /\ IsFront(b, Bridges(SnapshotU, queue))
                       /\ queue' = {n \in queue : b <= n}
    /\ lastU' = SnapshotU
    /\ bridging' = TRUE
    /\ pc' = "apply"
    /\ UNCHANGED <<streamVars, buffer, state, book, idle, liveVars, stale,
                   sideVars, resyncs>>

\* Mutant: apply_diff creates the entry it does not find.
ApplyDiffUpsert(n) ==
    LET old == IF book = NoBook
               THEN [id |-> 0, level |-> [l \in Levels |-> 0]] ELSE book
    IN  book' = Overlay(old, n) /\ idle' = FALSE

\* apply_diff: without a book nothing happens.  (trim_book_to_depth, which
\* follows in the code, is checked in BookAlgorithms.)
ApplyDiff(n) ==
    IF book = NoBook
    THEN UNCHANGED <<book, idle>>
    ELSE book' = Overlay(book, n) /\ idle' = FALSE

\* Mutant: diffs after the bridge are applied whatever their pu.
AttachApplyUnchecked ==
    /\ pc = "apply"
    /\ \E n \in queue :
          /\ IsFront(n, queue)
          /\ ApplyDiff(n)
          /\ lastU' = FinalId[n]
          /\ queue' = queue \ {n}
    /\ bridging' = FALSE
    /\ UNCHANGED <<streamVars, buffer, state, pc, liveVars, stale, sideVars,
                   resyncs>>

\* One turn of the attach loop: the bridge, then diffs that chain by pu.
AttachApply ==
    /\ pc = "apply"
    /\ \E n \in queue :
          /\ IsFront(n, queue)
          /\ bridging \/ PrevId(n) = lastU
          /\ ApplyDiff(n)
          /\ lastU' = FinalId[n]
          /\ queue' = queue \ {n}
    /\ bridging' = FALSE
    /\ UNCHANGED <<streamVars, buffer, state, pc, liveVars, stale, sideVars,
                   resyncs>>

\* "Gap during attach": what was applied stays applied, the rest is lost.
AttachGap ==
    /\ pc = "apply"
    /\ ~bridging
    /\ \E n \in queue : IsFront(n, queue) /\ PrevId(n) # lastU
    /\ queue' = {}
    /\ pc' = "loop"
    /\ UNCHANGED <<streamVars, buffer, state, book, idle, lastU, bridging,
                   liveVars, stale, sideVars, resyncs>>

AttachDone ==
    /\ pc = "apply"
    /\ queue = {}
    /\ pc' = "golive"
    /\ UNCHANGED <<streamVars, buffer, state, book, idle, queue, lastU,
                   bridging, liveVars, stale, sideVars, resyncs>>

\* Mutant: what arrived during the attach is cleared with the old buffer.
GoLiveClearing ==
    /\ pc = "golive"
    /\ state' = "Live"
    /\ pc' = "writing"
    /\ buffer' = {}
    /\ UNCHANGED <<streamVars, book, idle, queue, lastU, bridging, liveVars,
                   stale, sideVars, resyncs>>

GoLive ==
    /\ pc = "golive"
    /\ state' = "Live"
    /\ pc' = "writing"
    /\ UNCHANGED <<streamVars, buffer, book, idle, queue, lastU, bridging,
                   liveVars, stale, sideVars, resyncs>>

\* The depth_snapshot_bridge rows are on their way to disk.
BridgeSnapshotWritten ==
    /\ pc = "writing"
    /\ pc' = "loop"
    /\ UNCHANGED <<streamVars, buffer, state, book, idle, queue, lastU,
                   bridging, liveVars, stale, sideVars, resyncs>>

\* The `?' on that write ends the task; the error is only logged.
BridgeSnapshotWriteErr ==
    /\ pc = "writing"
    /\ pc' = "dead"
    /\ UNCHANGED <<streamVars, buffer, state, book, idle, queue, lastU,
                   bridging, liveVars, stale, sideVars, resyncs>>

Manage ==
    \/ ManageDelisted
    \/ ManageInitializing
    \/ ManageCooldown
    \/ StartFetch
    \/ FetchOk
    \/ FetchErr
    \/ SnapshotWritten
    \/ SnapshotWriteErr
    \/ EndBackoff
    \/ BridgeTimeout
    \/ DrainForAttach
    \/ SnapshotTooOld
    \/ NoBridge
    \/ FoundBridge
    \/ AttachApply
    \/ AttachGap
    \/ AttachDone
    \/ GoLive
    \/ BridgeSnapshotWritten
    \/ BridgeSnapshotWriteErr

-----------------------------------------------------------------------------
(***************************************************************************)
(* run_live_depth_update_loop: list the Live symbols, then drain and apply *)
(* symbol by symbol.  No continuity check, on purpose.                     *)
(***************************************************************************)

LiveList ==
    /\ live = "tick"
    /\ state = "Live"
    /\ live' = "listed"
    /\ UNCHANGED <<streamVars, buffer, state, book, idle, manageVars, updates,
                   stale, sideVars, resyncs>>

\* Mutant: the drained diffs are dropped.
LiveDrainDropping ==
    /\ live = "listed"
    /\ buffer' = {}
    /\ live' = "tick"
    /\ UNCHANGED <<streamVars, state, book, idle, manageVars, updates, stale,
                   sideVars, resyncs>>

LiveDrain ==
    /\ live = "listed"
    /\ updates' = buffer
    /\ buffer' = {}
    /\ live' = IF buffer = {} THEN "tick" ELSE "applying"
    /\ UNCHANGED <<streamVars, state, book, idle, manageVars, stale, sideVars,
                   resyncs>>

LiveApply ==
    /\ live = "applying"
    /\ \E n \in updates :
          /\ IsFront(n, updates)
          /\ ApplyDiff(n)
          /\ updates' = updates \ {n}
          /\ live' = IF updates = {n} THEN "tick" ELSE "applying"
    /\ UNCHANGED <<streamVars, buffer, state, manageVars, stale, sideVars,
                   resyncs>>

LiveLoop == LiveList \/ LiveDrain \/ LiveApply

-----------------------------------------------------------------------------
(***************************************************************************)
(* cleanup_stale_symbols: collect the idle books, then drop their symbols. *)
(* The six removals of remove_symbol_state follow each other with nothing  *)
(* in between and count as one step.                                       *)
(***************************************************************************)

\* Two hours pass without a diff.  A symbol can be that long in Live, or in
\* the retry loop of a snapshot that keeps failing; every other state times
\* out within seconds or minutes.
GoIdle ==
    /\ LongSilence
    /\ book # NoBook
    /\ ~idle
    /\ (state = "Live" /\ pc \in {"loop", "dead"}) \/ pc = "backoff"
    /\ live = "tick"
    /\ periodic = "tick"
    /\ ~stale
    /\ idle' = TRUE
    /\ UNCHANGED <<streamVars, buffer, state, book, manageVars, liveVars,
                   stale, sideVars, resyncs>>

SweepCollect ==
    /\ book # NoBook
    /\ idle
    /\ ~stale
    /\ stale' = TRUE
    /\ UNCHANGED <<streamVars, buffer, state, book, idle, manageVars, liveVars,
                   sideVars, resyncs>>

SweepRemove ==
    /\ stale
    /\ stale' = FALSE
    /\ RemoveSymbolState
    /\ UNCHANGED <<streamVars, buffer, manageVars, liveVars, periodic, resyncs,
                   delisted>>

Sweep == GoIdle \/ SweepCollect \/ SweepRemove

-----------------------------------------------------------------------------
(***************************************************************************)
(* periodic_snapshot_task: the Live list is taken at the start of a cycle  *)
(* that spreads over three minutes; each symbol's turn checks the delisted *)
(* set, writes the rows (an await) and stamps last_periodic_snapshot.      *)
(***************************************************************************)

PeriodicList ==
    /\ periodic = "tick"
    /\ state = "Live"
    /\ periodic' = "listed"
    /\ UNCHANGED <<streamVars, buffer, state, book, idle, manageVars, liveVars,
                   stale, stamped, delisted, resyncs>>

PeriodicTurn ==
    /\ periodic = "listed"
    /\ periodic' = IF delisted THEN "tick" ELSE "writing"
    /\ UNCHANGED <<streamVars, buffer, state, book, idle, manageVars, liveVars,
                   stale, stamped, delisted, resyncs>>

PeriodicStamp ==
    /\ periodic = "writing"
    /\ periodic' = "tick"
    /\ stamped' = TRUE
    /\ UNCHANGED <<streamVars, buffer, state, book, idle, manageVars, liveVars,
                   stale, delisted, resyncs>>

Periodic == PeriodicList \/ PeriodicTurn \/ PeriodicStamp

-----------------------------------------------------------------------------
\* The discovery loop of main.rs adds the symbol to the shared set and, if
\* the exchange lists it again, takes it out.
Delist ==
    /\ ~delisted
    /\ delisted' = TRUE
    /\ UNCHANGED <<streamVars, buffer, state, book, idle, manageVars, liveVars,
                   stale, periodic, stamped, resyncs>>

Relist ==
    /\ delisted
    /\ delisted' = FALSE
    /\ UNCHANGED <<streamVars, buffer, state, book, idle, manageVars, liveVars,
                   stale, periodic, stamped, resyncs>>

Next ==
    \/ Connect \/ Disconnect \/ ReceiveDiff \/ LoseDiff
    \/ Manage
    \/ LiveLoop
    \/ Sweep
    \/ Periodic
    \/ Delist \/ Relist

Spec == Init /\ [][Next]_vars

\* Tokio runs every task that can run, and its timers fire: each task keeps
\* taking steps.  Nothing is assumed of the exchange, the network, the disk
\* or discovery.
Fairness == WF_vars(Manage) /\ WF_vars(LiveLoop) /\ WF_vars(Periodic)

FairSpec == Spec /\ Fairness

-----------------------------------------------------------------------------
(***************************************************************************)
(* Properties.                                                             *)
(***************************************************************************)

TypeOK ==
    /\ issued \in 0..NumDiffs
    /\ connected \in BOOLEAN
    /\ buffer \subseteq 1..issued
    /\ missed \subseteq 1..issued
    /\ state \in OrderbookState
    /\ book \in Orderbook \cup {NoBook}
    /\ idle \in BOOLEAN
    /\ pc \in ManagePc
    /\ queue \subseteq 1..issued
    /\ lastU \in Nat
    /\ bridging \in BOOLEAN
    /\ live \in {"tick", "listed", "applying"}
    /\ updates \subseteq 1..issued
    /\ live = "applying" <=> updates # {}
    /\ stale \in BOOLEAN
    /\ periodic \in {"tick", "listed", "writing"}
    /\ stamped \in BOOLEAN
    /\ resyncs \subseteq {"bridge_rule_timeout", "snapshot_older_than_buffer"}
    /\ delisted \in BOOLEAN

\* Until a symbol is published as Live its book equals the exchange's book
\* at last_update_id: right after the REST snapshot, after every diff of the
\* attach, and after an attach that a gap cut short.  Diffs an earlier
\* attempt threw away must force a new snapshot, never be skipped over.
SyncExact == state # "Live" /\ book # NoBook => Exact(book)

\* Once Live, a level that is behind the exchange was written by a diff that
\* never reached the book because an outage or the ring buffer lost it; a
\* level nothing was lost on since its last write is right (the self-healing
\* the live loop's comment relies on, orderbook_manager.rs:1101-1113).
LiveHeals ==
    state = "Live" /\ book # NoBook =>
        \A l \in Levels, m \in Diffs :
            /\ book.level[l] < m
            /\ FinalId[m] <= book.id
            /\ l \in Touch[m]
            => m \in missed

\* The attach and the live loop drain the same ring buffer: whatever one of
\* them holds, the other holds nothing, so no diff is applied out of turn.
OneDrainer == pc \in {"bridge", "apply", "golive"} => live = "tick"

\* A delisted symbol whose task has exited leaves no state and no book
\* behind, whatever the live loop and the sweep were doing.
TornDown == pc = "done" => state = "Absent" /\ book = NoBook

\* While a symbol stays Live its book only moves forward in update ids.
LiveForward ==
    [][state = "Live" /\ state' = "Live" => book' = book \/ book'.id > book.id]_vars

\* A Live symbol is taken back to a snapshot by nothing but its delisting:
\* neither a reconnect nor a gap resyncs it (docs/ORDERBOOK.md section 3).
LiveStays == [][state = "Live" => state' = "Live" \/ delisted]_vars

\* The live book is a faithful feed (BookFeed): it starts as the exchange's
\* own book and moves by overlaying later diffs only.
Feed == INSTANCE BookFeed WITH
            published <- issued,
            feed <- IF state = "Live" THEN book ELSE NoBook

FeedRefined == Feed!FeedSpec

\* A symbol that is Live has a book for the live loop to keep.
LiveHasBook == state = "Live" => book # NoBook

\* Teardown of a delisted symbol is not undone by the periodic task
\* (orderbook_manager.rs:1030-1032).  Does not hold of the code; see
\* "Disagreements" in the README.
NoZombie == pc = "done" => ~stamped

\* A confirmed delisting always ends the symbol's task, from whatever state
\* it is in, unless the symbol is listed again first or the task had died.
DelistEndsTask == delisted ~> (~delisted \/ pc \in {"done", "dead"})

\* Syncing is never a resting place: the symbol attaches, or starts over
\* with a fresh snapshot when the bridge does not come in time.
SyncingResolves == (state = "Syncing") ~> (state # "Syncing")

\* Every diff buffered for a Live symbol reaches the book (or a later one
\* does) unless the ring buffer evicts it first, or the sweep takes the book.
LiveCatchesUp ==
    \A n \in Diffs :
        (state = "Live" /\ n \in buffer) ~>
            (state # "Live" \/ n \in missed \/ book = NoBook \/ book.id >= FinalId[n])

-----------------------------------------------------------------------------
(***************************************************************************)
(* The inductive invariant behind the safety properties, for a stream that *)
(* is never silent for two hours (the sweep then never finds a stale book).*)
(* OrderbookSyncProofs proves it.                                          *)
(***************************************************************************)

\* What manage_symbol's place says of the shared state.
PlaceInv ==
    /\ ~idle /\ ~stale
    /\ pc \in {"cooldown", "fetching", "csv", "backoff"} =>
           state = "FetchingSnapshot"
    /\ pc = "csv" => book # NoBook
    /\ pc \in {"bridge", "apply", "golive"} => state = "Syncing" /\ live = "tick"
    /\ pc \in {"writing", "dead"} => state = "Live"
    /\ pc = "done" => state = "Absent" /\ book = NoBook
    /\ state = "Live" => pc \in {"loop", "writing", "dead"}
    /\ state = "Absent" => book = NoBook
    /\ state \in {"Syncing", "Live"} => book # NoBook
    /\ live # "tick" => state = "Live" \/ pc = "done"

\* The book holds nothing the exchange has not emitted.
BookKnown ==
    book # NoBook => \A n \in Diffs : FinalId[n] <= book.id => n <= issued

\* While attaching, the book is at last_u and the next diff continues it.
ChainInv ==
    pc = "apply" =>
        /\ lastU = book.id
        /\ bridging =>
              /\ queue # {}
              /\ \A n \in queue :
                    IsFront(n, queue) => PrevId(n) <= lastU /\ lastU < FinalId[n]
        /\ ~bridging => \A n \in queue : lastU < FinalId[n]

\* What waits in the ring buffer is newer than what was drained from it, and
\* newer than a book about to go Live or Live.
OrderInv ==
    /\ \A n \in queue \cup updates, m \in buffer : n < m
    /\ pc = "apply" /\ ~bridging => \A m \in buffer : lastU < FinalId[m]
    /\ pc = "golive" => \A m \in buffer : book.id < FinalId[m]
    /\ state = "Live" => \A m \in buffer \cup updates : book.id < FinalId[m]

SyncInv ==
    /\ TypeOK
    /\ PlaceInv
    /\ BookKnown
    /\ ChainInv
    /\ OrderInv
    /\ SyncExact

=============================================================================
