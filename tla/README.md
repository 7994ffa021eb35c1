# Verification of binance-futures-collector

TLA+ modules that model the collector's concurrent and failure-prone parts, the
TLC configurations that check them on small instances, and proofs, checked by
TLAPS, of the properties that matter most. Paths are relative to the repository
(`src/...` is the Rust crate). OM, CM, MH, CW, GR, RC, RL, SD, MN, SV abbreviate
`orderbook_manager.rs`, `connection_manager.rs`, `message_handler.rs`,
`csv_writer.rs`, `gap_registry.rs`, `rest/client.rs`, `rest_collector.rs`,
`symbol_discovery.rs`, `main.rs` and `scripts/supervise.sh`; PM is
`rest/proxy_manager.rs`, PY `dashboard/backend/server.py`. `PROJECT.json` maps every definition to the lines
it models.

    tlc -workers 2 -config OrderbookSync.cfg MCOrderbookSync.tla
    tlapm OrderbookSyncProofs.tla

## 1. The system

A collector process subscribes to the streams of every USDT perpetual of Binance
Futures, keeps each symbol's order book, polls REST metrics, and writes it all to
CSV files. A shell script supervises it; a dashboard, a process of its own, edits
its configuration, asks for restarts, and reads the files.

| Component | Code | State it keeps | Operations |
|---|---|---|---|
| Order book manager | OM | per symbol: `symbol_states`, `orderbooks`, `last_processed_time`, `last_periodic_snapshot`, resync times and backoffs | `manage_symbol` (cooldown, snapshot, attach, go live), live loop every 500 ms, stale sweep every 5 min, periodic snapshot, teardown |
| WebSocket connections | CM | `connections` (last pong), `batch_shutdown_flags`, `symbol_buffers` (ring buffers), `shutdown` | connect, read, answer pings, reconnect with backoff, heartbeat monitor, shutdown |
| Message handler | MH | trade dedup windows, the channel's receiver | take a message, write its row, drain at shutdown, hourly cleanup |
| CSV writer | CW | `buffers`: path to `Arc<FileBuffer>` | open and write header, append, depth rows sorted at flush, one-second flush, rotation and cleanup (eviction), drain on drop |
| Gap registry | GR | events per symbol, `dirty_symbols` | record an event, periodic save, save at shutdown (temporary file and rename) |
| REST client | RC | two weight windows, one circuit breaker | acquire, send, classify the answer, trip, retry |
| Proxy manager, usage tracker | `rest/proxy_manager.rs`, `proxy_usage_tracker.rs` | health scores, round-robin index | choose, report success or failure, health check |
| REST collectors | RL | `last_bucket` per series and symbol | poll a window of buckets, skip the old, write the new |
| Symbol discovery | SD, MN 409-494 | `SymbolSetTracker` (`known`, `missing_once`); shared `delisted` and `new_listings` | discover, sanity floor, observe, apply added and removed |
| Main | MN | task handles, the handler's notification | wiring, staged start, shutdown |
| Supervisor | SV | `collector_pid`, the sentinel file | launch, watch, restart, forward a signal and await the drain |
| Dashboard backend | PY | configuration file, sentinel, caches | `set_config`, `restart`, reconstruction, replay, validators |
| Statistics, configuration, types | `utils/`, `config.rs`, `models.rs` | counters | no state another part depends on |
| Frontend, setup, images, CI | `dashboard/frontend`, ... | none | user interface and build |

**How they interact.** A connection task puts every parsed message into one bounded
channel to the message handler and every depth diff also into its symbol's ring
buffer. `manage_symbol` (one task per symbol) drains that ring buffer while it
attaches; the live loop (one task for all) drains it once the symbol is Live. Both
share the maps of OM with the sweep and the periodic task. Handler, order book
tasks and REST pollers write through the one CSV writer, whose flusher and
evictions run beside them. `manage_symbol` and the pollers share the REST limiters
and the breaker. The discovery loop changes the shared `delisted` set that the
order book tasks look at. Shutdown walks the connections, notifies the handler,
joins it for at most five seconds, flushes the files and saves the gap registry.

**What is hard, and what makes each part correct.**

- *Order book.* A book is exact only if the snapshot meets the stream without a
  hole, while the stream keeps arriving, breaks, overflows the ring buffer, and two
  tasks may drain it. Correct: a book published as Live is the exchange's, from
  then on it moves forward and heals level by level, delisting removes everything,
  and no state is a resting place except Live.
- *Limiters.* Callers sleep between looking and sending and race each other on the
  breaker. Correct: no stretch of a window outweighs the budget, no pause is lost
  to a shorter one, every call ends.
- *CSV files.* Tasks hold a file that has been evicted and reopened. Correct: every
  row handed over reaches the disk once unless a fault or crash takes it.
- *Gap registry.* Marks are cleared before the files are written. Correct: a
  recorded event gets saved, and what is saved stays.
- *Ingest and shutdown.* Half-dead sockets, a full channel, a stop at any point.
  Correct: a connection comes back from everything, shutdown ends and loses
  nothing the handler had in its queue if the handler was joined.
- *Universe.* Degraded answers, relistings while a task is still ending. Correct:
  one bad answer delists nothing; every listed symbol is collected or announced.
- *Snapshot requests.* Every resync and every start asks an exchange that bans those
  who ask too much. Correct: a symbol's requests keep their distance through every
  failure and never stop; at the start everyone gets a turn, however the others fare,
  and no more than two batches ask at once.
- *Trades.* A reconnect replays trades while a cleanup drops the memory of them.
  Correct: a replayed trade is told from a new one.
- *REST series.* Overlapping windows polled at an uneven pace, symbols that leave in
  the middle of a round, requests that fail. Correct: no bucket is passed over, none
  written twice or unfinished; every listed symbol is polled again, a delisted one no
  longer.
- *Proxies.* Concurrent requests step one index and store scores over each other's.
  Correct: a sick proxy is passed over while a search finds another, and none is lost
  for good.
- *Supervisor.* Traps between any two commands, a drain that hangs. Correct: two
  collectors never overlap, a requested restart is applied, a signal ends it all.

The hazards behind these are listed line by line in `PROJECT.json`.

## 2. Modules

    DepthStream            the exchange's diffs, books and snapshots
      BookFeed             abstract: what a consumer of a live book is promised
      OrderbookSync        detailed: one symbol's life; implements BookFeed
    BookAlgorithms         normalize, find_bridge and the attach loop, as operators
    BookDepth              apply_update_to_book and the trimming
    SnapshotThrottle       cooldown and backoff of a symbol
    StagedStart            start(): batches, gaps, first requests
    RestLimiter            acquire, make_request, retries
    CsvFile                one file and all who touch it
    GapRegistry            one symbol's events and the saves
    SymbolUniverse         tracker, floor, discovery loop
    Ingest                 sockets, channel, handler, shutdown
    TradeDedup             process_trade, its window and the cleanup
    RestPoll               one bucketed series
    PollRounds             a polling lane, of each kind
    ProxyPool              proxies, their scores, the healer
    Supervisor             script, collector and dashboard
    MC*                    model values for TLC

    OrderbookSyncProofs    proofs about OrderbookSync
    RestLimiterProofs      ... RestLimiter
    GapRegistryProofs      ... GapRegistry
    IngestProofs           ... Ingest
    SymbolUniverseProofs   ... SymbolUniverse
    DataProofs             ... BookAlgorithms, BookDepth, TradeDedup, CsvFile
    StartupProofs          ... StagedStart, SnapshotThrottle, Supervisor
    RestProofs             ... RestPoll, ProxyPool

**DepthStream, BookFeed, OrderbookSync.** A diff is its number, a level's quantity
the number of the diff that last wrote it, so "equals the exchange's book at update
id i" (`Exact`) is a predicate on numbers. `Snapshots(k)` are all the answers the
REST endpoint may give after k diffs, stale ones and ones in the middle of a diff
included. OrderbookSync has one action for each stretch of code between two points
where another task can look at the shared maps: `ManageDelisted` to
`BridgeSnapshotWriteErr` are the steps of `manage_symbol`, with
`fetch_and_apply_snapshot` and `try_attach_to_stream` inlined at their awaits;
`LiveList`, `LiveDrain`, `LiveApply` the live loop; `SweepCollect`, `SweepRemove` the
stale sweep; `PeriodicList`, `PeriodicTurn`, `PeriodicStamp` the periodic task;
`ReceiveDiff` is `buffer_depth_update`. `pc` is the place in `manage_symbol`. Symbols
share none of this state, so one symbol is the whole story. One socket delivers in
order, hence a ring buffer is a set of numbers. Duplicates and disorder, which two
overlapping connections can produce, are treated in **BookAlgorithms**, where the
buffer is a sequence of real records (U, u, pu, event time).

**BookDepth** has one side of a book next to the exchange's unbounded one, with prices
and quantities. **RestLimiter** keeps the ages of window entries and the ticks each
task still sleeps instead of a clock; `TripLoad`, `TripExchange`, `TripReload` and
`TripShorter` are the compare-and-swap loop of `CircuitBreaker::trip`. **CsvFile** separates the map's
entry from the `Arc` each actor holds; `LetGo` is the drop of an `Arc`, with the drain
when it is the last. **GapRegistry** writes files as inodes, because two savers share
one temporary name. **SymbolUniverse** applies a discovery result symbol by symbol, as
the loop does, beside the tasks that end. **Ingest** keeps of a message only whether
it becomes a row. **RestPoll** numbers buckets; `HoldsBack` tells kline windows from
ratio windows; the five pollers with a window share this shape, and the map takes
their definitions from different ones. A symbol that was delisted for long is polled
again after a longer gap than `MaxGap`: `NoHole` is about a symbol that stays
listed. **SnapshotThrottle** is
`manage_symbol` again, with the timers OrderbookSync leaves out and without the stream:
`lastSnapshot` is the age of `last_snapshot_time`, `backoff` the entry of
`resnapshot_backoff`, `SweepRemoves` and `LeaveDelisted` drop both. Time is relative: a
tick may come at any moment, so a distance it shows is a lower bound. `Growth` is the
multiplication by `resync_backoff_factor`, `Schedule` the backoff after k failures that
follows from it. **StagedStart** has `start()`, from the priority symbol through the
batches; its ticks are exact, since none passes while the starter has a step to take. Of a
symbol's task only the first request counts. **TradeDedup** has one symbol's window, the
handler's steps and the cleanup's, any id at any time. **PollRounds** runs one lane whose
`kind` is drawn at the start: the bulk answer of the funding rates, one request per
symbol, a second one that needs the first, three at once; `out` and `got` are the
requests of a symbol's task on their way and its answers. **ProxyPool** separates load
and store of a score, by requests (`Report`, `Store`) and by the healer (`CheckerLoads`,
`CheckerStores`); a step of `fetch_add` and the load of the score it leads to are one.
**Supervisor** makes each shell command a step, so that a trap can run
between any two.

## 3. Runs

Eleven runs pass and one shows a disagreement. Three of them hold several models:
`MCData`, `MCStartup` and `MCRest` EXTEND modules that share no state and let each
behaviour be one of one of them, by a variable `part` that is drawn at the start, while
the other parts are at rest, without a step that fairness would ask for. The run then
checks each module as it would alone, and no product of independent states is explored. Bounds are the constants commented
"bound" in each module; they are guards of the actions they bound.

| Run | Bounds | What it shows |
|---|---|---|
| `sync` | 4 diffs of two update ids with a skipped id between them, 2 levels, ring buffer of 3 | With outages, evictions, failing snapshots and writes and (re)delistings: until Live the book is the exchange's own (`SyncExact`), a stale Live level was written by a lost diff (`LiveHeals`), BookFeed is implemented (`FeedRefined`). |
| `sync_sweep` | 2 diffs, ring buffer of 1, two-hour silences, fairness | With the stale sweep racing everything: teardown is complete (`TornDown`), a delisting ends the task (`DelistEndsTask`), Syncing is left (`SyncingResolves`), a buffered diff reaches the live book (`LiveCatchesUp`). |
| `data` | BookAlgorithms: every buffer of at most 4 of 7 messages (5 updates, two with a duplicate), 13 snapshot ids; BookDepth: depth 2 of 4 prices, 2 quantities, 2 lost diffs; TradeDedup: a window of 2 of 4 ids | `AttachSound`: `Normalize` keeps the newest record of each update in order, what goes live is gapless and complete, an unbroken stream always attaches. `HealedLevels`: every level updated since the loss is right. `ReplayTold`: a trade of the window is not taken twice, none is passed over that was not taken. |
| `trim_forgets` | depth 2 of 4 prices, nothing lost | Violated: the book is not always the exchange's best levels (`BookIsTop`). |
| `limiter` | a request heavier than the whole budget and one of which two fit, 4 attempts each, window 2, pauses 3 and 1 | `WindowBound`, `RetryAfterRespected`, `CallsSettle`. |
| `csv` | a depth file with one writer, or a snapshot file with two; a flusher, one evicting task; 2 rows, a disk fault and a crash | No row is stranded or doubled (`RowsConserved`), `OneHeader`, and every row reaches the disk or was taken by the fault or the crash (`ReachesDisk`). |
| `gaps` | 4 events, history capped at 2, a fault, a crash at any step | `SavedStays` (and no file is torn), `ShutdownSaves`, `EventsAreSaved`. |
| `universe` | 3 collectable symbols (one an excluded anchor), one filtered out, 2 degraded answers, a restart, floor 2/3 | `TwoStrikes`, `AlertsMatch` (every listed symbol is collected or announced, no alert for one that left), and the dead are dropped (`DeadIsDropped`). |
| `ingest` | a connection, 2 channel slots | `JoinedOnDisk`, `FreshNotCut` (the heartbeat does not cut a connection for its predecessor's silence), `Reopens`, `ShutdownEnds`. |
| `startup` | StagedStart: a priority symbol and batches of 2, 2 and 1, a request of 9 ticks against 6 between batches; SnapshotThrottle: cooldown 2, backoffs 3, 4, 5, sweep after 6 | `AllStarted`: neither a symbol that never goes Live nor a silent batch keeps the rest from starting. `BatchesApart`: only neighbours' first requests overlap, and the priority symbol's with nobody's. `RequestsSpaced`, `KeepsAsking`: a symbol's requests keep their distance and go on. |
| `poll` | RestPoll: windows of 4 minutes, 6 minutes, a restart, the slowest pace the window covers; PollRounds: 3 symbols in 2 chunks, all kinds of lane; ProxyPool: 2 requests at a time, 2 proxies, scores 0 to 3 | `NoHole`, `InOrder`; `EveryoneIsPolled`, `DelistedGoQuiet`; `FallbackJustified`, `NoneAbandoned`. |
| `supervisor` | 2 edits, 3 restart requests, 2 crashes, a signal at any command | `NotLeftBehind`, `NoOverlap`, `RestartApplied`, `TermEnds`. |

**Why the bounds are enough.** Each is the least at which the interesting cases occur.
`sync`: a snapshot can be older than the buffer, fall in the skipped id between two
diffs, on a boundary, inside a diff and beyond the buffer, with diffs on both sides; a
buffer of three holds a bridge, a successor and a hole; the other two diffs are the
loss and what comes after it. `limiter`: two admissions fill a window, so a
third has to wait, and two callers are enough for the compare-and-swap to fail.
`csv`: two writers, so one may open while the other holds an evicted buffer.
`gaps`: two events overflow the cap twice. `universe`: two ordinary symbols, so that
one can be gained while the other is lost; the floor of 2/3 lets one of three go as
9/10 lets ten of a hundred. `startup`: three batches after the priority symbol, so that
one could overlap the next but one, with requests that outlast the gap as the shipped
60 s and 30 s do; three failures reach the ceiling. `poll`: of two chunks one is full
and one is not; two searches are enough to disturb each other's walk, and two proxies
let both be sick, or one. `data`: a window of two forgets the third trade while the
fourth comes. Each property has a mutant of the code in
`PROJECT.json` that violates it within these bounds.

`CHECK_DEADLOCK FALSE` is set where the system really stops: when the script or main
has ended, or a bounded supply (messages, rows, events, minutes) is used up.

### Fairness, and why the code justifies it

The Tokio runtime keeps scheduling every task that can run, and its timers and
intervals fire; so steps of the program's own tasks are weakly fair. Nothing is
assumed of the exchange, the network, the disk, discovery or users, with the
exceptions named here.

- `OrderbookSync`: `Manage`, `LiveLoop`, `Periodic`. A snapshot may fail for ever.
- `RestLimiter`: time passes, each call moves. A request gets an answer or an error
  because the HTTP client has a timeout.
- `CsvFile`: the flush interval, each actor at work. Writers need not come.
- `GapRegistry`: an `add_event` underway, both savers.
- `SymbolUniverse`: discovery succeeds again and again, its result is applied, a
  delisted task sees it (every wait of `manage_symbol` does, proved to end in
  `sync_sweep` as `DelistEndsTask`).
- `Ingest`: each connection and the handler. Strong fairness where a task waits for a
  slot of the channel (senders are served in turn: Tokio's semaphore is FIFO), where
  `select!` chooses among ready branches, and for `ConnectOk`: the exchange does
  not refuse every attempt for ever, without which `Reopens` asks the impossible.
- `StagedStart`: the starter is polled, time passes, a request meets its timeout. No book
  has to go Live, no symbol has to be heard.
- `SnapshotThrottle`: the task is polled, its sleeps and its request end. Every request
  may fail.
- `PollRounds`: the lane is polled, its sleeps end, and each request is answered or fails
  (`CallsSettle`).
- `ProxyPool`: requests end within their 30 s, a proxy nobody uses has rested long
  enough sooner or later, and the healer's minute comes round. Strong fairness for
  `CheckerLoads`: each cycle looks at every proxy, and one that is rested stays so until
  it is used.
- `Supervisor`: each command returns, a SIGKILL takes effect, an edit of the file is
  completed. A drain need not end, that is what `await_exit` is for.

## 4. Proofs

Every safety property a run checks, invariant or action property, is also proved, for
every value of the constants that satisfies the modules' `ASSUME`s:

| Module | Theorems | Say |
|---|---|---|
| OrderbookSyncProofs | `SyncExactAlways`, `LiveHealsAlways` | `[]SyncExact`, `[]LiveHeals` |
| | `OneDrainerAlways`, `LiveHasBookAlways`, `LiveForwardAlways`, `LiveStaysAlways` | attach and live loop never hold diffs at once; a Live symbol has a book; it only moves forward; only a delisting ends Live |
| | `SyncImplementsFeed` | `Spec => FeedRefined` |
| | `TornDownAlways` | `[]TornDown`, with the sweep |
| DataProofs | `AttachSoundAlways` | `[]AttachSound`, for every buffer and snapshot of a stream |
| | `HealedAlways` | `[]HealedLevels`, for any depth and any losses |
| | `ReplayToldAlways` | `ReplayTold`, for any window |
| | `RowsConservedAlways`, `OneHeaderAlways` | `[]RowsConserved`, `[]OneHeader`, for any number of tasks, rows, faults and crashes |
| GapRegistryProofs | `SavedStaysAlways`, `ShutdownSavesAlways` | `[]SavedStays`, `[]ShutdownSaves`, for any cap |
| RestLimiterProofs | `WindowBoundAlways`, `RecentIsYoung` | `[]WindowBound`, for any budgets, windows and calls |
| | `NoTripIsLost`, `RetryAfterAlways`, `BannedStopsAlways` | no pause is lost or cut short; a caller waits out its own; a 418 is final |
| StartupProofs | `BatchesApartAlways` | `[]BatchesApart`, for any batches and waits |
| | `RequestsAreSpaced`, `ThrottleInvariant` | the cooldown and, after k failures, the k-th backoff lie between two requests, for any cooldown, growth and ceiling |
| | `NoOverlapAlways`, `NotLeftBehindAlways` | for any number of edits, restarts and crashes |
| SymbolUniverseProofs | `TwoStrikesAlways`, `AlertsMatchAlways` | as the properties they name |
| IngestProofs | `TypeCorrect`, `JoinedOnDiskAlways`, `FreshNotCutAlways` | as above |
| RestProofs | `NoHoleAlways`, `InOrderAlways` | for klines and ratios, any window and any pace within its reach |
| | `FallbackJustifiedAlways` | `[]FallbackJustified`, for any number of proxies and callers |

`TornDown` is inductive as it stands; the others are not. What follows names the invariant each
proof carries and why; all of them were run through TLC before they were proved, and
each is preserved one action at a time.

**Order book.** `SyncExact` needs to know that each diff an attach applies continues the
one before (`ChainInv`), that nothing older waits behind what was drained (`OrderInv`),
that the book does not know the future (`BookKnown`: a snapshot cannot cover a diff that
was not emitted), and which states go with which place of `manage_symbol` (`PlaceInv`:
an attach runs only in Syncing, when the live loop leaves the buffer alone). `SyncInv`
is the conjunction. The refinement maps `feed` to the book while Live and to nothing
before: `GoLive` is `SwitchOn` by `SyncExact`, `LiveApply` is `Advance` by `OrderInv`,
teardown is `SwitchOff`, all else stutters. `LiveHeals` is about diffs nobody may have
dropped unseen: `HealInv` says that what is buffered or drained is, but for the missed
diffs, the whole stream from its first diff on, and that a book that is Live or about
to be has everything beyond it among those (`Ahead`). These theorems assume
`~LongSilence`: the sweep can take the book of a task between fetch and GoLive
(section 5), so they do not hold otherwise; type correctness and `TornDownAlways` are
proved without that assumption.

**Attach.** `AttachSound` is about functions of the buffer, so its invariant is only that
the buffer is a sequence of messages; the work is in the lemmas. Both sorts rest on
`Places`: in a finite set with a strict order, the number of elements ahead of each is
a bijection with 1..n, so what is picked place by place loses and repeats nothing. The
map from final ids to records is a recursive function over the sorted messages:
`KeepFacts` says what one insertion keeps, `DedupFacts` carries it through. That what
goes live is complete needs the ids of a stream's updates not to overlap
(`MessagesAssumption`, the exchange's contract): then what lies before the bridge ends
where the bridge begins, which the snapshot covers. Holes, duplicates and disorder are
allowed.

**Levels.** Trimming keeps quantities, so a level that is not stale has the exchange's.

**Trades.** `DedupInv`: the set and the queue hold the same ids, once each, so removing
the front of the queue from the set forgets exactly that id; and an id that is
remembered is written, failed, or in the handler's hand.

**CSV file.** `RowInv` says of every await who can still reach which buffer (`HoldInv`: a
buffer nobody refers to is empty, since the last to let go drains it), and that what is
carried, buffered, handed to the BufWriter and on disk are disjoint and together with
the rows lost all that was handed over (`Accounted`). `HeadInv` adds, for depth files,
that while the file is empty nobody but its opener is at work on it.

**Gap registry.** Lists rise, so "displaced by Cap newer ones" is transitive
(`Covers`). `Files`: while no two savers met, the temporary inode belongs to the one at
work and is not the file under the registry's name. `SavedCovered` and `OwedCovered`
carry the promise from the entry through each clone to the disk; the subtle part is an
event whose mark is still to come when a save takes the flag (`Marked`).

**Limiter.** `WindowInv`: a limiter's entries that are not expired are the admissions of
the last window, in the order of their ages, and within the budget; the entries that
are expired stand in front, so popping them and summing the rest is right.
`RecentIsYoung` says that the history the bound is stated on keeps nothing else.
`PauseInv`: what r still owes of the pauses it asked for is covered by the breaker, or,
inside the compare-and-swap loop, by the value r is about to store; and a value r has
loaded is never above the breaker's, because nobody lowers it. So a swap that fails has
only been overtaken by a longer pause. `BanInv`: a 418 is on its way out.

**Staged start.** `StartInv` bounds the age of each request under way from below by the
waits the starter has been through since (`Aged`, with `Lead` and `Own` for the batch it
is on); two batches back that exceeds the client's timeout. This needs
`HttpTimeout < 2 * (BatchGap + BufferDelay)` and, for the priority symbol,
`HttpTimeout < PriorityTimeout + BatchGap + BufferDelay`, which the shipped
configuration satisfies and `StagedStartAssumption` states.

**Requests.** `RequestsSpaced` compares clocks that different steps set. `ThrottleInv`
ties them: the stamp is never older than the last request (`StampTrue`, unless the sweep
dropped it), what a sleep has left and what has passed add up to the cooldown or the
backoff (`CooldownAhead`, `BackoffAhead`), the backoff is the schedule's for as many
failures as there were (`OnSchedule`), and it is over before the next request
(`BackoffOver`).

**Series.** `IInv` of RestProofs adds to `NoHole` that what is still to be looked at
is a stretch of consecutive buckets (`Convex`), that it joins what was written
(`Joins`), and that the next window will (`Covered`, from `Paced`: at most `Reach`
buckets close between two answers).

**Proxies.** `PoolInv`: a search that had the index to itself has noted as sick the
proxies the index has just come past, as many as it made attempts (`Noted`). After at
least as many attempts as there are proxies these are all of them.

**Others.** SymbolUniverse: a symbol in `missing_once` was absent from the last result
(`StrikeIsAbsence`), and what is being removed is no longer known. Ingest: what was
queued at the notification is still at the head of the channel (`DrainInv`), and a
stale `connections` entry belongs to the connection whose flag the monitor sets
(`PongInv`). Supervisor: between the wait and the launch there is no process
(`Vacant`).

**Recursion and induction.** Sums, folds and the popping of a queue are written as
recursive functions or as the length of a prefix, never as RECURSIVE operators. What
they compute is proved by `SetInduction`: a set of numbers that has 0 and the successor
of each of its members has every number, which follows from the well-foundedness of
`<` (the library's own induction theorems take an operator as a parameter, which the
installed provers cannot instantiate).

**Only model-checked.** Liveness, which rests on fairness and so on `ENABLED`, which
TLAPS does not reason about: `DelistEndsTask`, `SyncingResolves`, `LiveCatchesUp`,
`CallsSettle`, `ReachesDisk`, `DeadIsDropped`, `EventsAreSaved`, `Reopens`,
`ShutdownEnds`, `RestartApplied`, `TermEnds`, `EveryoneIsPolled`, `DelistedGoQuiet`,
`NoneAbandoned`, `AllStarted` and `KeepsAsking`. PollRounds has no safety property of
its own beside its types. The module BookFeed is an abstract specification and
DepthStream its data; both are proved about through OrderbookSync.

## 5. Disagreements met

What a document or comment says and the code, as modelled, does not do. `trim_forgets`
is kept as a run. Each of the others is a formula of its module that TLC refutes when
it is added to the module's `.cfg`; the runs check what does hold.

- **A trimmed level is forgotten.** `apply_diff` trims to `depth_limit` (OM 712). A
  level that moves back inside the bound is missing until it changes, with no outage.
  `docs/ORDERBOOK.md` 122-126 names only levels changed during an outage.
  (`BookIsTop`)
- **The sweep re-anchors a Live symbol.** After two silent hours OM 832 removes state and
  book, and `manage_symbol` starts over. `docs/ORDERBOOK.md` 49-50 reserves that for
  bridge failures. (`LiveStays`, with `LongSilence = TRUE`)
- **Stamp after teardown.** `periodic_snapshot_task` awaits the write before it inserts
  (OM 1046); teardown can come in between, which the comment at OM 1030-1032
  means to exclude. Only `last_periodic_snapshot` is left behind. (`NoZombie`)
- **A request sent while the breaker blocks.** `acquire` checks the breaker, then waits
  for the window's lock (RC 113); the doc comment at RC 88-89 says it first waits the
  breaker out. (`AdmittedOpen`)
- **Two headers.** Two tasks that open the same new snapshot file both see it empty
  (CW 138). README 296-298 and CW 166-171 say once. `OneHeader` is therefore checked for
  depth files, which have one writer. Likewise rows of a depth file written to
  an evicted buffer can land after later ones (CW 800), against README 296.
- **The floor is masked by additions.** MN 437 compares sizes, so new listings hide
  a loss; the comment at MN 431-436 and README 293-295 speak of the loss.
  (`LossWithinFloor`)
- **Save at shutdown beside the periodic save.** A symbol whose mark the periodic save
  took (GR 156) is not saved again, and main may return before it is written
  (README 413-415); and the two can write one temporary file (GR 146), against the
  comment at GR 143. `ShutdownSaves` and `NeverTorn` except such an `overlap`.
- **A connection that shutdown misses.** It reads the flag (CM 232), then registers its
  own (CM 312). The comment at CM 131 says all are signalled. The process
  still ends. (`AllSignalled`)
- **A signal between launch and pid.** A trap that runs before SV 79 has no pid to
  forward to, so the collector is not drained; the comment at SV 59 says it is.
  (`DrainedAtExit`; `NotLeftBehind` is what holds)
- **The sweep lifts the cooldown.** It drops `last_snapshot_time` and
  `resnapshot_backoff` with the rest (OM 848, 851), also while the task asks or backs off,
  and the next request goes out at once; `config.example.toml` 34 calls the
  cooldown the minimum gap between resync attempts, and `docs/ORDERBOOK.md` 146 a floor.
  (`MinimumGap`)
- **Batches stack their requests.** A batch takes 60 s to send its requests and may wait
  60 s for each, but the stability check looks at depth messages, not at requests, so
  those of the next batch go out on top of them; the comment at OM 325-326 says they
  cannot. A batch that is stable early saves no time: the gap is waited out (OM 358-362).
  (`NoStacking`)
- **Sockets first, but not awaited.** The comment at OM 165-167 says the socket must be open
  and buffering before the snapshot; the code waits a fixed `ws_buffer_delay_seconds`
  (OM 176, 301) and does not ask. StagedStart leaves the sockets out for that reason.
- **A fallback with a healthy proxy at hand.** Two searches step one index (PM 123): each
  can meet the same sick proxy at every turn and report "No healthy proxy found"
  (PM 140). (`FallbackMeansNone`; `FallbackJustified` is what holds)
- **A window dropped while in use.** The cleanup lists the stale symbols and drops them
  afterwards (MH 140-154), with a trade that came in between; comments at MH 49 and MH 140
  speak of the last trade's time and of stale symbols. A window made anew between the
  two removals has no stamp until its next new trade. (`OnlyStaleDropped`)
- **A trade whose write failed is not written again.** The id is in the window before the
  row is written (MH 242, 255), so its replay is a duplicate.
- **A failed row is forgotten.** `is_new_bucket` records the bucket before the write
  (RL 65), against `docs/ARCHITECTURE.md` 154-158. (`NothingLost`)
- **A restart writes buckets again.** `last_bucket` is memory (RL 51), while the comment at
  RL 18 says the overlap is de-duplicated. (`OneRow`)

## 6. Not modelled

Row formatting and directory layout, request building and JSON decoding, statistics and
configuration parsing, the frontend, CI and images: no state another part depends on,
or pure I/O. Lengths of reconnect delays and of jitter: a delay is a step that may take
any time, so what depends on their length is not shown; lengths are modelled where a
property is about them, in RestLimiter, SnapshotThrottle and StagedStart. Starvation of a
heavy request by light ones that never stop: nothing in the code excludes it, and
`CallsSettle` is about calls that end. The records of the proxy usage tracker and the
counters of the handler and of the proxies, which nothing but the dashboard reads. The
dashboard's readers, see the plan.

## 7. Plan

Done, in this order: order book (core, refinement, proofs), algorithms, limiter, CSV file,
gap registry, universe, ingest and shutdown, supervisor, REST series; then the throttle of
the snapshot requests with its proofs, the staged start, the polling lanes, the proxies and
the trade windows.

Next:

1. `Reconstruct` (PY 659-734, 954, 1393-1458): a book rebuilt from snapshot and diff files
   is one the collector had, with `OrderbookSync` as what wrote them.
2. Composition of `SymbolUniverse` with `OrderbookSync`'s teardown, replacing `StopBook`.

Theorems next: that RestLimiter implements an abstract limiter without a window (what is
sent in a window fits the budget), and CsvFile a file that rows are handed to once.
