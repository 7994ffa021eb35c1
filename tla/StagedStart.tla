---------------------------- MODULE StagedStart ----------------------------
(***************************************************************************)
(* The staged startup: start() of src/collectors/orderbook_manager.rs,     *)
(* which main.rs spawns with the symbols and the priority symbol, and what *)
(* it uses of websocket/connection_manager.rs.  One task walks through the *)
(* batches: sockets first, a fixed delay for them to buffer, then one      *)
(* manage_symbol task after the other, a wait until the batch has settled  *)
(* or has had its time, and the rest of the gap.  Of a symbol's task only  *)
(* the first snapshot request is followed; it may end in any way, or be    *)
(* cut off at its timeout.                                                 *)
(*                                                                         *)
(* A tick is a stretch of some seconds.  It never comes while the starter  *)
(* has a step to take or a request is past its timeout, so what is said of *)
(* a time here is exact up to the scale.                                   *)
(***************************************************************************)
EXTENDS Integers, Sequences, SequencesExt

CONSTANTS
    Batches,          \* the symbols in the order start() takes them, in chunks
    Priority,         \* TRUE: the first chunk is the priority symbol
    BufferDelay,      \* ws_buffer_delay_seconds
    BatchGap,         \* batch_gap_seconds
    PriorityTimeout,  \* priority_timeout_s
    CheckEvery,       \* stability_check_interval
    Spread,           \* snapshot_spread_seconds
    HttpTimeout       \* snapshot_http_timeout_seconds

Symbols == UNION {ToSet(Batches[b]) : b \in DOMAIN Batches}

\* chunks() leaves no batch empty, the exchange lists a symbol once and the
\* priority symbol is taken out of the rest, so no symbol is in two batches.
\* The requests of one batch may overlap those of the next, as they do with
\* the shipped 60 s for a request and 30 s between batches, but not of the
\* one after it; and the priority symbol has the start to itself.
ASSUME StagedStartAssumption ==
    /\ Batches \in Seq(Seq(Symbols) \ {<<>>})
    /\ \A b, c \in DOMAIN Batches : b # c => ToSet(Batches[b]) \cap ToSet(Batches[c]) = {}
    /\ Priority \in BOOLEAN
    /\ Priority => Batches # <<>> /\ Len(Batches[1]) = 1
    /\ BufferDelay \in Nat /\ BatchGap \in Nat /\ PriorityTimeout \in Nat
    /\ CheckEvery \in Nat /\ Spread \in Nat /\ HttpTimeout \in Nat
    /\ HttpTimeout < 2 * (BatchGap + BufferDelay)
    /\ HttpTimeout < PriorityTimeout + BatchGap + BufferDelay

VARIABLES
    batch,      \* the batch the starter is on
    stage,      \* what it does with it
    next,       \* index in the batch of the next symbol to spawn
    timer,      \* ticks the starter still sleeps
    elapsed,    \* as in the code: the ticks spent on settling, one check at a time
    task,       \* [Symbols -> "none", "fetching" or "asked"]: the first request
    age,        \* [Symbols -> ticks the request has been under way]
    heard,      \* symbols of this batch with batch_stability_min_messages
    firstLive   \* the priority symbol's book is Live

starterVars == <<batch, stage, next, timer, elapsed>>
startVars == <<starterVars, task, age, heard, firstLive>>

IsPriority == Priority /\ batch = 1
IsLast == batch = Len(Batches)

StartInit ==
    /\ batch = 1
    /\ stage = IF Priority THEN "socket" ELSE "loops"
    /\ next = 1
    /\ timer = 0
    /\ elapsed = 0
    /\ task = [s \in Symbols |-> "none"]
    /\ age = [s \in Symbols |-> 0]
    /\ heard = {}
    /\ firstLive = FALSE

-----------------------------------------------------------------------------
\* The periodic snapshots, the live updates and the stale sweep start only
\* between the priority symbol and the first normal batch.
StartLoops ==
    /\ stage = "loops"
    /\ stage' = IF batch <= Len(Batches) THEN "socket" ELSE "over"
    /\ UNCHANGED <<batch, next, timer, elapsed, task, age, heard, firstLive>>

\* start_batch spawns the connections and returns; whether they come up, the
\* starter does not ask.
StartBatch ==
    /\ stage = "socket"
    /\ stage' = "spawn"
    /\ timer' = BufferDelay
    /\ heard' = {}
    /\ UNCHANGED <<batch, next, elapsed, task, age, firstLive>>

DelayPerSymbol == Spread \div Len(Batches[batch])

\* One manage_symbol task, which sends its request at once.
SpawnTask ==
    /\ stage = "spawn"
    /\ timer = 0
    /\ task' = [task EXCEPT ![Batches[batch][next]] = "fetching"]
    /\ \/ /\ next < Len(Batches[batch])
          /\ next' = next + 1
          /\ timer' = DelayPerSymbol
          /\ UNCHANGED stage
       \/ /\ next = Len(Batches[batch])
          /\ next' = 1
          /\ stage' = IF IsLast /\ ~IsPriority THEN "over" ELSE "settle"
          /\ UNCHANGED timer
    /\ elapsed' = 0
    /\ UNCHANGED <<batch, age, heard, firstLive>>

\* The priority symbol settles by going Live, a batch by being heard.
Settled == IF IsPriority THEN firstLive ELSE ToSet(Batches[batch]) \subseteq heard
Patience == IF IsPriority THEN PriorityTimeout ELSE BatchGap
Pause == IF IsPriority THEN 1 ELSE CheckEvery

\* Mutant: the check interval is slept but not added up.
CheckUncounted ==
    /\ stage = "settle"
    /\ timer = 0
    /\ elapsed < Patience
    /\ ~Settled
    /\ timer' = Pause
    /\ UNCHANGED <<batch, stage, next, elapsed, task, age, heard, firstLive>>

CheckAgain ==
    /\ stage = "settle"
    /\ timer = 0
    /\ elapsed < Patience
    /\ ~Settled
    /\ timer' = Pause
    /\ elapsed' = elapsed + Pause
    /\ UNCHANGED <<batch, stage, next, task, age, heard, firstLive>>

\* Mutant: a settled batch needs no gap.
NoRest == IF IsPriority THEN BatchGap ELSE IF elapsed < BatchGap /\ ~Settled THEN BatchGap - elapsed ELSE 0

\* After the priority symbol the whole gap, after a batch what the checks
\* have left of it (saturating_sub): settling early saves no time.
RestOfGap ==
    IF IsPriority THEN BatchGap ELSE IF elapsed < BatchGap THEN BatchGap - elapsed ELSE 0

\* Settled, or out of patience ("Proceeding anyway").
Rest ==
    /\ stage = "settle"
    /\ timer = 0
    /\ elapsed >= Patience \/ Settled
    /\ stage' = "rest"
    /\ timer' = RestOfGap
    /\ UNCHANGED <<batch, next, elapsed, task, age, heard, firstLive>>

NextBatch ==
    /\ stage = "rest"
    /\ timer = 0
    /\ batch' = batch + 1
    /\ stage' = IF IsPriority THEN "loops" ELSE "socket"
    /\ UNCHANGED <<next, timer, elapsed, task, age, heard, firstLive>>

Starter == StartLoops \/ StartBatch \/ SpawnTask \/ CheckAgain \/ Rest \/ NextBatch

-----------------------------------------------------------------------------
RequestEnds(s) ==
    /\ task[s] = "fetching"
    /\ task' = [task EXCEPT ![s] = "asked"]
    /\ age' = [age EXCEPT ![s] = 0]
    /\ UNCHANGED <<starterVars, heard, firstLive>>

\* From the first answer or a later one; it may also never come.
GoesLive ==
    /\ Priority
    /\ ~firstLive
    /\ task[Batches[1][1]] = "asked"
    /\ firstLive' = TRUE
    /\ UNCHANGED <<starterVars, task, age, heard>>

IsHeard(s) ==
    /\ stage \in {"spawn", "settle"}
    /\ ~IsPriority
    /\ s \in ToSet(Batches[batch]) \ heard
    /\ heard' = heard \union {s}
    /\ UNCHANGED <<starterVars, task, age, firstLive>>

InFlight(b) == \E s \in ToSet(Batches[b]) : task[s] = "fetching"

Tick ==
    /\ timer > 0 \/ stage = "over"
    /\ timer > 0 \/ \E b \in DOMAIN Batches : InFlight(b)
    /\ \A s \in Symbols : age[s] < HttpTimeout
    /\ timer' = IF timer > 0 THEN timer - 1 ELSE 0
    /\ age' = [s \in Symbols |-> IF task[s] = "fetching" THEN age[s] + 1 ELSE 0]
    /\ UNCHANGED <<batch, stage, next, elapsed, task, heard, firstLive>>

StartNext ==
    \/ Starter
    \/ Tick
    \/ GoesLive
    \/ \E s \in Symbols : RequestEnds(s) \/ IsHeard(s)

StartSpec == StartInit /\ [][StartNext]_startVars

\* The runtime polls the starter, time passes and a request meets its
\* timeout.  No book has to go Live and no symbol has to be heard.
StartFairness ==
    /\ WF_startVars(Starter)
    /\ WF_startVars(Tick)
    /\ WF_startVars(\E s \in Symbols : RequestEnds(s))

-----------------------------------------------------------------------------
StartTypeOK ==
    /\ batch \in 1..(Len(Batches) + 1)
    /\ stage \in {"loops", "socket", "spawn", "settle", "rest", "over"}
    /\ next \in Nat \ {0}
    /\ batch \in DOMAIN Batches => next <= Len(Batches[batch])
    /\ timer \in Nat
    /\ elapsed \in Nat
    /\ task \in [Symbols -> {"none", "fetching", "asked"}]
    /\ age \in [Symbols -> 0..HttpTimeout]
    /\ heard \subseteq Symbols
    /\ firstLive \in BOOLEAN

\* Every symbol gets its task: neither a priority symbol that never goes
\* Live, nor a batch no message comes for, nor a socket that never opens
\* keeps the rest of the market from being started.
AllStarted == <>(\A s \in Symbols : task[s] # "none")

\* First requests under way belong to one batch or to two neighbours, and
\* the priority symbol's is over before any other is sent.
BatchesApart ==
    \A b, c \in DOMAIN Batches :
        b < c /\ InFlight(b) /\ InFlight(c) => c = b + 1 /\ ~(Priority /\ b = 1)

\* What the comment on the stability wait says: a slow batch cannot stack its
\* requests on top of the following one.  Does not hold of the code; see
\* "Disagreements" in the README.
NoStacking == \A b, c \in DOMAIN Batches : InFlight(b) /\ InFlight(c) => b = c

=============================================================================
