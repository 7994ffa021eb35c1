----------------------------- MODULE PollRounds -----------------------------
(***************************************************************************)
(* One of the seven polling lanes that start() of                          *)
(* src/collectors/rest_collector.rs spawns, from tick to tick: a round     *)
(* asks for every symbol, in chunks whose requests run together and are    *)
(* joined before the next chunk; a delisted symbol is skipped.  The lanes  *)
(* share nothing but the delisted set, so one lane of each kind stands     *)
(* for all.  What a series makes of an answer is RestPoll's subject, and   *)
(* the retries behind a request RestLimiter's; here a request is answered  *)
(* or fails.                                                               *)
(*                                                                         *)
(* The delay before a lane's first tick, the ticks themselves              *)
(* (MissedTickBehavior::Delay: one comes whenever the lane waits for it),  *)
(* the jitter and the pause between chunks are steps that take their time. *)
(***************************************************************************)
EXTENDS Naturals, Sequences, SequencesExt

CONSTANTS
    Chunks     \* the symbols, in chunks of BATCH_SIZE

Symbols == UNION {ToSet(Chunks[c]) : c \in DOMAIN Chunks}

\* "bulk": one request for the whole market (funding rates); "window": one
\* for each symbol (the klines and the taker ratio); "chain": a second for
\* the mark price once the first is answered (open interest); "fan": three at
\* once (the long/short ratios).
Kinds == {"bulk", "window", "chain", "fan"}

FirstRequests(k) ==
    CASE k = "window" -> {"window"}
      [] k = "chain" -> {"interest"}
      [] k = "fan" -> {"global", "top_trader_account", "top_trader_position"}
      [] k = "bulk" -> {}

VARIABLES
    kind,      \* which lane this is
    stage,     \* "wait" for the tick, "jitter", "chunk", "pause"; "market", "rows": bulk
    chunk,     \* the chunk the round is at
    single,    \* [Symbols -> "idle", "ready", "asking" or "writing"]
    out,       \* [Symbols -> requests sent and not answered]
    got,       \* [Symbols -> answers whose rows are to be written]
    rates,     \* symbols of the bulk answer still to be looked at
    dead       \* the shared delisted set

laneVars == <<stage, chunk>>
singleVars == <<single, out, got>>
roundVars == <<kind, laneVars, singleVars, rates, dead>>

RoundInit ==
    /\ kind \in Kinds
    /\ stage = "wait"
    /\ chunk = 1
    /\ single = [s \in Symbols |-> "idle"]
    /\ out = [s \in Symbols |-> {}]
    /\ got = [s \in Symbols |-> {}]
    /\ rates = {}
    /\ dead = {}

-----------------------------------------------------------------------------
RoundTick ==
    /\ stage = "wait"
    /\ stage' = "jitter"
    /\ UNCHANGED <<kind, chunk, singleVars, rates, dead>>

MakeReady(c) == single' = [s \in Symbols |-> IF s \in ToSet(Chunks[c]) THEN "ready" ELSE "idle"]

BeginRound ==
    /\ stage = "jitter"
    /\ \/ /\ kind = "bulk"
          /\ stage' = "market"
          /\ UNCHANGED <<chunk, single>>
       \/ /\ kind # "bulk"
          /\ stage' = "chunk"
          /\ chunk' = 1
          /\ MakeReady(1)
    /\ UNCHANGED <<kind, out, got, rates, dead>>

Idle == \A s \in Symbols : single[s] = "idle"

\* join_all: every single of the chunk has returned.
ChunkJoined ==
    /\ stage = "chunk"
    /\ Idle
    /\ stage' = IF chunk < Len(Chunks) THEN "pause" ELSE "wait"
    /\ UNCHANGED <<kind, chunk, singleVars, rates, dead>>

NextChunk ==
    /\ stage = "pause"
    /\ stage' = "chunk"
    /\ chunk' = chunk + 1
    /\ MakeReady(chunk + 1)
    /\ UNCHANGED <<kind, out, got, rates, dead>>

\* Mutant: the delisted set is not consulted before a single's requests.
BeginSingleAnyhow(s) ==
    /\ single[s] = "ready"
    /\ single' = [single EXCEPT ![s] = "asking"]
    /\ out' = [out EXCEPT ![s] = FirstRequests(kind)]
    /\ UNCHANGED <<kind, laneVars, got, rates, dead>>

\* The delisted set is consulted once, before the first request.
BeginSingle(s) ==
    /\ single[s] = "ready"
    /\ \/ /\ s \in dead
          /\ single' = [single EXCEPT ![s] = "idle"]
          /\ UNCHANGED out
       \/ /\ s \notin dead
          /\ single' = [single EXCEPT ![s] = "asking"]
          /\ out' = [out EXCEPT ![s] = FirstRequests(kind)]
    /\ UNCHANGED <<kind, laneVars, got, rates, dead>>

\* The open interest is kept in hand while its mark price is asked for.
Answered(s, r) ==
    /\ r \in out[s]
    /\ out' = [out EXCEPT ![s] =
                  (@ \ {r}) \union (IF r = "interest" THEN {"price"} ELSE {})]
    /\ got' = IF r = "price" THEN got ELSE [got EXCEPT ![s] = @ \union {r}]
    /\ UNCHANGED <<kind, laneVars, single, rates, dead>>

\* Mutant: a failed request ends the lane.
FailedStops(s, r) ==
    /\ r \in out[s]
    /\ stage' = "stopped"
    /\ out' = [t \in Symbols |-> {}]
    /\ single' = [t \in Symbols |-> "idle"]
    /\ UNCHANGED <<kind, chunk, got, rates, dead>>

\* Logged.  Without a mark price the open interest is dropped; the three
\* ratios do without one another.
Failed(s, r) ==
    /\ r \in out[s]
    /\ out' = [out EXCEPT ![s] = @ \ {r}]
    /\ got' = IF r = "price" THEN [got EXCEPT ![s] = {}] ELSE got
    /\ UNCHANGED <<kind, laneVars, single, rates, dead>>

\* All answers are in: tokio::join! for the ratios.
BeginWriting(s) ==
    /\ single[s] = "asking"
    /\ out[s] = {}
    /\ single' = [single EXCEPT ![s] = "writing"]
    /\ UNCHANGED <<kind, laneVars, out, got, rates, dead>>

\* The rows are written, or fail to be: the lane does not tell.
EndSingle(s) ==
    /\ single[s] = "writing"
    /\ kind # "bulk"
    /\ single' = [single EXCEPT ![s] = "idle"]
    /\ got' = [got EXCEPT ![s] = {}]
    /\ UNCHANGED <<kind, laneVars, out, rates, dead>>

-----------------------------------------------------------------------------
\* The bulk answer lists what the exchange likes; one that fails is logged.
MarketAnswered ==
    /\ stage = "market"
    /\ rates' \in SUBSET Symbols
    /\ stage' = "rows"
    /\ UNCHANGED <<kind, chunk, singleVars, dead>>

\* The delisted set is consulted for each row: a halted pair is still listed.
TakeRate(s) ==
    /\ stage = "rows"
    /\ Idle
    /\ s \in rates
    /\ rates' = rates \ {s}
    /\ single' = IF s \in dead THEN single ELSE [single EXCEPT ![s] = "writing"]
    /\ UNCHANGED <<kind, laneVars, out, got, dead>>

RateWritten(s) ==
    /\ stage = "rows"
    /\ single[s] = "writing"
    /\ single' = [single EXCEPT ![s] = "idle"]
    /\ UNCHANGED <<kind, laneVars, out, got, rates, dead>>

MarketDone ==
    /\ stage = "rows"
    /\ Idle
    /\ rates = {}
    /\ stage' = "wait"
    /\ UNCHANGED <<kind, chunk, singleVars, rates, dead>>

-----------------------------------------------------------------------------
\* Symbol discovery delists a symbol, and may take it back.
Discover(s) ==
    /\ dead' \in {dead \union {s}, dead \ {s}}
    /\ UNCHANGED <<kind, laneVars, singleVars, rates>>

Requests == UNION {FirstRequests(k) : k \in Kinds} \union {"price"}

Answer(s) == \E r \in Requests : Answered(s, r) \/ Failed(s, r)

Lane == RoundTick \/ BeginRound \/ ChunkJoined \/ NextChunk \/ MarketAnswered \/ MarketDone
Single(s) ==
    BeginSingle(s) \/ Answer(s) \/ BeginWriting(s) \/ EndSingle(s) \/ TakeRate(s) \/ RateWritten(s)

RoundNext == Lane \/ \E s \in Symbols : Single(s) \/ Discover(s)

RoundSpec == RoundInit /\ [][RoundNext]_roundVars

\* The task is polled, its sleeps end, and the client settles every request
\* it is given (RestLimiter's CallsSettle).
RoundFairness ==
    /\ WF_roundVars(Lane)
    /\ \A s \in Symbols : WF_roundVars(Single(s))

-----------------------------------------------------------------------------
RoundTypeOK ==
    /\ kind \in Kinds
    /\ stage \in {"wait", "jitter", "chunk", "pause", "market", "rows"}
    /\ chunk \in DOMAIN Chunks
    /\ single \in [Symbols -> {"idle", "ready", "asking", "writing"}]
    /\ out \in [Symbols -> SUBSET Requests]
    /\ got \in [Symbols -> SUBSET Requests]
    /\ rates \subseteq Symbols
    /\ dead \subseteq Symbols

AskedFor(s) == stage = "market" \/ single[s] = "asking"

\* Whatever fails or is delisted, a lane comes back to every symbol that is
\* still listed.
EveryoneIsPolled == \A s \in Symbols : []<>(AskedFor(s) \/ s \in dead)

\* A symbol that stays delisted ends up costing neither requests nor rows,
\* also where the whole market's answer still has it.
DelistedGoQuiet ==
    \A s \in Symbols : <>[](s \in dead) => <>[](single[s] \in {"idle", "ready"})

=============================================================================
