----------------------------- MODULE MCStartup -----------------------------
(***************************************************************************)
(* The pace of the snapshot requests in one run: across symbols while the  *)
(* collector starts (StagedStart) and of one symbol ever after             *)
(* (SnapshotThrottle).  They share no state, so a behaviour is one of the  *)
(* one or one of the other, by the part drawn at the start; the other part *)
(* is at rest, with no step to take.                                       *)
(*                                                                         *)
(* Model values: a priority symbol and three batches; a backoff that grows *)
(* by half, from 2 by way of 3 and 4 to the ceiling of 5.                  *)
(***************************************************************************)
EXTENDS StagedStart, SnapshotThrottle

VARIABLE part

MCBatches == <<<<"p">>, <<"a", "b">>, <<"c", "d">>, <<"e">>>>
MCGrowth == [b \in 0..5 |-> (b * 3) \div 2]
MCSchedule == [k \in 0..3 |-> CASE k = 0 -> 2 [] k = 1 -> 3 [] k = 2 -> 4 [] k = 3 -> 5]

\* Everybody was started and asked.
StartAtRest ==
    /\ batch = Len(Batches)
    /\ stage = "over"
    /\ next = 1
    /\ timer = 0
    /\ elapsed = 0
    /\ task = [s \in Symbols |-> "asked"]
    /\ age = [s \in Symbols |-> 0]
    /\ heard = {}
    /\ firstLive = FALSE

\* The symbol was delisted long ago.
ThrottleAtRest ==
    /\ phase = "done"
    /\ bookState = "Absent"
    /\ lastSnapshot = Cooldown
    /\ backoff = Cooldown
    /\ sleeping = 0
    /\ idleFor = 0
    /\ hasBook = FALSE
    /\ listed = FALSE
    /\ dead = TRUE
    /\ silence = Long
    /\ fails = 0
    /\ forgotten = FALSE

MCInit ==
    \/ part = "start" /\ StartInit /\ ThrottleAtRest
    \/ part = "throttle" /\ ThrottleInit /\ StartAtRest

MCNext ==
    /\ \/ part = "start" /\ StartNext /\ UNCHANGED throttleVars
       \/ part = "throttle" /\ ThrottleNext /\ UNCHANGED startVars
    /\ UNCHANGED part

MCSpec ==
    /\ MCInit
    /\ [][MCNext]_<<part, startVars, throttleVars>>
    /\ StartFairness
    /\ ThrottleFairness

=============================================================================
