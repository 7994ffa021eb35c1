------------------------------- MODULE MCRest -------------------------------
(***************************************************************************)
(* The REST side in one run: a bucketed series (RestPoll), the rounds of a *)
(* lane (PollRounds) and the proxies behind the requests (ProxyPool).  The *)
(* three share no state, so a behaviour is one of one of them, by the part *)
(* drawn at the start; the other parts are at rest.                        *)
(*                                                                         *)
(* Model values: three symbols in two chunks.                              *)
(***************************************************************************)
EXTENDS RestPoll, PollRounds, ProxyPool

VARIABLE part

MCChunks == <<<<"a", "b">>, <<"c">>>>

\* A lane between two rounds, in a market where everything is delisted.
RoundAtRest ==
    /\ kind = "window"
    /\ stage = "wait"
    /\ chunk = 1
    /\ single = [s \in Symbols |-> "idle"]
    /\ out = [s \in Symbols |-> {}]
    /\ got = [s \in Symbols |-> {}]
    /\ rates = {}
    /\ dead = Symbols

\* Proxies nobody has used for a while.
PoolAtRest ==
    /\ index = 0
    /\ score = [p \in Proxies |-> Full]
    /\ rested = Proxies
    /\ pc = [c \in Callers |-> "idle"]
    /\ tries = [c \in Callers |-> 0]
    /\ proxy = [c \in Callers |-> 0]
    /\ toStore = [c \in Callers |-> 0]
    /\ healing = N
    /\ healed = 0
    /\ sick = [c \in Callers |-> {}]
    /\ alone = [c \in Callers |-> TRUE]

MCInit ==
    \/ part = "series" /\ Init /\ RoundAtRest /\ PoolAtRest
    \/ part = "rounds" /\ RoundInit /\ Init /\ PoolAtRest
    \/ part = "pool" /\ PoolInit /\ Init /\ RoundAtRest

MCNext ==
    /\ \/ part = "series" /\ Next /\ UNCHANGED <<roundVars, poolVars>>
       \/ part = "rounds" /\ RoundNext /\ UNCHANGED <<vars, poolVars>>
       \/ part = "pool" /\ PoolNext /\ UNCHANGED <<vars, roundVars>>
    /\ UNCHANGED part

\* RoundFairness, for the behaviours of that part: a lane at rest could
\* always begin another round.
MCRoundFairness ==
    /\ WF_roundVars(part = "rounds" /\ Lane)
    /\ \A s \in Symbols : WF_roundVars(part = "rounds" /\ Single(s))

MCSpec ==
    /\ MCInit
    /\ [][MCNext]_<<part, vars, roundVars, poolVars>>
    /\ MCRoundFairness
    /\ PoolFairness

=============================================================================
