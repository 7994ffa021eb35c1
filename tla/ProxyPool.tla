----------------------------- MODULE ProxyPool -----------------------------
(***************************************************************************)
(* The proxies of src/rest/proxy_manager.rs as make_request of             *)
(* src/rest/client.rs uses them: picked round robin, the sick ones passed  *)
(* over, scored by what becomes of their requests, and healed by a checker *)
(* when nobody has used them for a while.  Requests run concurrently, and  *)
(* a score is loaded and stored in two steps.                              *)
(*                                                                         *)
(* Scores are scaled down.  The index counts on forever in the code and is *)
(* taken modulo the number of proxies.  Only who is rested is kept of the  *)
(* times of last use.                                                      *)
(***************************************************************************)
EXTENDS Naturals

CONSTANTS
    Callers,       \* make_request calls under way at once
    N,             \* proxies 0..N-1
    Full,          \* 100
    Sick,          \* 10: a proxy is usable above it
    Reward,        \* 5
    Penalties,     \* 5, 10 and 20
    Heal           \* 2

Proxies == 0..(N - 1)
Scores == 0..Full

ASSUME ProxyPoolAssumption ==
    /\ N \in Nat \ {0}
    /\ Full \in Nat /\ Sick \in 0..(Full - 1)
    /\ Reward \in Nat \ {0} /\ Heal \in Nat \ {0}
    /\ Penalties \subseteq Nat

VARIABLES
    index,      \* current_index, modulo N
    score,      \* [Proxies -> Scores]
    rested,     \* proxies whose last use is more than min_unused_time ago
    pc,         \* [Callers -> "idle", "looking", "asking", "storing"]
    tries,      \* [Callers -> attempts of its search so far]
    proxy,      \* [Callers -> the proxy it has]
    toStore,    \* [Callers -> the score it is about to store]
    healing,    \* the proxy whose new score the checker is about to store, N: none
    healed,     \* that score
    sick,       \* history: [Callers -> proxies its search found sick]
    alone       \* history: [Callers -> no other search touched the index meanwhile]

callerVars == <<pc, tries, proxy, toStore>>
checkerVars == <<healing, healed>>
searchVars == <<sick, alone>>
poolVars == <<index, score, rested, callerVars, checkerVars, searchVars>>

PoolInit ==
    /\ index = 0
    /\ score = [p \in Proxies |-> Full]
    /\ rested = {}
    /\ pc = [c \in Callers |-> "idle"]
    /\ tries = [c \in Callers |-> 0]
    /\ proxy = [c \in Callers |-> 0]
    /\ toStore = [c \in Callers |-> 0]
    /\ healing = N
    /\ healed = 0
    /\ sick = [c \in Callers |-> {}]
    /\ alone = [c \in Callers |-> TRUE]

-----------------------------------------------------------------------------
Search(c) ==
    /\ pc[c] = "idle"
    /\ pc' = [pc EXCEPT ![c] = "looking"]
    /\ UNCHANGED <<index, score, rested, tries, proxy, toStore, checkerVars, searchVars>>

\* fetch_add, of which any other search takes note.
Advance(c) ==
    /\ index' = (index + 1) % N
    /\ alone' = [d \in Callers |-> IF d = c THEN pc'[c] # "looking" \/ alone[c] ELSE pc[d] # "looking"]

Usable(p) == score[p] > Sick

\* Mutant: one attempt for each proxy but the last.
TooFewAttempts == N - 1

MaxAttempts == 2 * N

Take(c, p) ==
    /\ pc' = [pc EXCEPT ![c] = "asking"]
    /\ proxy' = [proxy EXCEPT ![c] = p]
    /\ tries' = [tries EXCEPT ![c] = 0]
    /\ sick' = [sick EXCEPT ![c] = {}]
    /\ rested' = rested \ {p}

PickUsable(c) ==
    /\ pc[c] = "looking"
    /\ tries[c] < MaxAttempts
    /\ Usable(index)
    /\ Take(c, index)
    /\ Advance(c)
    /\ UNCHANGED <<score, toStore, checkerVars>>

PassOver(c) ==
    /\ pc[c] = "looking"
    /\ tries[c] < MaxAttempts
    /\ ~Usable(index)
    /\ tries' = [tries EXCEPT ![c] = @ + 1]
    /\ sick' = [sick EXCEPT ![c] = @ \union {index}]
    /\ UNCHANGED <<score, rested, pc, proxy, toStore, checkerVars>>
    /\ Advance(c)

\* "No healthy proxy found, using next in rotation": whatever its score.
FallBack(c) ==
    /\ pc[c] = "looking"
    /\ tries[c] = MaxAttempts
    /\ Take(c, index)
    /\ Advance(c)
    /\ UNCHANGED <<score, toStore, checkerVars>>

\* The cached client could not be built: an error, and no report.
NoClient(c) ==
    /\ pc[c] = "asking"
    /\ pc' = [pc EXCEPT ![c] = "idle"]
    /\ proxy' = [proxy EXCEPT ![c] = 0]
    /\ UNCHANGED <<index, score, rested, tries, toStore, checkerVars, searchVars>>

\* What a success or one of the failures makes of a score.
NewScores(old) ==
    {IF old + Reward < Full THEN old + Reward ELSE Full}
        \union {IF old > n THEN old - n ELSE 0 : n \in Penalties}

\* report_success, after a 2xx or a 4xx, and report_failure, after a 5xx, a
\* transport error or a timeout, load the score ...
Report(c) ==
    /\ pc[c] = "asking"
    /\ pc' = [pc EXCEPT ![c] = "storing"]
    /\ \E new \in NewScores(score[proxy[c]]) : toStore' = [toStore EXCEPT ![c] = new]
    /\ rested' = rested \ {proxy[c]}
    /\ UNCHANGED <<index, score, tries, proxy, checkerVars, searchVars>>

\* ... and store it, whatever has been stored meanwhile.
Store(c) ==
    /\ pc[c] = "storing"
    /\ pc' = [pc EXCEPT ![c] = "idle"]
    /\ score' = [score EXCEPT ![proxy[c]] = toStore[c]]
    /\ proxy' = [proxy EXCEPT ![c] = 0]
    /\ toStore' = [toStore EXCEPT ![c] = 0]
    /\ UNCHANGED <<index, rested, tries, checkerVars, searchVars>>

Caller(c) ==
    \/ Search(c) \/ PickUsable(c) \/ PassOver(c) \/ FallBack(c)
    \/ NoClient(c) \/ Report(c) \/ Store(c)

-----------------------------------------------------------------------------
\* A request is over within 30 s, so a proxy in use is never rested.
InUse(p) == \E c \in Callers : pc[c] \in {"asking", "storing"} /\ proxy[c] = p

RestsLong(p) ==
    /\ p \notin rested
    /\ ~InUse(p)
    /\ rested' = rested \union {p}
    /\ UNCHANGED <<index, score, callerVars, checkerVars, searchVars>>

\* Mutant: only a proxy in use is healed.
NeedsHealingInUse(p) == score[p] < Full /\ p \notin rested

NeedsHealing(p) == score[p] < Full /\ p \in rested

\* The checker comes to a proxy of its cycle, loads its score and its time of
\* last use ...
CheckerLoads(p) ==
    /\ healing = N
    /\ NeedsHealing(p)
    /\ healing' = p
    /\ healed' = IF score[p] + Heal < Full THEN score[p] + Heal ELSE Full
    /\ UNCHANGED <<index, score, rested, callerVars, searchVars>>

\* ... and stores the better score, whatever has been stored meanwhile.
CheckerStores ==
    /\ healing # N
    /\ score' = [score EXCEPT ![healing] = healed]
    /\ healing' = N
    /\ healed' = 0
    /\ UNCHANGED <<index, rested, callerVars, searchVars>>

PoolNext ==
    \/ \E c \in Callers : Caller(c)
    \/ \E p \in Proxies : RestsLong(p) \/ CheckerLoads(p)
    \/ CheckerStores

PoolSpec == PoolInit /\ [][PoolNext]_poolVars

\* Requests end; a proxy nobody uses has rested long enough sooner or later;
\* and each cycle of the checker comes to every proxy, so one that needs
\* healing time and again is healed.  Nobody has to ask.
PoolFairness ==
    /\ \A c \in Callers : WF_poolVars(pc[c] # "idle" /\ Caller(c))
    /\ \A p \in Proxies : WF_poolVars(RestsLong(p))
    /\ \A p \in Proxies : SF_poolVars(CheckerLoads(p))
    /\ WF_poolVars(CheckerStores)

-----------------------------------------------------------------------------
PoolTypeOK ==
    /\ index \in Proxies
    /\ score \in [Proxies -> Scores]
    /\ rested \subseteq Proxies
    /\ pc \in [Callers -> {"idle", "looking", "asking", "storing"}]
    /\ tries \in [Callers -> 0..MaxAttempts]
    /\ proxy \in [Callers -> Proxies]
    /\ toStore \in [Callers -> Scores]
    /\ healing \in Proxies \union {N}
    /\ healed \in Scores
    /\ sick \in [Callers -> SUBSET Proxies]
    /\ alone \in [Callers -> BOOLEAN]

\* A request goes out on a sick proxy only after a search that found every
\* proxy sick, unless another search took indices from the same counter.
FallbackJustified ==
    \A c \in Callers :
        pc[c] = "looking" /\ tries[c] = MaxAttempts /\ alone[c] => sick[c] = Proxies

\* No proxy is given up for good: time and again it is usable or in use.
NoneAbandoned == \A p \in Proxies : []<>(Usable(p) \/ InUse(p))

\* What the warning of a fallback says: no healthy proxy was found since there
\* is none.  Does not hold of the code when two searches interleave; see
\* "Disagreements" in the README.
FallbackMeansNone ==
    [][\A c \in Callers : FallBack(c) => \A p \in Proxies : ~Usable(p)]_poolVars

=============================================================================
