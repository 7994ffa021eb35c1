---------------------------- MODULE RestLimiter ----------------------------
(***************************************************************************)
(* The REST request path of src/rest/client.rs: request_with_retry around  *)
(* make_request around RateLimiter::acquire, for concurrent callers.  Two  *)
(* rolling-window limiters (the /fapi weight budget and the /futures/data  *)
(* count budget) share one CircuitBreaker that a 429, a 418 or a used-     *)
(* weight header near the ceiling trips.                                   *)
(*                                                                         *)
(* Time is relative: a window entry carries its age, the breaker and every *)
(* sleeping task the ticks they have left, so no clock has to be bounded.  *)
(* A tick stands for one millisecond, the least an acquire sleeps; windows *)
(* and pauses are a few ticks long.                                        *)
(***************************************************************************)
EXTENDS Naturals, Sequences

CONSTANTS
    Requests,      \* concurrent calls of RestClient::get / get_futures_data
    Groups,        \* the limiters: "fapi" and "data"
    Group,         \* Group[r]: the limiter that make_request picks for r
    Weight,        \* Weight[r]: endpoint_weight of the URL (1 for "data")
    Budget,        \* Budget[g]: configured max_per_window
    Window,        \* Window[g]: window_nanos, in ticks
    Pauses,        \* Retry-After, or the default pause of a 429 or a 418
    NearCapPause   \* the pause of a used-weight header near the ceiling

ASSUME RequestsAssumption ==
    /\ Group \in [Requests -> Groups]
    /\ Weight \in [Requests -> Nat \ {0}]
ASSUME LimitsAssumption ==
    /\ Budget \in [Groups -> Nat]
    /\ Window \in [Groups -> Nat]
    /\ Pauses \subseteq Nat
    /\ NearCapPause \in Nat

VARIABLES
    window,        \* window[g]: the admissions the limiter remembers
    blocked,       \* ticks until CircuitBreaker.blocked_until; 0: open
    pc,            \* where each call is
    attempts,      \* how often it sent its request
    wake,          \* ticks it still sleeps inside acquire
    trips,         \* pauses it still has to trip the breaker for
    until,         \* ticks to the `until' of the trip it is making
    loaded,        \* ticks to the blocked_until value it loaded
    status,        \* the last response it got
    owed,          \* history: ticks left of the longest pause it tripped
    recent         \* history: recent[g], admissions of the last Window[g]

clockVars == <<window, blocked, wake, until, loaded, owed, recent>>
vars == <<window, blocked, pc, attempts, wake, trips, until, loaded, status,
          owed, recent>>

MaxRetries == 3

Status == {"none", "ok", "error", "429", "418"}

\* RateLimiter::new lifts a zero budget to one.
MaxPerWindow(g) == IF Budget[g] = 0 THEN 1 ELSE Budget[g]

Init ==
    /\ window = [g \in Groups |-> <<>>]
    /\ blocked = 0
    /\ pc = [r \in Requests |-> "acquire"]
    /\ attempts = [r \in Requests |-> 0]
    /\ wake = [r \in Requests |-> 0]
    /\ trips = [r \in Requests |-> <<>>]
    /\ until = [r \in Requests |-> 0]
    /\ loaded = [r \in Requests |-> 0]
    /\ status = [r \in Requests |-> "none"]
    /\ owed = [r \in Requests |-> 0]
    /\ recent = [g \in Groups |-> <<>>]

-----------------------------------------------------------------------------
(***************************************************************************)
(* RateLimiter::acquire.                                                   *)
(***************************************************************************)

TotalWeight(s) ==
    LET sum[i \in 0..Len(s)] == IF i = 0 THEN 0 ELSE sum[i - 1] + s[i].weight
    IN  sum[Len(s)]

\* Entries older than w at the front are popped, up to the first that is not.
PopFront(s, w) ==
    LET popped == CHOOSE k \in 0..Len(s) :
                      /\ \A i \in 1..k : s[i].age > w
                      /\ k < Len(s) => s[k + 1].age <= w
    IN  SubSeq(s, popped + 1, Len(s))

\* Mutant: an entry leaves the window one tick early.
UnexpiredShort(g) == PopFront(window[g], Window[g] - 1)

Unexpired(g) == PopFront(window[g], Window[g])

\* blocked_wait says open: the call goes on to the window.
BreakerOpen(r) ==
    /\ pc[r] = "acquire"
    /\ wake[r] = 0
    /\ blocked = 0
    /\ pc' = [pc EXCEPT ![r] = "window"]
    /\ UNCHANGED <<clockVars, attempts, trips, status>>

\* blocked_wait says blocked: sleep as long as it said, then look again.
BreakerBlocked(r) ==
    /\ pc[r] = "acquire"
    /\ wake[r] = 0
    /\ blocked > 0
    /\ wake' = [wake EXCEPT ![r] = blocked]
    /\ UNCHANGED <<window, blocked, pc, attempts, trips, until, loaded, status,
                   owed, recent>>

\* It fits, or nothing else is in the window.
Fits(r) ==
    LET w == Unexpired(Group[r])
    IN  \/ TotalWeight(w) + Weight[r] <= MaxPerWindow(Group[r])
        \/ w = <<>>

\* Under the window lock: record the admission and send the request.
Admit(r) ==
    /\ pc[r] = "window"
    /\ Fits(r)
    /\ LET e == [age |-> 0, weight |-> Weight[r]]
           g == Group[r]
       IN  /\ window' = [window EXCEPT ![g] = Append(Unexpired(g), e)]
           /\ recent' = [recent EXCEPT ![g] = Append(@, e)]
    /\ pc' = [pc EXCEPT ![r] = "sent"]
    /\ attempts' = [attempts EXCEPT ![r] = @ + 1]
    /\ UNCHANGED <<blocked, wake, trips, until, loaded, status, owed>>

\* It does not fit: sleep until the front entry reaches the cutoff, at least
\* one tick, and start over.
Full(r) ==
    /\ pc[r] = "window"
    /\ ~Fits(r)
    /\ LET g == Group[r]
           left == Window[g] - Head(Unexpired(g)).age
       IN  /\ window' = [window EXCEPT ![g] = Unexpired(g)]
           /\ wake' = [wake EXCEPT ![r] = IF left > 0 THEN left ELSE 1]
    /\ pc' = [pc EXCEPT ![r] = "acquire"]
    /\ UNCHANGED <<blocked, attempts, trips, until, loaded, status, owed, recent>>

Acquire(r) == BreakerOpen(r) \/ BreakerBlocked(r) \/ Admit(r) \/ Full(r)

-----------------------------------------------------------------------------
(***************************************************************************)
(* The response, CircuitBreaker::trip and the retry loop.                  *)
(***************************************************************************)

\* What a response with the given status trips the breaker for, in order.
TripsOf(s, near, pause) ==
    (IF near THEN <<NearCapPause>> ELSE <<>>)
        \o (IF s \in {"429", "418"} THEN <<pause>> ELSE <<>>)

Respond(r) ==
    /\ pc[r] = "sent"
    /\ \E s \in {"ok", "error", "429", "418"}, near \in BOOLEAN, p \in Pauses :
          /\ status' = [status EXCEPT ![r] = s]
          /\ trips' = [trips EXCEPT ![r] = TripsOf(s, near, p)]
    /\ pc' = [pc EXCEPT ![r] = "trip"]
    /\ UNCHANGED <<clockVars, attempts>>

\* The transport failed or the 30 s timeout fired: no headers, no trip.
NoResponse(r) ==
    /\ pc[r] = "sent"
    /\ status' = [status EXCEPT ![r] = "error"]
    /\ pc' = [pc EXCEPT ![r] = "trip"]
    /\ UNCHANGED <<clockVars, attempts, trips>>

\* trip: compute `until' and load the current value.
TripLoad(r) ==
    /\ pc[r] = "trip"
    /\ trips[r] # <<>>
    /\ until' = [until EXCEPT ![r] = Head(trips[r])]
    /\ loaded' = [loaded EXCEPT ![r] = blocked]
    /\ owed' = [owed EXCEPT ![r] = IF @ < Head(trips[r]) THEN Head(trips[r]) ELSE @]
    /\ trips' = [trips EXCEPT ![r] = Tail(@)]
    /\ pc' = [pc EXCEPT ![r] = "cas"]
    /\ UNCHANGED <<window, blocked, attempts, wake, status, recent>>

\* Mutant: a plain store where the compare-exchange loop is.
TripStore(r) ==
    /\ pc[r] = "cas"
    /\ until[r] > loaded[r]
    /\ blocked' = until[r]
    /\ pc' = [pc EXCEPT ![r] = "trip"]
    /\ UNCHANGED <<window, attempts, wake, trips, until, loaded, status, owed,
                   recent>>

TripExchange(r) ==
    /\ pc[r] = "cas"
    /\ until[r] > loaded[r]
    /\ loaded[r] = blocked
    /\ blocked' = until[r]
    /\ pc' = [pc EXCEPT ![r] = "trip"]
    /\ UNCHANGED <<window, attempts, wake, trips, until, loaded, status, owed,
                   recent>>

\* Another task moved it meanwhile: compare again with what is there now.
TripReload(r) ==
    /\ pc[r] = "cas"
    /\ until[r] > loaded[r]
    /\ loaded[r] # blocked
    /\ loaded' = [loaded EXCEPT ![r] = blocked]
    /\ UNCHANGED <<window, blocked, pc, attempts, wake, trips, until, status,
                   owed, recent>>

\* The breaker is blocked at least that long already.
TripShorter(r) ==
    /\ pc[r] = "cas"
    /\ until[r] <= loaded[r]
    /\ pc' = [pc EXCEPT ![r] = "trip"]
    /\ UNCHANGED <<clockVars, attempts, trips, status>>

\* Mutant: a 429 is retried for as long as it takes.
SettleRetryingForever(r) ==
    /\ pc[r] = "trip"
    /\ trips[r] = <<>>
    /\ pc' = [pc EXCEPT ![r] =
                 IF status[r] = "ok" THEN "done"
                 ELSE IF status[r] = "418" THEN "failed" ELSE "acquire"]
    /\ attempts' = [attempts EXCEPT ![r] = 0]
    /\ UNCHANGED <<clockVars, trips, status>>

\* request_with_retry: the call is over on success, on a ban and after the
\* last attempt; anything else is tried again (after 100 or 400 ms, which
\* the model leaves open).
Settle(r) ==
    /\ pc[r] = "trip"
    /\ trips[r] = <<>>
    /\ pc' = [pc EXCEPT ![r] =
                 IF status[r] = "ok" THEN "done"
                 ELSE IF status[r] # "418" /\ attempts[r] < MaxRetries
                      THEN "acquire" ELSE "failed"]
    /\ UNCHANGED <<clockVars, attempts, trips, status>>

Response(r) == Respond(r) \/ NoResponse(r)

Trip(r) == TripLoad(r) \/ TripExchange(r) \/ TripReload(r) \/ TripShorter(r)

Call(r) == Acquire(r) \/ Response(r) \/ Trip(r) \/ Settle(r)

-----------------------------------------------------------------------------
Less(n) == IF n = 0 THEN 0 ELSE n - 1

\* Ages above the window are all alike.
Older(g, s) ==
    [i \in DOMAIN s |->
        [s[i] EXCEPT !.age = IF @ <= Window[g] THEN @ + 1 ELSE @]]

Tick ==
    /\ blocked' = Less(blocked)
    /\ wake' = [r \in Requests |-> Less(wake[r])]
    /\ until' = [r \in Requests |-> Less(until[r])]
    /\ loaded' = [r \in Requests |-> Less(loaded[r])]
    /\ owed' = [r \in Requests |-> Less(owed[r])]
    /\ window' = [g \in Groups |-> Older(g, window[g])]
    /\ recent' = [g \in Groups |-> PopFront(Older(g, recent[g]), Window[g])]
    /\ UNCHANGED <<pc, attempts, trips, status>>

Next == Tick \/ \E r \in Requests : Call(r)

Spec == Init /\ [][Next]_vars

\* Time passes and every call that can step does; a response comes or the
\* 30 s timeout fires.
FairSpec == Spec /\ WF_vars(Tick) /\ \A r \in Requests : WF_vars(Call(r))

-----------------------------------------------------------------------------
(***************************************************************************)
(* Properties.                                                             *)
(***************************************************************************)

Entry == [age : Nat, weight : Nat \ {0}]

TypeOK ==
    /\ window \in [Groups -> Seq(Entry)]
    /\ blocked \in Nat
    /\ pc \in [Requests -> {"acquire", "window", "sent", "trip", "cas", "done",
                            "failed"}]
    /\ attempts \in [Requests -> 0..MaxRetries]
    /\ wake \in [Requests -> Nat]
    /\ trips \in [Requests -> Seq(Nat)]
    /\ until \in [Requests -> Nat]
    /\ loaded \in [Requests -> Nat]
    /\ status \in [Requests -> Status]
    /\ owed \in [Requests -> Nat]
    /\ recent \in [Groups -> Seq(Entry)]

\* Whatever calls race for the budget, the requests sent in any stretch of
\* one window weigh at most the budget; only a request that is heavier than
\* the whole budget goes out, and it goes out alone.
WindowBound ==
    \A g \in Groups :
        TotalWeight(recent[g]) <= MaxPerWindow(g) \/ Len(recent[g]) = 1

\* A pause a call has tripped the breaker for is never cut short by another
\* call tripping it for less.
NoLostTrip == \A r \in Requests : pc[r] # "cas" => blocked >= owed[r]

\* A call never sends again before every pause it was told itself is over.
RetryAfterRespected ==
    [][\A r \in Requests : attempts'[r] > attempts[r] => owed[r] = 0]_vars

\* A call that was banned sends nothing more.
BannedStops ==
    [][\A r \in Requests : status[r] = "418" => attempts'[r] <= attempts[r]]_vars

\* Every call comes to an end, whatever it has to wait for.
CallsSettle == \A r \in Requests : (pc[r] = "acquire") ~> (pc[r] \in {"done", "failed"})

\* acquire lets no request out while the breaker blocks (client.rs:88-89).
\* Does not hold of the code; see "Disagreements" in the README.
AdmittedOpen ==
    [][\A r \in Requests : attempts'[r] > attempts[r] => blocked = 0]_vars

=============================================================================
