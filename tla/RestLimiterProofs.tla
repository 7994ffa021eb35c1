------------------------- MODULE RestLimiterProofs -------------------------
(***************************************************************************)
(* Proofs about RestLimiter for any number of callers, any pauses and any  *)
(* budgets: the shared breaker never loses a pause, a call respects every  *)
(* pause it was told, a banned call sends nothing more, and no window      *)
(* carries more than its budget.  For the last, sums over a window are     *)
(* compared by induction over its length, as sets of numbers closed under  *)
(* successor.                                                              *)
(***************************************************************************)
EXTENDS RestLimiter, SequenceTheorems, NaturalsInduction, WellFoundedInduction, TLAPS

USE DEF clockVars

\* The part of TypeOK the breaker and the retry loop need.
RetryTypeOK ==
    /\ blocked \in Nat
    /\ pc \in [Requests -> {"acquire", "window", "sent", "trip", "cas", "done",
                            "failed"}]
    /\ attempts \in [Requests -> Nat]
    /\ trips \in [Requests -> Seq(Nat)]
    /\ until \in [Requests -> Nat]
    /\ loaded \in [Requests -> Nat]
    /\ status \in [Requests -> Status]
    /\ owed \in [Requests -> Nat]

\* A value a trip has loaded is never above the breaker's: nobody lowers it.
\* While a trip is under way its pause may exceed the breaker by that trip
\* only, and a call past the breaker check owes nothing.
PauseInv ==
    \A r \in Requests :
        /\ loaded[r] <= blocked
        /\ pc[r] # "cas" => owed[r] <= blocked
        /\ pc[r] = "cas" => owed[r] <= blocked \/ owed[r] <= until[r]
        /\ pc[r] = "window" => owed[r] = 0

\* A banned call is on its way out.
BanInv ==
    \A r \in Requests :
        status[r] = "418" => pc[r] \in {"trip", "cas", "failed"}

RetryInv == RetryTypeOK /\ PauseInv /\ BanInv

\* One tick less is still a natural number and keeps every order.
LEMMA LessFacts ==
    /\ \A n \in Nat : Less(n) \in Nat /\ Less(n) <= n
    /\ \A m, n \in Nat : m <= n => Less(m) <= Less(n)
    /\ Less(0) = 0
  BY DEF Less

\* The pauses a response asks for.
LEMMA TripsOfType ==
    ASSUME NEW s \in Status, NEW near \in BOOLEAN, NEW p \in Pauses
    PROVE  TripsOf(s, near, p) \in Seq(Nat)
  <1>1. NearCapPause \in Nat /\ p \in Nat
    BY LimitsAssumption
  <1>2. <<>> \in Seq(Nat) /\ <<NearCapPause>> \in Seq(Nat) /\ <<p>> \in Seq(Nat)
    BY <1>1
  <1>3. QED
    BY <1>2 DEF TripsOf

\* Nothing is blocked before the first call.
LEMMA RetryInit == Init => RetryInv
  <1> SUFFICES ASSUME Init PROVE RetryInv
    OBVIOUS
  <1>1. RetryTypeOK
    BY DEF Init, RetryTypeOK, Status
  <1>2. PauseInv /\ BanInv
    BY DEF Init, PauseInv, BanInv
  <1>3. QED
    BY <1>1, <1>2 DEF RetryInv

\* Every step keeps the invariant.
LEMMA RetryStep == RetryInv /\ [Next]_vars => RetryInv'
  <1> SUFFICES ASSUME RetryInv, [Next]_vars
               PROVE  RetryInv'
    OBVIOUS
  <1> USE DEF RetryInv, RetryTypeOK, PauseInv, BanInv, Status
  <1>1. CASE Tick
    <2>1. RetryTypeOK'
      BY <1>1, LessFacts DEF Tick
    <2>2. PauseInv'
      BY <1>1, LessFacts DEF Tick
    <2>3. QED
      BY <1>1, <2>1, <2>2 DEF Tick
  <1>2. ASSUME NEW r \in Requests, BreakerOpen(r) PROVE RetryInv'
    BY <1>2 DEF BreakerOpen
  <1>3. ASSUME NEW r \in Requests, BreakerBlocked(r) PROVE RetryInv'
    BY <1>3 DEF BreakerBlocked
  <1>4. ASSUME NEW r \in Requests, Admit(r) PROVE RetryInv'
    BY <1>4 DEF Admit
  <1>5. ASSUME NEW r \in Requests, Full(r) PROVE RetryInv'
    BY <1>5 DEF Full
  <1>6. ASSUME NEW r \in Requests, Respond(r) PROVE RetryInv'
    <2>1. PICK s \in {"ok", "error", "429", "418"}, near \in BOOLEAN, p \in Pauses :
             /\ status' = [status EXCEPT ![r] = s]
             /\ trips' = [trips EXCEPT ![r] = TripsOf(s, near, p)]
      BY <1>6 DEF Respond
    <2>2. TripsOf(s, near, p) \in Seq(Nat)
      BY TripsOfType
    <2>3. QED
      BY <1>6, <2>1, <2>2 DEF Respond
  <1>7. ASSUME NEW r \in Requests, NoResponse(r) PROVE RetryInv'
    BY <1>7 DEF NoResponse
  <1>8. ASSUME NEW r \in Requests, TripLoad(r) PROVE RetryInv'
    <2>1. Head(trips[r]) \in Nat /\ Tail(trips[r]) \in Seq(Nat)
      BY <1>8 DEF TripLoad
    <2>2. QED
      BY <1>8, <2>1 DEF TripLoad
  <1>9. ASSUME NEW r \in Requests, TripExchange(r) PROVE RetryInv'
    BY <1>9 DEF TripExchange
  <1>10. ASSUME NEW r \in Requests, TripReload(r) PROVE RetryInv'
    BY <1>10 DEF TripReload
  <1>11. ASSUME NEW r \in Requests, TripShorter(r) PROVE RetryInv'
    BY <1>11 DEF TripShorter
  <1>12. ASSUME NEW r \in Requests, Settle(r) PROVE RetryInv'
    BY <1>12 DEF Settle
  <1>13. CASE UNCHANGED vars
    BY <1>13 DEF vars
  <1>14. QED
    BY <1>1, <1>2, <1>3, <1>4, <1>5, <1>6, <1>7, <1>8, <1>9, <1>10, <1>11,
       <1>12, <1>13 DEF Next, Call, Acquire, Response, Trip

\* The breaker's invariant holds in every reachable state.
THEOREM RetryInvariant == Spec => []RetryInv
  BY RetryInit, RetryStep, PTL DEF Spec

\* However many calls trip the breaker at once, no pause is cut short.
THEOREM NoTripIsLost == Spec => []NoLostTrip
  <1>1. RetryInv => NoLostTrip
    BY DEF RetryInv, RetryTypeOK, PauseInv, NoLostTrip
  <1>2. QED
    BY <1>1, RetryInvariant, PTL

\* Only an admission counts an attempt.
LEMMA AttemptSteps ==
    ASSUME RetryInv, [Next]_vars, NEW r \in Requests, attempts'[r] > attempts[r]
    PROVE  pc[r] = "window"
  <1> USE DEF RetryInv, RetryTypeOK
  <1>1. CASE \E q \in Requests : Admit(q)
    <2>1. PICK q \in Requests : Admit(q)
      BY <1>1
    <2>2. q = r
      BY <2>1 DEF Admit
    <2>3. QED
      BY <2>1, <2>2 DEF Admit
  <1>2. CASE UNCHANGED attempts
    BY <1>2
  <1>3. ASSUME NEW q \in Requests, Call(q), ~Admit(q)
        PROVE  UNCHANGED attempts
    BY <1>3 DEF Call, Acquire, Response, Trip, BreakerOpen, BreakerBlocked,
       Full, Respond, NoResponse, TripLoad, TripExchange, TripReload,
       TripShorter, Settle
  <1>4. QED
    BY <1>1, <1>2, <1>3 DEF Next, Tick, vars

\* A call never sends again before the pauses it was told are over.
THEOREM RetryAfterAlways == Spec => RetryAfterRespected
  <1>1. RetryInv /\ [Next]_vars =>
            [\A r \in Requests : attempts'[r] > attempts[r] => owed[r] = 0]_vars
    BY AttemptSteps DEF RetryInv, PauseInv
  <1>2. QED
    BY <1>1, RetryInvariant, PTL DEF Spec, RetryAfterRespected

\* A banned call never sends again.
THEOREM BannedStopsAlways == Spec => BannedStops
  <1>1. RetryInv /\ [Next]_vars =>
            [\A r \in Requests : status[r] = "418" => attempts'[r] <= attempts[r]]_vars
    <2> SUFFICES ASSUME RetryInv, [Next]_vars, NEW r \in Requests,
                        status[r] = "418"
                 PROVE  attempts'[r] <= attempts[r]
      OBVIOUS
    <2>1. pc[r] # "window"
      BY DEF RetryInv, BanInv
    <2>2. attempts[r] \in Nat /\ attempts'[r] \in Nat
      BY RetryStep DEF RetryInv, RetryTypeOK
    <2>3. QED
      BY <2>1, <2>2, AttemptSteps
  <1>2. QED
    BY <1>1, RetryInvariant, PTL DEF Spec, BannedStops

-----------------------------------------------------------------------------
(***************************************************************************)
(* What a window weighs.                                                   *)
(***************************************************************************)

\* A set of natural numbers has a least one.
LEMMA LeastOf ==
    ASSUME NEW T \in SUBSET Nat, T # {}
    PROVE  \E m \in T : \A n \in T : m <= n
  <1> DEFINE R == {p \in Nat \X Nat : p[1] < p[2]}
  <1>1. IsWellFoundedOn(R, Nat)
    BY NatLessThanWellFounded DEF OpToRel
  <1> HIDE DEF R
  <1>2. PICK m \in T : \A n \in T : ~(<<n, m>> \in R)
    BY <1>1, WFMin
  <1>3. \A n \in T : <<n, m>> \in R <=> n < m
    BY DEF R
  <1>4. m \in Nat /\ \A n \in T : n \in Nat /\ ~(n < m)
    BY <1>2, <1>3
  <1>5. \A n \in T : m <= n
    BY <1>4
  <1>6. QED
    BY <1>5

\* What holds of 0 and passes from each number to the next holds of all.
LEMMA SetInduction ==
    ASSUME NEW S, 0 \in S, \A n \in Nat : n \in S => n + 1 \in S
    PROVE  Nat \subseteq S
  <1> SUFFICES ASSUME Nat \ S # {} PROVE FALSE
    OBVIOUS
  <1>1. PICK m \in Nat \ S : \A n \in Nat \ S : m <= n
    BY LeastOf
  <1>2. m \in Nat /\ m - 1 \in Nat /\ m - 1 \notin Nat \ S
    BY <1>1
  <1>3. QED
    BY <1>1, <1>2

\* Running sums of the weights of s.
Sums(s, f) ==
    /\ f \in [0..Len(s) -> Nat]
    /\ f[0] = 0
    /\ \A i \in 1..Len(s) : f[i] = f[i - 1] + s[i].weight

\* Every sequence of entries has running sums.
LEMMA SumsExist ==
    ASSUME NEW s \in Seq(Entry)
    PROVE  \E f : Sums(s, f)
  <1> DEFINE L == Len(s)
             Upto(k, f) == /\ f \in [0..k -> Nat]
                           /\ f[0] = 0
                           /\ \A i \in 1..k : f[i] = f[i - 1] + s[i].weight
             G == {k \in Nat : k <= L => \E f : Upto(k, f)}
  <1>1. L \in Nat /\ \A i \in 1..L : s[i].weight \in Nat
    <2>1. \A i \in 1..L : s[i] \in Entry
      BY ElementOfSeq
    <2>2. QED
      BY <2>1 DEF Entry
  <1> HIDE DEF L, Upto
  <1>2. 0 \in G
    <2>1. Upto(0, [i \in 0..0 |-> 0])
      BY DEF Upto
    <2>2. QED
      BY <2>1
  <1>3. ASSUME NEW k \in Nat, k \in G PROVE k + 1 \in G
    <2> SUFFICES ASSUME k + 1 <= L PROVE \E f : Upto(k + 1, f)
      OBVIOUS
    <2>1. PICK f : Upto(k, f)
      BY <1>3, <1>1
    <2> DEFINE h == [i \in 0..(k + 1) |-> IF i <= k THEN f[i] ELSE f[k] + s[k + 1].weight]
    <2>2. f[k] + s[k + 1].weight \in Nat
      <3>1. k \in 0..k /\ k + 1 \in 1..L
        BY <1>1
      <3>2. QED
        BY <3>1, <2>1, <1>1 DEF Upto
    <2>3. h \in [0..(k + 1) -> Nat]
      <3>1. \A i \in 0..(k + 1) : i <= k => i \in 0..k
        OBVIOUS
      <3>2. QED
        BY <3>1, <2>1, <2>2 DEF Upto
    <2>4. h[0] = 0
      BY <2>1 DEF Upto
    <2>5. ASSUME NEW i \in 1..(k + 1) PROVE h[i] = h[i - 1] + s[i].weight
      <3>1. CASE i <= k
        <4>1. i \in 1..k /\ i - 1 \in 0..(k + 1) /\ i - 1 <= k /\ i \in 0..(k + 1)
          BY <3>1
        <4>2. h[i] = f[i] /\ h[i - 1] = f[i - 1]
          BY <4>1
        <4>3. QED
          BY <4>1, <4>2, <2>1 DEF Upto
      <3>2. CASE i = k + 1
        <4>1. k \in 0..(k + 1) /\ k + 1 \in 0..(k + 1) /\ i - 1 = k /\ ~(k + 1 <= k)
          BY <3>2
        <4>2. h[k + 1] = f[k] + s[k + 1].weight /\ h[k] = f[k]
          BY <4>1
        <4>3. QED
          BY <4>1, <4>2, <3>2
      <3>3. QED
        BY <3>1, <3>2
    <2>6. Upto(k + 1, h)
      BY <2>3, <2>4, <2>5 DEF Upto
    <2> HIDE DEF h
    <2>7. QED
      BY <2>6
  <1>4. Nat \subseteq G
    <2> HIDE DEF G
    <2>1. QED
      BY <1>2, <1>3, SetInduction
  <1>5. PICK f : Upto(L, f)
    BY <1>1, <1>4
  <1>6. QED
    BY <1>5 DEF Sums, L, Upto

\* They are unique, and the last of them is what the entries weigh.
LEMMA SumsOf ==
    ASSUME NEW s \in Seq(Entry), NEW f, Sums(s, f)
    PROVE  TotalWeight(s) = f[Len(s)] /\ TotalWeight(s) \in Nat
  <1> DEFINE L == Len(s)
             F(g) == [i \in 0..L |-> IF i = 0 THEN 0 ELSE g[i - 1] + s[i].weight]
             c == CHOOSE g : g = F(g)
  <1>1. L \in Nat
    OBVIOUS
  <1>2. f = F(f)
    BY <1>1 DEF Sums
  <1>3. c = F(c)
    <2> HIDE DEF F
    <2>1. QED
      BY <1>2
  <1>4. TotalWeight(s) = c[L]
    BY DEF TotalWeight
  <1> HIDE DEF c
  <1>5. c[0] = 0 /\ \A i \in 1..L : c[i] = c[i - 1] + s[i].weight
    <2>1. 0 \in 0..L /\ \A i \in 1..L : i \in 0..L /\ i # 0
      BY <1>1
    <2>2. QED
      BY <2>1, <1>3
  <1> HIDE DEF F, L
  <1> DEFINE G == {k \in Nat : k <= L => c[k] = f[k]}
  <1>6. 0 \in G
    BY <1>5 DEF Sums
  <1>7. ASSUME NEW k \in Nat, k \in G PROVE k + 1 \in G
    <2>1. ASSUME k + 1 <= L PROVE c[k + 1] = f[k + 1]
      <3>1. k + 1 \in 1..L /\ (k + 1) - 1 = k /\ k <= L
        BY <2>1, <1>1
      <3>2. c[k] = f[k]
        BY <1>7, <3>1
      <3>3. f[k + 1] = f[k] + s[k + 1].weight
        BY <3>1 DEF Sums, L
      <3>4. QED
        BY <3>1, <3>2, <3>3, <1>5
    <2>2. QED
      BY <2>1
  <1>8. Nat \subseteq G
    <2> HIDE DEF G
    <2>1. QED
      BY <1>6, <1>7, SetInduction
  <1>9. c[L] = f[L] /\ f[L] \in Nat
    BY <1>8, <1>1 DEF Sums, L
  <1>10. QED
    BY <1>4, <1>9 DEF L

\* One entry more.
LEMMA WeightAppend ==
    ASSUME NEW s \in Seq(Entry), NEW e \in Entry
    PROVE  /\ TotalWeight(Append(s, e)) = TotalWeight(s) + e.weight
           /\ TotalWeight(<<>>) = 0
  <1> DEFINE t == Append(s, e)
             L == Len(s)
  <1>1. /\ t \in Seq(Entry) /\ Len(t) = L + 1 /\ L \in Nat
        /\ \A i \in 1..L : t[i] = s[i]
        /\ t[L + 1] = e
    OBVIOUS
  <1> HIDE DEF t
  <1>2. PICK f : Sums(t, f)
    BY <1>1, SumsExist
  <1> DEFINE g == [i \in 0..L |-> f[i]]
  <1>3. Sums(s, g)
    <2>1. /\ f \in [0..(L + 1) -> Nat] /\ f[0] = 0
          /\ \A i \in 1..(L + 1) : f[i] = f[i - 1] + t[i].weight
      BY <1>1, <1>2 DEF Sums
    <2>2. /\ \A i \in 0..L : i \in 0..(L + 1)
          /\ \A i \in 1..L : i \in 0..L /\ i - 1 \in 0..L /\ i \in 1..(L + 1)
          /\ 0 \in 0..L
      BY <1>1
    <2>3. g \in [0..L -> Nat] /\ g[0] = 0
      BY <2>1, <2>2
    <2>4. ASSUME NEW i \in 1..L PROVE g[i] = g[i - 1] + s[i].weight
      <3>1. g[i] = f[i] /\ g[i - 1] = f[i - 1] /\ t[i] = s[i]
        BY <2>2, <1>1
      <3>2. QED
        BY <3>1, <2>1, <2>2
    <2>5. QED
      BY <2>3, <2>4 DEF Sums
  <1>4. TotalWeight(s) = f[L] /\ TotalWeight(t) = f[L + 1]
    <2>1. L \in 0..L
      BY <1>1
    <2>2. QED
      BY <1>1, <1>2, <1>3, <2>1, SumsOf
  <1>5. f[L + 1] = f[L] + e.weight
    <2>1. L + 1 \in 1..(L + 1) /\ (L + 1) - 1 = L
      BY <1>1
    <2>2. f[L + 1] = f[(L + 1) - 1] + t[L + 1].weight
      BY <2>1, <1>1, <1>2 DEF Sums
    <2>3. QED
      BY <2>1, <2>2, <1>1
  <1>6. TotalWeight(<<>>) = 0
    <2>1. <<>> \in Seq(Entry) /\ Len(<<>>) = 0
      OBVIOUS
    <2>2. PICK h : Sums(<<>>, h)
      BY <2>1, SumsExist
    <2>3. QED
      BY <2>1, <2>2, SumsOf DEF Sums
  <1>7. QED
    BY <1>4, <1>5, <1>6 DEF t

\* Entries weigh the same however old they are.
LEMMA WeightAgeless ==
    ASSUME NEW s \in Seq(Entry), NEW t \in Seq(Entry), Len(s) = Len(t),
           \A i \in 1..Len(s) : s[i].weight = t[i].weight
    PROVE  TotalWeight(s) = TotalWeight(t)
  <1>1. PICK f : Sums(s, f)
    BY SumsExist
  <1>2. Sums(t, f)
    BY <1>1 DEF Sums
  <1>3. QED
    BY <1>1, <1>2, SumsOf

\* What is left of entries weighs no more than all of them.
LEMMA WeightSuffix ==
    ASSUME NEW s \in Seq(Entry), NEW k \in 0..Len(s)
    PROVE  /\ SubSeq(s, k + 1, Len(s)) \in Seq(Entry)
           /\ TotalWeight(SubSeq(s, k + 1, Len(s))) <= TotalWeight(s)
           /\ TotalWeight(s) \in Nat
  <1> DEFINE t == SubSeq(s, k + 1, Len(s))
             L == Len(s)
  <1>1. /\ t \in Seq(Entry) /\ Len(t) = L - k /\ L \in Nat /\ k \in Nat /\ k <= L
        /\ \A i \in 1..(L - k) : t[i] = s[i + k]
    OBVIOUS
  <1>2. PICK f : Sums(s, f)
    BY SumsExist
  <1> HIDE DEF t
  <1>3. PICK g : Sums(t, g)
    BY <1>1, SumsExist
  <1> HIDE DEF L
  <1>4. /\ f \in [0..L -> Nat]
        /\ \A i \in 1..L : f[i] = f[i - 1] + s[i].weight
        /\ g \in [0..(L - k) -> Nat] /\ g[0] = 0
        /\ \A i \in 1..(L - k) : g[i] = g[i - 1] + t[i].weight
    BY <1>1, <1>2, <1>3 DEF Sums, L
  <1>5. \A i \in 1..L : s[i].weight \in Nat
    <2>1. \A i \in 1..L : s[i] \in Entry
      BY ElementOfSeq DEF L
    <2>2. QED
      BY <2>1 DEF Entry
  <1> DEFINE G == {i \in Nat : i <= L - k => g[i] <= f[i + k]}
  <1>6. 0 \in G
    <2>1. k \in 0..L
      BY <1>1
    <2>2. f[k] \in Nat
      BY <2>1, <1>4
    <2>3. QED
      BY <2>2, <1>1, <1>4
  <1>7. ASSUME NEW i \in Nat, i \in G PROVE i + 1 \in G
    <2> SUFFICES ASSUME i + 1 <= L - k PROVE g[i + 1] <= f[(i + 1) + k]
      OBVIOUS
    <2>1. /\ i + 1 \in 1..(L - k) /\ (i + 1) - 1 = i /\ i <= L - k /\ i \in 0..(L - k)
          /\ (i + 1) + k \in 1..L /\ ((i + 1) + k) - 1 = i + k /\ i + k \in 0..L
      BY <1>1
    <2>2. g[i] <= f[i + k] /\ g[i] \in Nat /\ f[i + k] \in Nat
      BY <2>1, <1>7, <1>4
    <2>3. g[i + 1] = g[(i + 1) - 1] + t[i + 1].weight /\ t[i + 1] = s[(i + 1) + k]
      BY <2>1, <1>4, <1>1
    <2>4. f[(i + 1) + k] = f[((i + 1) + k) - 1] + s[(i + 1) + k].weight
      BY <2>1, <1>4
    <2>5. s[(i + 1) + k].weight \in Nat
      BY <2>1, <1>5
    <2>6. QED
      BY <2>1, <2>2, <2>3, <2>4, <2>5
  <1>8. Nat \subseteq G
    <2> HIDE DEF G
    <2>1. QED
      BY <1>6, <1>7, SetInduction
  <1>9. g[L - k] <= f[L]
    <2>1. L - k \in Nat /\ (L - k) + k = L
      BY <1>1
    <2>2. L - k \in G
      BY <2>1, <1>8
    <2>3. QED
      BY <2>1, <2>2
  <1>10. QED
    BY <1>1, <1>2, <1>3, <1>9, SumsOf DEF t, L

-----------------------------------------------------------------------------
(***************************************************************************)
(* Popping.                                                                *)
(***************************************************************************)

\* k entries of s are popped.
Pops(s, w, k) ==
    /\ k \in 0..Len(s)
    /\ \A i \in 1..k : s[i].age > w
    /\ k < Len(s) => s[k + 1].age <= w

\* One number of entries is right.
LEMMA PopsOne ==
    ASSUME NEW s \in Seq(Entry), NEW w \in Nat
    PROVE  /\ \E k \in 0..Len(s) : Pops(s, w, k)
           /\ \A k, l \in 0..Len(s) : Pops(s, w, k) /\ Pops(s, w, l) => k = l
  <1> DEFINE L == Len(s)
             T == {k \in 0..L : k < L => s[k + 1].age <= w}
  <1>1. L \in Nat /\ \A i \in 1..L : s[i].age \in Nat
    <2>1. \A i \in 1..L : s[i] \in Entry
      BY ElementOfSeq
    <2>2. QED
      BY <2>1 DEF Entry
  <1> HIDE DEF L
  <1>2. T \in SUBSET Nat /\ T # {}
    <2>1. L \in T
      BY <1>1
    <2>2. T \in SUBSET Nat
      BY <1>1
    <2>3. QED
      BY <2>1, <2>2
  <1>3. PICK k \in T : \A l \in T : k <= l
    <2> HIDE DEF T
    <2>1. QED
      BY <1>2, LeastOf
  <1>4. ASSUME NEW i \in 1..k PROVE s[i].age > w
    <2>1. i - 1 \in 0..L /\ i - 1 < k /\ i - 1 < L /\ (i - 1) + 1 = i /\ i \in 1..L
      BY <1>1, <1>3
    <2>2. i - 1 \notin T
      BY <1>3, <2>1
    <2>3. QED
      BY <2>1, <2>2, <1>1
  <1>5. Pops(s, w, k)
    BY <1>3, <1>4 DEF Pops, L
  <1>6. ASSUME NEW m \in 0..L, NEW l \in 0..L, Pops(s, w, m), Pops(s, w, l), m < l
        PROVE  FALSE
    <2>1. m + 1 \in 1..l /\ m < L /\ m + 1 \in 1..L
      BY <1>6, <1>1
    <2>2. s[m + 1].age > w /\ s[m + 1].age <= w
      BY <2>1, <1>6 DEF Pops, L
    <2>3. QED
      BY <2>1, <2>2, <1>1
  <1>7. QED
    BY <1>3, <1>5, <1>6, <1>1 DEF L

\* What is left is what comes after them.
LEMMA PopFrontIs ==
    ASSUME NEW s \in Seq(Entry), NEW w \in Nat, NEW k, Pops(s, w, k)
    PROVE  PopFront(s, w) = SubSeq(s, k + 1, Len(s)) /\ k \in 0..Len(s)
  <1> DEFINE n == CHOOSE l \in 0..Len(s) : Pops(s, w, l)
  <1>1. PopFront(s, w) = SubSeq(s, n + 1, Len(s))
    BY DEF PopFront, Pops
  <1>2. k \in 0..Len(s)
    BY DEF Pops
  <1>3. n \in 0..Len(s) /\ Pops(s, w, n)
    BY <1>2
  <1> HIDE DEF n
  <1>4. n = k
    BY <1>2, <1>3, PopsOne
  <1>5. QED
    BY <1>1, <1>2, <1>4

\* What popping leaves: entries that weigh no more, the first of them young;
\* popping again changes nothing, also when a young entry comes behind them.
LEMMA PopFrontFacts ==
    ASSUME NEW s \in Seq(Entry), NEW w \in Nat
    PROVE  LET u == PopFront(s, w)
           IN  /\ u \in Seq(Entry)
               /\ Len(u) <= Len(s)
               /\ TotalWeight(u) <= TotalWeight(s)
               /\ TotalWeight(u) \in Nat /\ TotalWeight(s) \in Nat
               /\ PopFront(u, w) = u
               /\ \A e \in Entry : e.age <= w => PopFront(Append(u, e), w) = Append(u, e)
  <1> DEFINE u == PopFront(s, w)
  <1>1. PICK k \in 0..Len(s) : Pops(s, w, k)
    BY PopsOne
  <1>2. u = SubSeq(s, k + 1, Len(s))
    BY <1>1, PopFrontIs
  <1>3. /\ u \in Seq(Entry) /\ Len(u) = Len(s) - k /\ Len(u) \in Nat /\ k \in Nat
        /\ \A i \in 1..(Len(s) - k) : u[i] = s[i + k]
    BY <1>2
  <1> HIDE DEF u
  <1>4. Len(u) # 0 => u[1].age <= w
    <2> SUFFICES ASSUME Len(u) # 0 PROVE u[1].age <= w
      OBVIOUS
    <2>1. 1 \in 1..(Len(s) - k) /\ k < Len(s) /\ 1 + k = k + 1
      BY <1>3
    <2>2. QED
      BY <2>1, <1>1, <1>3 DEF Pops
  <1>5. ASSUME NEW t \in Seq(Entry), Len(t) # 0 => t[1].age <= w PROVE PopFront(t, w) = t
    <2>1. Len(t) \in Nat /\ 0 \in 0..Len(t) /\ 1..0 = {} /\ 0 + 1 = 1
      OBVIOUS
    <2>2. Pops(t, w, 0)
      BY <2>1, <1>5 DEF Pops
    <2>3. PopFront(t, w) = SubSeq(t, 1, Len(t))
      BY <2>2, <2>1, PopFrontIs
    <2>4. QED
      BY <2>3
  <1>6. ASSUME NEW e \in Entry, e.age <= w PROVE PopFront(Append(u, e), w) = Append(u, e)
    <2>1. Append(u, e) \in Seq(Entry) /\ Append(u, e)[1] = IF Len(u) = 0 THEN e ELSE u[1]
      BY <1>3
    <2>2. QED
      BY <2>1, <1>4, <1>5, <1>6
  <1>7. Len(u) <= Len(s)
    BY <1>3
  <1>8. /\ TotalWeight(u) <= TotalWeight(s)
        /\ TotalWeight(u) \in Nat /\ TotalWeight(s) \in Nat
    <2>1. TotalWeight(u) <= TotalWeight(s) /\ TotalWeight(s) \in Nat
      BY <1>2, WeightSuffix
    <2>2. TotalWeight(u) \in Nat
      <3>1. 0 \in 0..Len(u)
        BY <1>3
      <3>2. QED
        BY <1>3, <3>1, WeightSuffix
    <2>3. QED
      BY <2>1, <2>2
  <1>9. QED
    BY <1>3, <1>4, <1>5, <1>6, <1>7, <1>8 DEF u

\* A tick later.
LEMMA OlderFacts ==
    ASSUME NEW g \in Groups, NEW s \in Seq(Entry)
    PROVE  /\ Older(g, s) \in Seq(Entry) /\ Len(Older(g, s)) = Len(s)
           /\ \A i \in 1..Len(s) :
                 /\ Older(g, s)[i].age = IF s[i].age <= Window[g] THEN s[i].age + 1 ELSE s[i].age
                 /\ Older(g, s)[i].weight = s[i].weight
           /\ TotalWeight(Older(g, s)) = TotalWeight(s)
  <1> DEFINE o == Older(g, s)
  <1>1. \A i \in 1..Len(s) : s[i] \in Entry
    BY ElementOfSeq
  <1>2. o = [i \in 1..Len(s) |->
               [s[i] EXCEPT !.age = IF s[i].age <= Window[g] THEN s[i].age + 1 ELSE s[i].age]]
    BY DEF Older
  <1>3. ASSUME NEW i \in 1..Len(s)
        PROVE  /\ o[i] \in Entry
               /\ o[i].age = IF s[i].age <= Window[g] THEN s[i].age + 1 ELSE s[i].age
               /\ o[i].weight = s[i].weight
    <2> DEFINE e == s[i]
    <2>1. e \in [age : Nat, weight : Nat \ {0}]
      BY <1>1 DEF Entry
    <2>2. o[i] = [e EXCEPT !.age = IF e.age <= Window[g] THEN e.age + 1 ELSE e.age]
      BY <1>2
    <2> HIDE DEF e, o
    <2>3. PICK a \in Nat, x \in Nat \ {0} : e = [age |-> a, weight |-> x]
      BY <2>1
    <2>4. Window[g] \in Nat
      BY LimitsAssumption
    <2>5. o[i] = [age |-> IF a <= Window[g] THEN a + 1 ELSE a, weight |-> x]
      BY <2>2, <2>3
    <2>6. QED
      BY <2>3, <2>4, <2>5 DEF Entry, e
  <1>4. o \in Seq(Entry) /\ Len(o) = Len(s)
    <2> HIDE DEF o
    <2>1. o \in [1..Len(s) -> Entry]
      <3>1. DOMAIN o = 1..Len(s) /\ o = [i \in 1..Len(s) |-> o[i]]
        BY <1>2
      <3>2. QED
        BY <3>1, <1>3
    <2>2. Len(s) \in Nat
      OBVIOUS
    <2>3. QED
      BY <2>1, <2>2
  <1> HIDE DEF o
  <1>5. TotalWeight(o) = TotalWeight(s)
    BY <1>3, <1>4, WeightAgeless
  <1>6. QED
    BY <1>3, <1>4, <1>5 DEF o

\* It makes no difference whether a limiter pops before the tick and after it,
\* or only after it.
LEMMA PopLater ==
    ASSUME NEW g \in Groups, NEW s \in Seq(Entry), NEW u, u = PopFront(s, Window[g])
    PROVE  PopFront(Older(g, u), Window[g]) = PopFront(Older(g, s), Window[g])
  <1> DEFINE w == Window[g]
             L == Len(s)
             os == Older(g, s)
             ou == Older(g, u)
  <1>1. w \in Nat /\ L \in Nat
    BY LimitsAssumption
  <1>2. PICK k \in 0..L : Pops(s, w, k)
    BY <1>1, PopsOne
  <1>3. u = SubSeq(s, k + 1, L)
    BY <1>1, <1>2, PopFrontIs
  <1>4. u \in Seq(Entry) /\ Len(u) = L - k /\ \A i \in 1..(L - k) : u[i] = s[i + k]
    BY <1>3
  <1>5. /\ os \in Seq(Entry) /\ Len(os) = L
        /\ ou \in Seq(Entry) /\ Len(ou) = L - k
        /\ \A i \in 1..L : os[i].age = IF s[i].age <= w THEN s[i].age + 1 ELSE s[i].age
    BY <1>4, OlderFacts
  <1>6. \A i \in 1..(L - k) : ou[i] = os[i + k]
    <2> SUFFICES ASSUME NEW i \in 1..(L - k) PROVE ou[i] = os[i + k]
      OBVIOUS
    <2>1. i + k \in 1..L /\ i \in 1..Len(u)
      BY <1>1, <1>4
    <2>2. u[i] = s[i + k] /\ i \in DOMAIN u /\ i + k \in DOMAIN s
      BY <2>1, <1>4
    <2>3. QED
      BY <2>2 DEF Older
  <1> HIDE DEF w, L, os, ou
  <1>7. \A i \in 1..L : s[i].age \in Nat
    <2>1. \A i \in 1..L : s[i] \in Entry
      BY ElementOfSeq DEF L
    <2>2. QED
      BY <2>1 DEF Entry
  <1>8. PICK m \in 0..(L - k) : Pops(ou, w, m)
    BY <1>1, <1>5, PopsOne
  <1>9. Pops(os, w, k + m)
    <2>1. k + m \in 0..Len(os)
      BY <1>1, <1>5
    <2>2. ASSUME NEW i \in 1..(k + m) PROVE os[i].age > w
      <3>1. CASE i <= k
        <4>1. i \in 1..k /\ i \in 1..L
          BY <3>1, <1>1
        <4>2. s[i].age > w /\ s[i].age \in Nat
          BY <4>1, <1>2, <1>7 DEF Pops
        <4>3. QED
          BY <4>1, <4>2, <1>1, <1>5
      <3>2. CASE i > k
        <4>1. i - k \in 1..m /\ i - k \in 1..(L - k) /\ (i - k) + k = i
          BY <3>2, <1>1
        <4>2. ou[i - k].age > w /\ ou[i - k] = os[(i - k) + k]
          BY <4>1, <1>6, <1>8 DEF Pops
        <4>3. QED
          BY <4>1, <4>2
      <3>3. QED
        BY <3>1, <3>2, <1>1
    <2>3. ASSUME k + m < L PROVE os[(k + m) + 1].age <= w
      <3>1. m < L - k /\ m + 1 \in 1..(L - k) /\ (m + 1) + k = (k + m) + 1
        BY <2>3, <1>1
      <3>2. ou[m + 1].age <= w /\ ou[m + 1] = os[(m + 1) + k]
        BY <3>1, <1>5, <1>6, <1>8 DEF Pops
      <3>3. QED
        BY <3>1, <3>2
    <2>4. QED
      BY <2>1, <2>2, <2>3, <1>5 DEF Pops
  <1>10. /\ PopFront(os, w) = SubSeq(os, (k + m) + 1, L)
         /\ PopFront(ou, w) = SubSeq(ou, m + 1, L - k)
    BY <1>1, <1>5, <1>8, <1>9, PopFrontIs
  <1>11. SubSeq(os, (k + m) + 1, L) = SubSeq(ou, m + 1, L - k)
    <2> DEFINE a == SubSeq(os, (k + m) + 1, L)
               b == SubSeq(ou, m + 1, L - k)
    <2>1. /\ a \in Seq(Entry) /\ Len(a) = L - (k + m)
          /\ \A i \in 1..(L - (k + m)) : a[i] = os[i + (k + m)]
      BY <1>1, <1>5
    <2>2. /\ b \in Seq(Entry) /\ Len(b) = (L - k) - m
          /\ \A i \in 1..((L - k) - m) : b[i] = ou[i + m]
      BY <1>1, <1>5
    <2> HIDE DEF a, b
    <2>3. Len(a) = Len(b)
      BY <2>1, <2>2, <1>1
    <2>4. ASSUME NEW i \in 1..Len(a) PROVE a[i] = b[i]
      <3>1. /\ i \in 1..(L - (k + m)) /\ i \in 1..((L - k) - m)
            /\ i + m \in 1..(L - k) /\ (i + m) + k = i + (k + m)
        BY <2>1, <1>1
      <3>2. QED
        BY <3>1, <2>1, <2>2, <1>6
    <2>5. a = b
      BY <2>1, <2>2, <2>3, <2>4, SeqEqual
    <2>6. QED
      BY <2>5 DEF a, b
  <1>12. QED
    BY <1>10, <1>11 DEF os, ou, w

-----------------------------------------------------------------------------
(***************************************************************************)
(* The windows.                                                            *)
(***************************************************************************)

\* The older an entry the further in front.
Falling(s) == \A i, j \in 1..Len(s) : i < j => s[j].age <= s[i].age

WithinBudget(g, s) == TotalWeight(s) <= MaxPerWindow(g) \/ Len(s) = 1

\* What a limiter remembers, without what it would pop now, are the admissions
\* of the last window, and they are within the budget.
WindowInv ==
    /\ window \in [Groups -> Seq(Entry)]
    /\ recent \in [Groups -> Seq(Entry)]
    /\ \A g \in Groups :
          /\ recent[g] = PopFront(window[g], Window[g])
          /\ Falling(recent[g])
          /\ WithinBudget(g, recent[g])

\* A budget is a number above zero.
LEMMA BudgetType == \A g \in Groups : MaxPerWindow(g) \in Nat /\ Window[g] \in Nat
  BY LimitsAssumption DEF MaxPerWindow

\* Popping and ageing keep the order.
LEMMA FallingKept ==
    ASSUME NEW g \in Groups, NEW s \in Seq(Entry), Falling(s)
    PROVE  Falling(PopFront(Older(g, s), Window[g]))
  <1> DEFINE o == Older(g, s)
             w == Window[g]
             L == Len(s)
  <1>1. /\ o \in Seq(Entry) /\ Len(o) = L /\ L \in Nat /\ w \in Nat
        /\ \A i \in 1..L : o[i].age = IF s[i].age <= w THEN s[i].age + 1 ELSE s[i].age
    BY OlderFacts, BudgetType
  <1>2. \A i \in 1..L : s[i].age \in Nat
    <2>1. \A i \in 1..L : s[i] \in Entry
      BY ElementOfSeq
    <2>2. QED
      BY <2>1 DEF Entry
  <1> HIDE DEF o, w, L
  <1>3. ASSUME NEW i \in 1..L, NEW j \in 1..L, i < j PROVE o[j].age <= o[i].age
    <2>1. s[j].age <= s[i].age /\ s[j].age \in Nat /\ s[i].age \in Nat
      BY <1>2, <1>3 DEF Falling, L
    <2>2. QED
      BY <2>1, <1>1
  <1>4. PICK k \in 0..L : Pops(o, w, k)
    BY <1>1, PopsOne
  <1>5. PopFront(o, w) = SubSeq(o, k + 1, L)
    BY <1>1, <1>4, PopFrontIs
  <1> DEFINE u == SubSeq(o, k + 1, L)
  <1>6. Len(u) = L - k /\ \A i \in 1..(L - k) : u[i] = o[i + k]
    BY <1>1
  <1> HIDE DEF u
  <1>7. Falling(u)
    <2> SUFFICES ASSUME NEW i \in 1..(L - k), NEW j \in 1..(L - k), i < j
                 PROVE  u[j].age <= u[i].age
      BY <1>6 DEF Falling
    <2>1. i + k \in 1..L /\ j + k \in 1..L /\ i + k < j + k
      BY <1>1
    <2>2. QED
      BY <2>1, <1>3, <1>6
  <1>8. QED
    BY <1>5, <1>7 DEF o, w, u

\* A window that loses entries or lets them age stays within the budget.
LEMMA BudgetKept ==
    ASSUME NEW g \in Groups, NEW s \in Seq(Entry), WithinBudget(g, s)
    PROVE  WithinBudget(g, PopFront(Older(g, s), Window[g]))
  <1> DEFINE o == Older(g, s)
             u == PopFront(o, Window[g])
  <1>1. o \in Seq(Entry) /\ Len(o) = Len(s) /\ TotalWeight(o) = TotalWeight(s)
    BY OlderFacts
  <1>2. /\ u \in Seq(Entry) /\ Len(u) <= Len(o)
        /\ TotalWeight(u) <= TotalWeight(o)
        /\ TotalWeight(u) \in Nat /\ TotalWeight(o) \in Nat
    BY <1>1, BudgetType, PopFrontFacts
  <1> SUFFICES WithinBudget(g, u)
    OBVIOUS
  <1> HIDE DEF o, u
  <1>3. CASE TotalWeight(s) <= MaxPerWindow(g)
    BY <1>1, <1>2, <1>3, BudgetType DEF WithinBudget
  <1>4. CASE Len(s) = 1
    <2>1. Len(u) = 0 \/ Len(u) = 1
      BY <1>1, <1>2, <1>4, LenProperties
    <2>2. CASE Len(u) = 0
      <3>1. u = <<>>
        BY <1>2, <2>2, EmptySeq
      <3>2. <<>> \in Seq(Entry) /\ [age |-> 0, weight |-> 1] \in Entry
        BY DEF Entry
      <3>3. TotalWeight(<<>>) = 0
        BY <3>2, WeightAppend
      <3>4. QED
        BY <3>1, <3>3, BudgetType DEF WithinBudget
    <2>3. QED
      BY <2>1, <2>2 DEF WithinBudget
  <1>5. QED
    BY <1>3, <1>4 DEF WithinBudget

\* Nothing was admitted before the first call.
LEMMA WindowInit == Init => WindowInv
  <1> SUFFICES ASSUME Init, NEW g \in Groups
               PROVE  /\ recent[g] = PopFront(window[g], Window[g])
                      /\ Falling(recent[g])
                      /\ WithinBudget(g, recent[g])
    <2>1. <<>> \in Seq(Entry)
      OBVIOUS
    <2>2. QED
      BY <2>1 DEF Init, WindowInv
  <1>1. <<>> \in Seq(Entry) /\ Len(<<>>) = 0 /\ 1..0 = {}
    OBVIOUS
  <1>2. PopFront(<<>>, Window[g]) = <<>>
    <2> DEFINE u == PopFront(<<>>, Window[g])
    <2>1. u \in Seq(Entry) /\ Len(u) <= 0
      BY <1>1, BudgetType, PopFrontFacts
    <2> HIDE DEF u
    <2>2. Len(u) \in Nat
      BY <2>1
    <2>3. u = <<>>
      BY <2>1, <2>2, EmptySeq
    <2>4. QED
      BY <2>3 DEF u
  <1>3. [age |-> 0, weight |-> 1] \in Entry
    BY DEF Entry
  <1>4. TotalWeight(<<>>) = 0
    BY <1>1, <1>3, WeightAppend
  <1>5. QED
    BY <1>1, <1>2, <1>4, BudgetType DEF Init, Falling, WithinBudget

\* An admission: what is left of the window is what was admitted within it.
LEMMA WindowAdmit ==
    ASSUME WindowInv, NEW r \in Requests, Admit(r)
    PROVE  WindowInv'
  <1> DEFINE g == Group[r]
             e == [age |-> 0, weight |-> Weight[r]]
             s == recent[g]
             t == Append(s, e)
  <1>1. /\ g \in Groups /\ e \in Entry /\ e.age = 0 /\ e.weight = Weight[r]
        /\ Weight[r] \in Nat
    BY RequestsAssumption DEF Entry
  <1>2. s \in Seq(Entry) /\ window[g] \in Seq(Entry) /\ s = PopFront(window[g], Window[g])
        /\ Falling(s)
    BY <1>1 DEF WindowInv
  <1>3. /\ window' = [window EXCEPT ![g] = t]
        /\ recent' = [recent EXCEPT ![g] = t]
        /\ TotalWeight(s) + Weight[r] <= MaxPerWindow(g) \/ s = <<>>
    BY <1>2 DEF Admit, Fits, Unexpired
  <1>4. e.age <= Window[g] /\ MaxPerWindow(g) \in Nat /\ Window[g] \in Nat
    BY <1>1, BudgetType
  <1>5. PopFront(t, Window[g]) = t
    BY <1>1, <1>2, <1>4, PopFrontFacts
  <1>6. /\ t \in Seq(Entry) /\ Len(t) = Len(s) + 1 /\ Len(s) \in Nat
        /\ \A i \in 1..Len(s) : t[i] = s[i]
        /\ t[Len(s) + 1] = e
    BY <1>1, <1>2
  <1>7. \A i \in 1..Len(s) : s[i].age \in Nat
    <2>1. \A i \in 1..Len(s) : s[i] \in Entry
      BY <1>2, ElementOfSeq
    <2>2. QED
      BY <2>1 DEF Entry
  <1>8. TotalWeight(t) = TotalWeight(s) + Weight[r]
    BY <1>1, <1>2, WeightAppend
  <1> HIDE DEF g, e, s, t
  <1>9. Falling(t)
    <2> SUFFICES ASSUME NEW i \in 1..(Len(s) + 1), NEW j \in 1..(Len(s) + 1), i < j
                 PROVE  t[j].age <= t[i].age
      BY <1>6 DEF Falling
    <2>1. i \in 1..Len(s) /\ t[i] = s[i]
      BY <1>6
    <2>2. CASE j \in 1..Len(s)
      BY <2>1, <2>2, <1>2, <1>6 DEF Falling
    <2>3. CASE j = Len(s) + 1
      BY <2>1, <2>3, <1>1, <1>6, <1>7
    <2>4. QED
      BY <2>2, <2>3, <1>6
  <1>10. WithinBudget(g, t)
    <2>1. CASE TotalWeight(s) + Weight[r] <= MaxPerWindow(g)
      BY <2>1, <1>8 DEF WithinBudget
    <2>2. CASE s = <<>>
      BY <2>2, <1>6 DEF WithinBudget
    <2>3. QED
      BY <1>3, <2>1, <2>2
  <1>11. ASSUME NEW h \in Groups
         PROVE  /\ recent'[h] = PopFront(window'[h], Window[h])
                /\ Falling(recent'[h])
                /\ WithinBudget(h, recent'[h])
    <2>1. CASE h = g
      <3>1. recent'[h] = t /\ window'[h] = t
        BY <2>1, <1>1, <1>3 DEF WindowInv
      <3>2. QED
        BY <3>1, <2>1, <1>5, <1>9, <1>10
    <2>2. CASE h # g
      <3>1. recent'[h] = recent[h] /\ window'[h] = window[h]
        BY <2>2, <1>3 DEF WindowInv
      <3>2. QED
        BY <3>1 DEF WindowInv
    <2>3. QED
      BY <2>1, <2>2
  <1>12. window' \in [Groups -> Seq(Entry)] /\ recent' \in [Groups -> Seq(Entry)]
    BY <1>1, <1>3, <1>6 DEF WindowInv
  <1>13. QED
    BY <1>11, <1>12 DEF WindowInv

\* A full window: what acquire pops had left the last window already.
LEMMA WindowFull ==
    ASSUME WindowInv, NEW r \in Requests, Full(r)
    PROVE  WindowInv'
  <1> DEFINE g == Group[r]
             s == recent[g]
  <1>1. g \in Groups
    BY RequestsAssumption
  <1>2. s \in Seq(Entry) /\ window[g] \in Seq(Entry) /\ s = PopFront(window[g], Window[g])
    BY <1>1 DEF WindowInv
  <1>3. window' = [window EXCEPT ![g] = s] /\ recent' = recent
    BY <1>2 DEF Full, Unexpired
  <1>4. PopFront(s, Window[g]) = s
    BY <1>1, <1>2, BudgetType, PopFrontFacts
  <1> HIDE DEF g
  <1>5. ASSUME NEW h \in Groups PROVE recent'[h] = PopFront(window'[h], Window[h])
    <2>1. CASE h = g
      BY <2>1, <1>1, <1>3, <1>4 DEF WindowInv
    <2>2. CASE h # g
      BY <2>2, <1>3 DEF WindowInv
    <2>3. QED
      BY <2>1, <2>2
  <1>6. window' \in [Groups -> Seq(Entry)]
    BY <1>1, <1>2, <1>3 DEF WindowInv
  <1>7. QED
    BY <1>3, <1>5, <1>6 DEF WindowInv

\* A tick: admissions leave the last window while the limiter still has them.
LEMMA WindowTick ==
    ASSUME WindowInv, Tick
    PROVE  WindowInv'
  <1>1. /\ window' = [g \in Groups |-> Older(g, window[g])]
        /\ recent' = [g \in Groups |-> PopFront(Older(g, recent[g]), Window[g])]
    BY DEF Tick
  <1>2. ASSUME NEW g \in Groups
        PROVE  /\ window'[g] \in Seq(Entry) /\ recent'[g] \in Seq(Entry)
               /\ recent'[g] = PopFront(window'[g], Window[g])
               /\ Falling(recent'[g])
               /\ WithinBudget(g, recent'[g])
    <2>1. /\ window[g] \in Seq(Entry) /\ recent[g] \in Seq(Entry)
          /\ recent[g] = PopFront(window[g], Window[g])
          /\ Falling(recent[g]) /\ WithinBudget(g, recent[g])
      BY DEF WindowInv
    <2>2. window'[g] = Older(g, window[g])
          /\ recent'[g] = PopFront(Older(g, recent[g]), Window[g])
      BY <1>1
    <2>3. Older(g, window[g]) \in Seq(Entry) /\ Older(g, recent[g]) \in Seq(Entry)
      BY <2>1, OlderFacts
    <2>4. PopFront(Older(g, recent[g]), Window[g]) \in Seq(Entry)
      BY <2>3, BudgetType, PopFrontFacts
    <2>5. PopFront(Older(g, recent[g]), Window[g]) = PopFront(Older(g, window[g]), Window[g])
      BY <2>1, PopLater
    <2>6. /\ Falling(PopFront(Older(g, recent[g]), Window[g]))
          /\ WithinBudget(g, PopFront(Older(g, recent[g]), Window[g]))
      BY <2>1, FallingKept, BudgetKept
    <2>7. QED
      BY <2>2, <2>3, <2>4, <2>5, <2>6
  <1>3. window' \in [Groups -> Seq(Entry)] /\ recent' \in [Groups -> Seq(Entry)]
    BY <1>1, <1>2
  <1>4. QED
    BY <1>2, <1>3 DEF WindowInv

\* Every step keeps the windows right.
LEMMA WindowStep == WindowInv /\ [Next]_vars => WindowInv'
  <1> SUFFICES ASSUME WindowInv, [Next]_vars PROVE WindowInv'
    OBVIOUS
  <1>1. UNCHANGED <<window, recent>> => WindowInv'
    BY DEF WindowInv
  <1>2. CASE Tick
    BY <1>2, WindowTick
  <1>3. ASSUME NEW r \in Requests, Admit(r) PROVE WindowInv'
    BY <1>3, WindowAdmit
  <1>4. ASSUME NEW r \in Requests, Full(r) PROVE WindowInv'
    BY <1>4, WindowFull
  <1>5. ASSUME NEW r \in Requests,
               BreakerOpen(r) \/ BreakerBlocked(r) \/ Response(r) \/ Trip(r) \/ Settle(r)
        PROVE  UNCHANGED <<window, recent>>
    BY <1>5 DEF BreakerOpen, BreakerBlocked, Response, Respond, NoResponse, Trip, TripLoad,
       TripExchange, TripReload, TripShorter, Settle, clockVars
  <1>6. CASE UNCHANGED vars
    BY <1>6, <1>1 DEF vars
  <1>7. QED
    BY <1>1, <1>2, <1>3, <1>4, <1>5, <1>6 DEF Next, Call, Acquire

\* In every reachable state what a limiter would look at is what it admitted
\* within the last window, and no more than its budget.
THEOREM WindowInvAlways == Spec => []WindowInv
  BY WindowInit, WindowStep, PTL DEF Spec

\* Admissions of the last window only.
RecentYoung ==
    \A g \in Groups : \A i \in 1..Len(recent[g]) : recent[g][i].age <= Window[g]

\* The history variable is what its name says: no admission of it is older
\* than the window.
THEOREM RecentIsYoung == Spec => []RecentYoung
  <1>1. ASSUME WindowInv, NEW g \in Groups, NEW i \in 1..Len(recent[g])
        PROVE  recent[g][i].age <= Window[g]
    <2> DEFINE s == window[g]
               w == Window[g]
               u == recent[g]
    <2>1. s \in Seq(Entry) /\ u \in Seq(Entry) /\ u = PopFront(s, w) /\ Falling(u) /\ w \in Nat
      BY <1>1, BudgetType DEF WindowInv
    <2>2. PICK k \in 0..Len(s) : Pops(s, w, k)
      BY <2>1, PopsOne
    <2>3. u = SubSeq(s, k + 1, Len(s))
      BY <2>1, <2>2, PopFrontIs
    <2>4. Len(u) = Len(s) - k /\ 1 \in 1..Len(u) /\ k < Len(s) /\ u[1] = s[k + 1]
      BY <2>1, <2>3
    <2>5. u[1].age <= w
      BY <2>2, <2>4 DEF Pops
    <2>6. u[1].age \in Nat /\ u[i].age \in Nat
      <3>1. u[1] \in Entry /\ u[i] \in Entry
        BY <2>1, <2>4, ElementOfSeq
      <3>2. QED
        BY <3>1 DEF Entry
    <2>7. u[i].age <= u[1].age
      BY <2>1, <2>4, <2>6 DEF Falling
    <2>8. QED
      BY <2>1, <2>5, <2>6, <2>7
  <1>2. WindowInv => RecentYoung
    BY <1>1 DEF RecentYoung
  <1>3. QED
    BY <1>2, WindowInvAlways, PTL

\* RateLimiter::acquire never lets more than the budget out within one window,
\* whatever calls race for it, but for a request that outweighs the budget and
\* goes alone.
THEOREM WindowBoundAlways == Spec => []WindowBound
  <1>1. WindowInv => WindowBound
    BY DEF WindowInv, WithinBudget, WindowBound
  <1>2. QED
    BY <1>1, WindowInvAlways, PTL

=============================================================================
