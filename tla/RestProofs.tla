----------------------------- MODULE RestProofs -----------------------------
(***************************************************************************)
(* Proofs about the REST side: RestPoll for every window size, pace of     *)
(* polling within its reach, number of buckets and number of restarts, and *)
(* ProxyPool for any number of callers and proxies and every scoring.      *)
(***************************************************************************)
EXTENDS RestPoll, ProxyPool, TLAPS

-----------------------------------------------------------------------------
(***************************************************************************)
(* RestPoll.                                                               *)
(***************************************************************************)

\* How far the newest bucket looked at may lag behind the newest closed one.
Slack == IF HoldsBack THEN 1 ELSE 0

\* The bucket in hand is the one recorded last, and a run has a first bucket
\* as soon as it has a last one.
HandIsLast ==
    /\ hand # 0 => hand = last
    /\ first = 0 <=> last = 0

\* Nothing is recorded or looked at before the first answer, and the answers
\* are close enough together.
Paced ==
    /\ (last > 0 \/ response # {}) => polled
    /\ polled => gap <= MaxGap

\* What is left of an answer has no hole.
Convex == \A b, c \in response : \A d \in b..c : d \in response

\* What is left of an answer starts no later than the bucket after the last.
Joins == last > 0 => \A c \in response : \A d \in (last + 1)..c : d \in response

\* The newest closed bucket of the last answer is still to come, or recorded.
Covered == polled => \E c \in response \cup {last} : c >= closed - gap - Slack

\* Rows are written up to the last bucket recorded, and below the one in hand.
Ordered ==
    /\ \A b \in written : b <= last
    /\ InOrder

IInv == TypeOK /\ HandIsLast /\ Paced /\ Convex /\ Joins /\ Covered /\ Ordered /\ NoHole

-----------------------------------------------------------------------------
\* No poll has been answered.
LEMMA InitIInv == Init => IInv
<1> SUFFICES ASSUME Init PROVE IInv
    OBVIOUS
<1> USE DEF Init
<1>1. TypeOK
  <2>1. polled \in BOOLEAN /\ restarts \in Nat /\ closed \in Nat /\ gap \in Nat
      OBVIOUS
  <2>2. last \in 0..closed /\ hand \in 0..closed /\ first \in 0..closed
      OBVIOUS
  <2>3. /\ response \subseteq 1..closed
        /\ written \subseteq 1..closed
        /\ failed \subseteq 1..closed
        /\ filed \subseteq 1..closed
        /\ doubled \subseteq filed
      OBVIOUS
  <2> QED
      BY <2>1, <2>2, <2>3 DEF TypeOK
<1>2. HandIsLast /\ Paced /\ Convex /\ Joins /\ Covered /\ Ordered /\ NoHole
    BY DEF HandIsLast, Paced, Convex, Joins, Covered, Ordered, InOrder, NoHole
<1> QED
    BY <1>1, <1>2 DEF IInv

\* The first bucket the poller comes to, when it is new, is the very next one.
LEMMA TakesTheNext ==
    ASSUME IInv, last > 0, NEW b \in response, FirstOf(response, b), IsNewBucket(b)
    PROVE  b = last + 1
<1>1. last + 1 \in (last + 1)..b
    BY DEF IInv, TypeOK, IsNewBucket
<1>2. last + 1 \in response
    BY <1>1 DEF IInv, Joins
<1> QED
    BY <1>2 DEF IInv, TypeOK, FirstOf, IsNewBucket

\* What an answer shows of the closed buckets has no hole, reaches the newest
\* of them but for the one a kline window may lack, and starts no later than
\* the bucket after the last one.
LEMMA WindowReaches ==
    ASSUME IInv, response = {}, hand = 0,
           NEW top \in {closed} \cup (IF HoldsBack THEN {closed + 1} ELSE {}),
           Window(top) # {}
    PROVE  /\ Window(top) \subseteq 1..closed
           /\ \A b, c \in Window(top) : \A d \in b..c : d \in Window(top)
           /\ \E c \in Window(top) : c >= closed - Slack
           /\ last > 0 => \A c \in Window(top) :
                             \A d \in (last + 1)..c : d \in Window(top)
<1> USE LimitAssumption, GapAssumption, HoldsBackAssumption
<1> USE DEF Window, Slack
<1>0. closed \in Nat /\ gap \in Nat /\ last \in Nat /\ top \in Nat
    BY DEF IInv, TypeOK
<1>1. Window(top) \subseteq 1..closed
    BY <1>0
<1>2. \A b, c \in Window(top) : \A d \in b..c : d \in Window(top)
    BY <1>0
<1>3. \E c \in Window(top) : c >= closed - Slack
  <2>1. CASE HoldsBack
    <3>1. top - 1 \in Window(top)
        BY <1>0, <2>1
    <3> QED
        BY <1>0, <2>1, <3>1
  <2>2. CASE ~HoldsBack
    <3>1. top \in Window(top)
        BY <1>0, <2>2
    <3> QED
        BY <1>0, <2>2, <3>1
  <2> QED
      BY <2>1, <2>2
<1>4. ASSUME last > 0
      PROVE  \A c \in Window(top) : \A d \in (last + 1)..c : d \in Window(top)
  <2>1. last >= closed - gap - Slack /\ gap <= Reach
      BY <1>0, <1>4 DEF IInv, Paced, Covered, Reach
  <2>2. last >= top - Limit
      BY <1>0, <2>1 DEF Reach
  <2> QED
      BY <1>0, <2>2
<1> QED
    BY <1>1, <1>2, <1>3, <1>4

\* Every step of the poller, the exchange and the clock keeps the invariant.
LEMMA StepIInv == IInv /\ [Next]_vars => IInv'
<1> SUFFICES ASSUME IInv, [Next]_vars PROVE IInv'
    OBVIOUS
<1>t. TypeOK
    BY DEF IInv
<1>1. CASE Close
  <2> USE <1>1 DEF Close, runVars, fileVars
  <2>1. TypeOK'
      BY <1>t DEF TypeOK
  <2>2. Paced'
      BY <1>t, GapAssumption DEF IInv, TypeOK, Paced
  <2>3. Covered'
    <3>1. closed' - gap' = closed - gap
        BY <1>t DEF TypeOK
    <3> QED
        BY <1>t, <3>1 DEF IInv, TypeOK, Covered, Slack
  <2>4. HandIsLast' /\ Convex' /\ Joins' /\ NoHole'
      BY DEF IInv, HandIsLast, Convex, Joins, NoHole
  <2>5. Ordered'
      BY <1>t DEF IInv, TypeOK, Ordered, InOrder
  <2> QED
      BY <2>1, <2>2, <2>3, <2>4, <2>5 DEF IInv
<1>2. CASE Poll
  <2> USE <1>2 DEF Poll, runVars, fileVars
  <2>1. PICK top \in {closed} \cup (IF HoldsBack THEN {closed + 1} ELSE {}) :
            response' = Window(top)
      OBVIOUS
  <2>2. /\ response' \subseteq 1..closed
        /\ \A b, c \in response' : \A d \in b..c : d \in response'
        /\ \E c \in response' : c >= closed - Slack
        /\ last > 0 => \A c \in response' : \A d \in (last + 1)..c : d \in response'
      BY <2>1, WindowReaches
  <2>3. TypeOK'
      BY <1>t, <2>2 DEF TypeOK
  <2>4. Paced'
      BY <1>t, GapAssumption DEF TypeOK, Paced
  <2>5. Convex' /\ Joins'
      BY <2>2 DEF Convex, Joins
  <2>6. Covered'
      BY <1>t, <2>2 DEF TypeOK, Covered, Slack
  <2>7. HandIsLast' /\ Ordered' /\ NoHole'
      BY DEF IInv, HandIsLast, Ordered, InOrder, NoHole
  <2> QED
      BY <2>3, <2>4, <2>5, <2>6, <2>7 DEF IInv
<1>3. CASE SkipBucket
  <2> USE <1>3 DEF SkipBucket, runVars, fileVars
  <2>1. PICK b \in response : /\ FirstOf(response, b)
                              /\ ~IsNewBucket(b)
                              /\ response' = response \ {b}
      OBVIOUS
  <2>2. b \in Nat /\ last \in Nat /\ b <= last
      BY <1>t, <2>1 DEF TypeOK, IsNewBucket
  <2>3. TypeOK'
      BY <1>t, <2>1 DEF TypeOK
  <2>4. Convex'
      BY <1>t, <2>1 DEF IInv, TypeOK, Convex, FirstOf
  <2>5. Joins'
      BY <1>t, <2>1, <2>2 DEF IInv, TypeOK, Joins
  <2>6. Covered'
      BY <1>t, <2>1, <2>2 DEF IInv, TypeOK, Covered, Slack
  <2>7. HandIsLast' /\ Paced' /\ Ordered' /\ NoHole'
      BY <2>1 DEF IInv, HandIsLast, Paced, Ordered, InOrder, NoHole
  <2> QED
      BY <2>3, <2>4, <2>5, <2>6, <2>7 DEF IInv
<1>4. CASE TakeBucket
  <2> USE <1>4 DEF TakeBucket, fileVars
  <2>1. PICK b \in response : /\ FirstOf(response, b)
                              /\ IsNewBucket(b)
                              /\ response' = response \ {b}
                              /\ last' = b
                              /\ hand' = b
                              /\ first' = IF first = 0 THEN b ELSE first
      OBVIOUS
  <2>2. b \in 1..closed /\ last \in Nat /\ first \in Nat /\ last < b
      BY <1>t, <2>1 DEF TypeOK, IsNewBucket
  <2>3. TypeOK'
      BY <1>t, <2>1, <2>2 DEF TypeOK
  <2>4. HandIsLast'
      BY <2>1, <2>2 DEF IInv, HandIsLast
  <2>5. Paced'
      BY <2>1 DEF IInv, Paced
  <2>6. Convex'
      BY <1>t, <2>1 DEF IInv, TypeOK, Convex, FirstOf
  <2>7. Joins'
      BY <1>t, <2>1, <2>2 DEF IInv, TypeOK, Convex, Joins
  <2>8. Covered'
      BY <1>t, <2>1, <2>2 DEF IInv, TypeOK, Covered, Slack
  <2>9. Ordered'
      BY <1>t, <2>1, <2>2 DEF IInv, TypeOK, Ordered, InOrder
  <2>10. NoHole'
    <3>1. CASE last = 0
        BY <2>1, <2>2, <3>1 DEF IInv, HandIsLast, NoHole
    <3>2. CASE last > 0
      <4>1. b = last + 1
          BY <2>1, <3>2, TakesTheNext
      <4>2. first > 0 /\ first' = first
          BY <2>1, <2>2, <3>2 DEF IInv, HandIsLast
      <4>3. \A d \in first..last : d \in written \cup failed
          BY <2>2, <4>2 DEF IInv, NoHole
      <4> QED
          BY <2>1, <2>2, <4>1, <4>2, <4>3 DEF NoHole
    <3> QED
        BY <2>2, <3>1, <3>2
  <2> QED
      BY <2>3, <2>4, <2>5, <2>6, <2>7, <2>8, <2>9, <2>10 DEF IInv
<1>5. CASE WriteOk
  <2> USE <1>5 DEF WriteOk
  <2>1. TypeOK'
      BY <1>t DEF TypeOK
  <2>2. Ordered'
      BY <1>t DEF IInv, TypeOK, HandIsLast, Ordered, InOrder
  <2>3. NoHole'
      BY DEF IInv, NoHole
  <2>4. HandIsLast' /\ Paced' /\ Convex' /\ Joins' /\ Covered'
      BY DEF IInv, HandIsLast, Paced, Convex, Joins, Covered
  <2> QED
      BY <2>1, <2>2, <2>3, <2>4 DEF IInv
<1>6. CASE WriteErr
  <2> USE <1>6 DEF WriteErr, fileVars
  <2>1. TypeOK'
      BY <1>t DEF TypeOK
  <2>2. Ordered'
      BY DEF IInv, Ordered, InOrder
  <2>3. NoHole'
      BY DEF IInv, NoHole
  <2>4. HandIsLast' /\ Paced' /\ Convex' /\ Joins' /\ Covered'
      BY DEF IInv, HandIsLast, Paced, Convex, Joins, Covered
  <2> QED
      BY <2>1, <2>2, <2>3, <2>4 DEF IInv
<1>7. CASE Restart
  <2> USE <1>7 DEF Restart, fileVars
  <2>1. TypeOK'
    <3>0. polled' \in BOOLEAN
        BY Zenon
    <3>1. /\ restarts' \in Nat
          /\ closed' \in Nat
          /\ gap' \in Nat
        BY <1>t DEF TypeOK
    <3>2. /\ last' \in 0..closed'
          /\ hand' \in 0..closed'
          /\ first' \in 0..closed'
        BY <1>t DEF TypeOK
    <3>3. /\ response' \subseteq 1..closed'
          /\ written' \subseteq 1..closed'
          /\ failed' \subseteq 1..closed'
        OBVIOUS
    <3>4. filed' \subseteq 1..closed' /\ doubled' \subseteq filed'
        BY <1>t DEF TypeOK
    <3> QED
        BY <3>0, <3>1, <3>2, <3>3, <3>4 DEF TypeOK
  <2>2. HandIsLast' /\ Paced' /\ Convex' /\ Joins' /\ Covered' /\ Ordered' /\ NoHole'
      BY DEF HandIsLast, Paced, Convex, Joins, Covered, Ordered, InOrder, NoHole
  <2> QED
      BY <2>1, <2>2 DEF IInv
<1>8. CASE UNCHANGED vars
  <2> USE <1>8 DEF vars, runVars, fileVars
  <2>1. TypeOK'
      BY <1>t DEF TypeOK
  <2>2. HandIsLast' /\ Paced' /\ Convex' /\ Joins'
      BY DEF IInv, HandIsLast, Paced, Convex, Joins
  <2>3. Covered' /\ Ordered' /\ NoHole'
      BY DEF IInv, Covered, Ordered, InOrder, NoHole
  <2> QED
      BY <2>1, <2>2, <2>3 DEF IInv
<1> QED
    BY <1>1, <1>2, <1>3, <1>4, <1>5, <1>6, <1>7, <1>8 DEF Next

\* So it holds at every step.
LEMMA IInvAlways == Spec => []IInv
    BY InitIInv, StepIInv, PTL DEF Spec

-----------------------------------------------------------------------------
\* The poller keeps to its types; it never writes a bucket still in progress.
THEOREM TypeCorrect == Spec => []TypeOK
<1>1. IInv => TypeOK
    BY DEF IInv
<1> QED
    BY IInvAlways, <1>1, PTL

\* For every window and every pace within its reach: no bucket between the
\* first and the last of a run is passed over (collect_*_single).
THEOREM NoHoleAlways == Spec => []NoHole
<1>1. IInv => NoHole
    BY DEF IInv
<1> QED
    BY IInvAlways, <1>1, PTL

\* Overlapping windows never write a bucket twice in a run, nor an older one
\* after a newer one (is_new_bucket).
THEOREM InOrderAlways == Spec => []InOrder
<1>1. IInv => InOrder
    BY DEF IInv, Ordered
<1> QED
    BY IInvAlways, <1>1, PTL

-----------------------------------------------------------------------------
(***************************************************************************)
(* ProxyPool.  A search that had the index to itself has seen, and noted   *)
(* as sick, the proxies the index has just come past, as many as it made   *)
(* attempts.                                                               *)
(***************************************************************************)

\* How many steps ago the index was last at p.
Behind(p) == IF p < index THEN index - p ELSE index - p + N

\* A caller that is not searching has no attempts behind it.
Restarted == \A c \in Callers : pc[c] # "looking" => tries[c] = 0

\* A search nobody interfered with has noted what it came past.
Noted ==
    \A c \in Callers :
        pc[c] = "looking" /\ alone[c] =>
            \A p \in Proxies : Behind(p) <= tries[c] => p \in sick[c]

PoolInv == PoolTypeOK /\ Restarted /\ Noted

\* The numbers the code compiles in.
LEMMA PoolNumbers ==
    /\ N \in Nat \ {0} /\ Full \in Nat
    /\ Reward \in Nat \ {0} /\ Heal \in Nat \ {0}
    /\ Penalties \subseteq Nat
    /\ MaxAttempts \in Nat /\ N <= MaxAttempts
  BY ProxyPoolAssumption DEF MaxAttempts

\* The next proxy in rotation.
LEMMA NextIndex ==
    ASSUME NEW i \in Proxies
    PROVE  (i + 1) % N = IF i + 1 = N THEN 0 ELSE i + 1
  BY PoolNumbers DEF Proxies

\* The index moves one on; every proxy but the one it was at is one further
\* behind.
LEMMA AdvanceBehind ==
    ASSUME index \in Proxies, index' = (index + 1) % N
    PROVE  /\ index' \in Proxies
           /\ \A p \in Proxies : p # index => Behind(p)' = Behind(p) + 1
  <1>1. index' = IF index + 1 = N THEN 0 ELSE index + 1
    BY NextIndex
  <1>2. index \in Nat /\ index < N /\ N \in Nat \ {0}
    BY PoolNumbers DEF Proxies
  <1>3. index' \in Proxies
    BY <1>1, <1>2 DEF Proxies
  <1>4. ASSUME NEW p \in Proxies, p # index
        PROVE  Behind(p)' = Behind(p) + 1
    <2>1. p \in Nat /\ p < N
      BY PoolNumbers DEF Proxies
    <2>2. QED
      BY <1>1, <1>2, <1>4, <2>1 DEF Behind
  <1>5. QED
    BY <1>3, <1>4

\* Every proxy has been passed within one turn.
LEMMA BehindBounded ==
    ASSUME index \in Proxies, NEW p \in Proxies
    PROVE  Behind(p) \in 1..N
  BY PoolNumbers DEF Behind, Proxies

\* What a report makes of a score is a score.
LEMMA NewScoresType ==
    ASSUME NEW old \in Scores
    PROVE  NewScores(old) \subseteq Scores
  BY PoolNumbers DEF NewScores, Scores

\* A search that is over leaves no attempts.
LEMMA TakeAdvances ==
    ASSUME PoolInv, NEW c \in Callers, Take(c, index), Advance(c),
           UNCHANGED <<score, toStore, healing, healed>>
    PROVE  PoolInv'
  <1> USE DEF PoolInv
  <1>1. /\ pc' = [pc EXCEPT ![c] = "asking"]
        /\ proxy' = [proxy EXCEPT ![c] = index]
        /\ tries' = [tries EXCEPT ![c] = 0]
        /\ sick' = [sick EXCEPT ![c] = {}]
        /\ rested' = rested \ {index}
        /\ index' = (index + 1) % N
    BY DEF Take, Advance
  <1>2. alone' = [d \in Callers |-> IF d = c THEN TRUE ELSE pc[d] # "looking"]
    <2>1. pc'[c] = "asking"
      BY <1>1 DEF PoolTypeOK
    <2>2. QED
      BY <2>1 DEF Advance
  <1>3. index' \in Proxies
    BY <1>1, AdvanceBehind DEF PoolTypeOK
  <1>4. PoolTypeOK'
    <2>1. pc' \in [Callers -> {"idle", "looking", "asking", "storing"}]
      BY <1>1 DEF PoolTypeOK
    <2>2. tries' \in [Callers -> 0..MaxAttempts]
      BY <1>1, PoolNumbers DEF PoolTypeOK
    <2>3. proxy' \in [Callers -> Proxies] /\ sick' \in [Callers -> SUBSET Proxies]
          /\ rested' \subseteq Proxies
      BY <1>1 DEF PoolTypeOK
    <2>4. alone' \in [Callers -> BOOLEAN]
      BY <1>2, Zenon
    <2>5. QED
      BY <1>3, <2>1, <2>2, <2>3, <2>4 DEF PoolTypeOK
  <1>5. Restarted'
    BY <1>1 DEF Restarted, PoolTypeOK
  <1>6. \A d \in Callers : ~(pc'[d] = "looking" /\ alone'[d])
    BY <1>1, <1>2 DEF PoolTypeOK
  <1>7. QED
    BY <1>4, <1>5, <1>6 DEF Noted

\* A proxy passed over is noted.
LEMMA PassOverKeeps ==
    ASSUME PoolInv, NEW c \in Callers, PassOver(c)
    PROVE  PoolInv'
  <1> USE DEF PoolInv
  <1>1. /\ pc[c] = "looking" /\ tries[c] < MaxAttempts
        /\ tries' = [tries EXCEPT ![c] = @ + 1]
        /\ sick' = [sick EXCEPT ![c] = @ \union {index}]
        /\ UNCHANGED <<score, rested, pc, proxy, toStore, healing, healed>>
        /\ index' = (index + 1) % N
        /\ alone' = [d \in Callers |-> IF d = c THEN alone[c] ELSE pc[d] # "looking"]
    <2>1. /\ pc[c] = "looking" /\ pc' = pc
          /\ alone' = [d \in Callers |-> IF d = c THEN pc'[c] # "looking" \/ alone[c]
                                                 ELSE pc[d] # "looking"]
      BY DEF PassOver, Advance
    <2>2. (pc'[c] # "looking" \/ alone[c]) = alone[c]
      BY <2>1 DEF PoolTypeOK
    <2>3. QED
      BY <2>1, <2>2 DEF PassOver, Advance, checkerVars
  <1>2. index \in Proxies /\ index' \in Proxies
    BY <1>1, AdvanceBehind DEF PoolTypeOK
  <1>3. PoolTypeOK'
    <2>1. tries' \in [Callers -> 0..MaxAttempts]
      BY <1>1, PoolNumbers DEF PoolTypeOK
    <2>2. sick' \in [Callers -> SUBSET Proxies]
      BY <1>1, <1>2 DEF PoolTypeOK
    <2>3. alone' \in [Callers -> BOOLEAN]
      <3>1. alone[c] \in BOOLEAN
        BY DEF PoolTypeOK
      <3>2. QED
        BY <1>1, <3>1, Zenon
    <2>4. QED
      BY <1>1, <1>2, <2>1, <2>2, <2>3 DEF PoolTypeOK
  <1>4. Restarted'
    BY <1>1 DEF Restarted, PoolTypeOK
  <1>5. Noted'
    <2> SUFFICES ASSUME NEW d \in Callers, pc'[d] = "looking", alone'[d],
                        NEW p \in Proxies, Behind(p)' <= tries'[d]
                 PROVE  p \in sick'[d]
      BY DEF Noted
    <2>1. d = c /\ alone[c]
      BY <1>1
    <2>2. tries'[c] = tries[c] + 1 /\ sick'[c] = sick[c] \union {index} /\ tries[c] \in Nat
      BY <1>1, PoolNumbers DEF PoolTypeOK
    <2>3. CASE p = index
      BY <2>1, <2>2, <2>3
    <2>4. CASE p # index
      <3>1. Behind(p)' = Behind(p) + 1
        BY <1>1, <1>2, <2>4, AdvanceBehind
      <3>2. Behind(p) \in Nat
        BY <1>2, BehindBounded, PoolNumbers
      <3>3. Behind(p) <= tries[c]
        BY <2>1, <2>2, <3>1, <3>2
      <3>4. QED
        BY <1>1, <2>1, <2>2, <3>3 DEF Noted
    <2>5. QED
      BY <2>3, <2>4
  <1>6. QED
    BY <1>3, <1>4, <1>5

\* Steps that leave the index and the searches alone.
LEMMA SearchesKept ==
    ASSUME PoolInv, PoolTypeOK', UNCHANGED <<index, tries, sick, alone>>,
           \A c \in Callers : pc'[c] = pc[c] \/ (pc[c] # "looking" /\ tries[c] = 0)
    PROVE  PoolInv'
  <1> USE DEF PoolInv
  <1>1. Restarted'
    BY DEF Restarted
  <1>2. Noted'
    <2> SUFFICES ASSUME NEW c \in Callers, pc'[c] = "looking", alone[c],
                        NEW p \in Proxies, Behind(p) <= tries[c]
                 PROVE  p \in sick[c]
      BY DEF Noted, Behind
    <2>1. Behind(p) \in 1..N
      BY BehindBounded DEF PoolTypeOK
    <2>2. tries[c] # 0
      BY <2>1, PoolNumbers
    <2>3. QED
      BY <2>2 DEF Noted
  <1>3. QED
    BY <1>1, <1>2

\* The invariant of the pool holds at every step.
THEOREM PoolInvAlways == PoolSpec => []PoolInv
  <1>1. PoolInit => PoolInv
    <2> SUFFICES ASSUME PoolInit PROVE PoolInv
      OBVIOUS
    <2> USE DEF PoolInit
    <2>1. alone \in [Callers -> BOOLEAN]
      BY Zenon
    <2>2. PoolTypeOK
      BY <2>1, PoolNumbers DEF PoolTypeOK, Proxies, Scores
    <2>3. Restarted /\ Noted
      BY DEF Restarted, Noted
    <2>4. QED
      BY <2>2, <2>3 DEF PoolInv
  <1>2. PoolInv /\ [PoolNext]_poolVars => PoolInv'
    <2> SUFFICES ASSUME PoolInv, [PoolNext]_poolVars PROVE PoolInv'
      OBVIOUS
    <2> USE DEF PoolInv, checkerVars, searchVars, callerVars
    <2>1. ASSUME NEW c \in Callers, PickUsable(c) \/ FallBack(c) PROVE PoolInv'
      BY <2>1, TakeAdvances DEF PickUsable, FallBack
    <2>2. ASSUME NEW c \in Callers, PassOver(c) PROVE PoolInv'
      BY <2>2, PassOverKeeps
    <2>3. ASSUME NEW c \in Callers, Search(c) PROVE PoolInv'
      <3>1. PoolTypeOK'
        BY <2>3 DEF Search, PoolTypeOK
      <3>2. QED
        BY <2>3, <3>1, SearchesKept DEF Search, Restarted, PoolTypeOK
    <2>4. ASSUME NEW c \in Callers, NoClient(c) PROVE PoolInv'
      <3>1. PoolTypeOK'
        BY <2>4, PoolNumbers DEF NoClient, PoolTypeOK, Proxies
      <3>2. QED
        BY <2>4, <3>1, SearchesKept DEF NoClient, Restarted, PoolTypeOK
    <2>5. ASSUME NEW c \in Callers, Report(c) PROVE PoolInv'
      <3>1. PICK new \in NewScores(score[proxy[c]]) : toStore' = [toStore EXCEPT ![c] = new]
        BY <2>5 DEF Report
      <3>2. new \in Scores
        BY <3>1, NewScoresType DEF PoolTypeOK
      <3>3. PoolTypeOK'
        BY <2>5, <3>1, <3>2 DEF Report, PoolTypeOK
      <3>4. QED
        BY <2>5, <3>3, SearchesKept DEF Report, Restarted, PoolTypeOK
    <2>6. ASSUME NEW c \in Callers, Store(c) PROVE PoolInv'
      <3>1. PoolTypeOK'
        BY <2>6, PoolNumbers DEF Store, PoolTypeOK, Proxies, Scores
      <3>2. QED
        BY <2>6, <3>1, SearchesKept DEF Store, Restarted, PoolTypeOK
    <2>7. ASSUME NEW p \in Proxies, RestsLong(p) \/ CheckerLoads(p) PROVE PoolInv'
      <3>1. PoolTypeOK'
        BY <2>7, PoolNumbers DEF RestsLong, CheckerLoads, PoolTypeOK, Scores
      <3>2. QED
        BY <2>7, <3>1, SearchesKept DEF RestsLong, CheckerLoads
    <2>8. CASE CheckerStores
      <3>1. PoolTypeOK'
        BY <2>8, PoolNumbers DEF CheckerStores, PoolTypeOK, Scores
      <3>2. QED
        BY <2>8, <3>1, SearchesKept DEF CheckerStores
    <2>9. CASE UNCHANGED poolVars
      <3>1. PoolTypeOK'
        BY <2>9 DEF poolVars, PoolTypeOK
      <3>2. QED
        BY <2>9, <3>1, SearchesKept DEF poolVars
    <2>10. QED
      BY <2>1, <2>2, <2>3, <2>4, <2>5, <2>6, <2>7, <2>8, <2>9 DEF PoolNext, Caller
  <1>3. QED
    BY <1>1, <1>2, PTL DEF PoolSpec

\* With any number of searches under way: one that falls back although no
\* other took an index from it has found every proxy sick (get_next_proxy).
THEOREM FallbackJustifiedAlways == PoolSpec => []FallbackJustified
  <1>1. PoolInv => FallbackJustified
    <2> SUFFICES ASSUME PoolInv, NEW c \in Callers,
                        pc[c] = "looking", tries[c] = MaxAttempts, alone[c]
                 PROVE  sick[c] = Proxies
      BY DEF FallbackJustified
    <2>1. \A p \in Proxies : Behind(p) <= tries[c]
      BY BehindBounded, PoolNumbers DEF PoolInv, PoolTypeOK
    <2>2. QED
      BY <2>1 DEF PoolInv, Noted, PoolTypeOK
  <1>2. QED
    BY <1>1, PoolInvAlways, PTL

=============================================================================
