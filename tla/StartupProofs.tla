--------------------------- MODULE StartupProofs ---------------------------
(***************************************************************************)
(* Proofs about how the collector is started and kept asking: StagedStart  *)
(* for every division of the symbols into batches, SnapshotThrottle for    *)
(* every cooldown, factor, ceiling and idle limit, and Supervisor for any  *)
(* number of edits, restarts and crashes.                                  *)
(***************************************************************************)
EXTENDS StagedStart, SnapshotThrottle, Supervisor, TLAPS

-----------------------------------------------------------------------------
(***************************************************************************)
(* StagedStart.  The starter never lets time pass without adding it to the *)
(* bound below on the age of the requests still under way, so by the time  *)
(* a batch sends its first one, those of two batches before have met their *)
(* timeout.                                                                *)
(***************************************************************************)

\* The batch has sent nothing yet.
Waiting == stage \in {"loops", "socket"}
Fresh == stage = "spawn" /\ next = 1

\* At least the time from the start of this batch's socket to its first
\* request, as far as it has passed ...
Lead ==
    CASE Waiting -> 0
      [] Fresh -> BufferDelay - timer
      [] stage = "over" /\ batch \notin DOMAIN Batches -> 0
      [] OTHER -> BufferDelay

\* ... and from its last request on.
Own ==
    CASE stage = "settle" -> elapsed - timer
      [] stage = "rest" -> (IF IsPriority THEN PriorityTimeout ELSE 0) + BatchGap - timer
      [] OTHER -> 0

Span == Lead + Own

\* Where the starter is, and what it may still sleep there.
Places ==
    /\ Waiting => timer = 0
    /\ stage \in {"socket", "spawn", "settle", "rest"} => batch \in DOMAIN Batches
    /\ next # 1 => stage = "spawn"
    /\ Fresh => timer <= BufferDelay
    /\ stage = "settle" => timer <= elapsed
    /\ stage = "rest" => timer <= BatchGap
    /\ stage \in {"settle", "rest"} => IsPriority \/ ~IsLast

\* Batches are started one after the other.
Ordered ==
    \A b \in DOMAIN Batches :
        batch < b \/ (batch = b /\ (Waiting \/ Fresh)) =>
            \A s \in ToSet(Batches[b]) : task[s] = "none"

\* A priority symbol that is Live has had its first answer.
Answered == Priority /\ firstLive => task[Batches[1][1]] = "asked"

\* How old a request still under way is at least, by how far back its batch
\* lies.
Aged ==
    \A b \in DOMAIN Batches : \A s \in ToSet(Batches[b]) :
        task[s] = "fetching" =>
            /\ b = batch => Own <= age[s]
            /\ b + 1 = batch => BatchGap + Span <= age[s]
            /\ b + 2 = batch => 2 * BatchGap + BufferDelay + Span <= age[s]
            /\ batch < b + 3
            /\ Priority /\ b = 1 => /\ batch = 2 => PriorityTimeout + BatchGap + Span <= age[s]
                                    /\ batch < 3

StartInv == StartTypeOK /\ Places /\ Ordered /\ Answered /\ Aged

\* The batches as sequences and as sets.
LEMMA BatchFacts ==
    /\ Len(Batches) \in Nat /\ DOMAIN Batches = 1..Len(Batches)
    /\ \A b \in DOMAIN Batches :
          /\ Len(Batches[b]) \in Nat \ {0}
          /\ ToSet(Batches[b]) \subseteq Symbols
          /\ \A i \in 1..Len(Batches[b]) : Batches[b][i] \in ToSet(Batches[b])
    /\ Priority => /\ 1 \in DOMAIN Batches
                   /\ Len(Batches[1]) = 1
                   /\ Batches[1][1] \in ToSet(Batches[1])
                   /\ \A s \in ToSet(Batches[1]) : s = Batches[1][1]
  <1>1. Batches \in Seq(Seq(Symbols) \ {<<>>})
    BY StagedStartAssumption
  <1>2. Len(Batches) \in Nat /\ DOMAIN Batches = 1..Len(Batches)
    BY <1>1
  <1>3. \A b \in DOMAIN Batches : Batches[b] \in Seq(Symbols) /\ Batches[b] # <<>>
    BY <1>1, <1>2
  <1>4. ASSUME NEW b \in DOMAIN Batches
        PROVE  /\ Len(Batches[b]) \in Nat \ {0}
               /\ DOMAIN Batches[b] = 1..Len(Batches[b])
               /\ ToSet(Batches[b]) \subseteq Symbols
               /\ \A i \in 1..Len(Batches[b]) : Batches[b][i] \in ToSet(Batches[b])
    <2>1. Batches[b] \in Seq(Symbols) /\ Batches[b] # <<>>
      BY <1>3
    <2>2. Len(Batches[b]) \in Nat \ {0} /\ DOMAIN Batches[b] = 1..Len(Batches[b])
      BY <2>1
    <2>3. ToSet(Batches[b]) \subseteq Symbols
      BY DEF Symbols
    <2>4. QED
      BY <2>2, <2>3 DEF ToSet
  <1>5. ASSUME Priority
        PROVE  /\ 1 \in DOMAIN Batches
               /\ Len(Batches[1]) = 1
               /\ Batches[1][1] \in ToSet(Batches[1])
               /\ \A s \in ToSet(Batches[1]) : s = Batches[1][1]
    <2>1. Batches # <<>> /\ Len(Batches[1]) = 1
      BY <1>5, StagedStartAssumption
    <2>2. 1 \in DOMAIN Batches
      BY <1>1, <1>2, <2>1
    <2>3. DOMAIN Batches[1] = 1..1
      BY <1>4, <2>1, <2>2
    <2>4. QED
      BY <2>1, <2>2, <2>3 DEF ToSet
  <1>6. QED
    BY <1>2, <1>4, <1>5

\* The timings are numbers.
LEMMA StartNumbers ==
    /\ Priority \in BOOLEAN
    /\ BufferDelay \in Nat /\ BatchGap \in Nat /\ PriorityTimeout \in Nat
    /\ CheckEvery \in Nat /\ Spread \in Nat /\ HttpTimeout \in Nat
    /\ HttpTimeout < 2 * (BatchGap + BufferDelay)
    /\ HttpTimeout < PriorityTimeout + BatchGap + BufferDelay
  BY StagedStartAssumption

\* The bounds are integers.
LEMMA SpanType ==
    ASSUME NEW t \in Nat, NEW e \in Nat
    PROVE  /\ timer = t /\ elapsed = e => Lead \in Int /\ Own \in Int /\ Span \in Int
           /\ timer' = t /\ elapsed' = e => Lead' \in Int /\ Own' \in Int /\ Span' \in Int
  <1>1. ASSUME timer = t, elapsed = e
        PROVE  Lead \in Int /\ Own \in Int /\ Span \in Int
    <2>1. Lead \in Int
      BY <1>1, StartNumbers DEF Lead
    <2>2. Own \in Int
      BY <1>1, StartNumbers DEF Own
    <2>3. QED
      BY <2>1, <2>2 DEF Span
  <1>2. ASSUME timer' = t, elapsed' = e
        PROVE  Lead' \in Int /\ Own' \in Int /\ Span' \in Int
    <2>1. Lead' \in Int
      BY <1>2, StartNumbers DEF Lead
    <2>2. Own' \in Int
      BY <1>2, StartNumbers DEF Own
    <2>3. QED
      BY <2>1, <2>2 DEF Span
  <1>3. QED
    BY <1>1, <1>2

\* Nothing in a batch that has requested something is left of the batch two
\* before, and nothing of the priority symbol.
LEMMA OldOver ==
    ASSUME StartInv, NEW b \in DOMAIN Batches, NEW s \in ToSet(Batches[b]),
           task[s] = "fetching", b < batch, batch \in DOMAIN Batches,
           ~Waiting, ~Fresh \/ timer = 0
    PROVE  b + 1 = batch /\ ~(Priority /\ b = 1)
  <1> USE DEF StartInv
  <1>1. /\ b + 1 = batch => BatchGap + Span <= age[s]
        /\ b + 2 = batch => 2 * BatchGap + BufferDelay + Span <= age[s]
        /\ batch < b + 3
        /\ Priority /\ b = 1 => /\ batch = 2 => PriorityTimeout + BatchGap + Span <= age[s]
                                /\ batch < 3
    BY DEF Aged
  <1>2. s \in Symbols /\ age[s] \in 0..HttpTimeout /\ b \in Nat /\ batch \in Nat
    BY BatchFacts DEF StartTypeOK
  <1>3. Span \in Int /\ BufferDelay <= Span
    <2>1. Lead = BufferDelay
      BY StartNumbers DEF Lead, StartTypeOK
    <2>2. Own \in Int /\ 0 <= Own
      <3>1. /\ timer \in Nat /\ elapsed \in Nat
            /\ stage = "settle" => timer <= elapsed
            /\ stage = "rest" => timer <= BatchGap
        BY DEF Places, StartTypeOK
      <3>2. QED
        BY <3>1, StartNumbers DEF Own
    <2>3. QED
      BY <2>1, <2>2, StartNumbers DEF Span
  <1>4. QED
    BY <1>1, <1>2, <1>3, StartNumbers

\* The invariant carries the property.
LEMMA StartInvApart == StartInv => BatchesApart
  <1> SUFFICES ASSUME StartInv,
                      NEW b \in DOMAIN Batches, NEW c \in DOMAIN Batches, b < c,
                      NEW s \in ToSet(Batches[b]), task[s] = "fetching",
                      NEW t \in ToSet(Batches[c]), task[t] = "fetching"
               PROVE  c = b + 1 /\ ~(Priority /\ b = 1)
    BY DEF BatchesApart, InFlight
  <1>0. b \in Nat /\ c \in Nat /\ batch \in Nat
    BY BatchFacts DEF StartInv, StartTypeOK
  <1>1. c <= batch /\ (c = batch => ~Waiting /\ ~Fresh)
    BY <1>0 DEF StartInv, Ordered
  <1>2. CASE c = batch
    BY <1>0, <1>1, <1>2, OldOver
  <1>3. CASE c < batch
    BY <1>0, <1>3 DEF StartInv, Aged
  <1>4. QED
    BY <1>0, <1>1, <1>2, <1>3

\* Nothing is started and nobody is asked yet.
LEMMA StartInvInit == StartInit => StartInv
  <1> SUFFICES ASSUME StartInit PROVE StartInv
    OBVIOUS
  <1> USE DEF StartInit
  <1>1. firstLive \in BOOLEAN /\ ~firstLive
    BY Zenon
  <1>2. StartTypeOK
    BY <1>1, BatchFacts, StartNumbers DEF StartTypeOK
  <1>3. Places
    BY BatchFacts DEF Places, Waiting, Fresh
  <1>4. \A b \in DOMAIN Batches : \A s \in ToSet(Batches[b]) : task[s] = "none"
    BY BatchFacts
  <1>5. Ordered /\ Aged
    BY <1>4 DEF Ordered, Aged
  <1>6. Answered
    BY <1>1 DEF Answered
  <1>7. QED
    BY <1>2, <1>3, <1>5, <1>6 DEF StartInv

\* A step of the starter that asks nobody and stays at its batch, and does
\* not count time that has not passed.
LEMMA StarterStays ==
    ASSUME StartInv, StartTypeOK', Places',
           UNCHANGED <<batch, task, age, firstLive>>,
           (Waiting \/ Fresh)' => Waiting \/ Fresh,
           Own' <= Own, Span' <= Span
    PROVE  StartInv'
  <1> USE DEF StartInv
  <1>1. Own \in Int /\ Own' \in Int /\ Span \in Int /\ Span' \in Int
    BY SpanType DEF StartTypeOK
  <1>2. Ordered' /\ Answered'
    BY DEF Ordered, Answered
  <1>3. Aged'
    <2> SUFFICES ASSUME NEW b \in DOMAIN Batches, NEW s \in ToSet(Batches[b]),
                        task[s] = "fetching"
                 PROVE  /\ b = batch => Own' <= age[s]
                        /\ b + 1 = batch => BatchGap + Span' <= age[s]
                        /\ b + 2 = batch => 2 * BatchGap + BufferDelay + Span' <= age[s]
                        /\ batch < b + 3
                        /\ Priority /\ b = 1 =>
                              /\ batch = 2 => PriorityTimeout + BatchGap + Span' <= age[s]
                              /\ batch < 3
      BY DEF Aged
    <2>1. age[s] \in Nat
      BY BatchFacts, StartNumbers DEF StartTypeOK
    <2>2. QED
      BY <1>1, <2>1, StartNumbers DEF Aged
  <1>4. QED
    BY <1>2, <1>3

\* A request of this batch is sent; by then the old ones are over.
LEMMA SpawnKeeps ==
    ASSUME StartInv, SpawnTask
    PROVE  StartInv'
  <1> USE DEF StartInv
  <1> DEFINE size == Len(Batches[batch])
             q == Batches[batch][next]
  <1>0. /\ stage = "spawn" /\ timer = 0 /\ batch \in DOMAIN Batches /\ batch \in Nat
        /\ size \in Nat \ {0} /\ next \in 1..size
    BY BatchFacts DEF SpawnTask, Places, StartTypeOK
  <1>1. q \in ToSet(Batches[batch]) /\ q \in Symbols
    BY <1>0, BatchFacts
  <1>2. /\ UNCHANGED <<batch, age, heard, firstLive>> /\ elapsed' = 0
        /\ task' = [task EXCEPT ![q] = "fetching"]
        /\ \/ /\ next < size /\ next' = next + 1
              /\ timer' = DelayPerSymbol /\ stage' = "spawn"
           \/ /\ next = size /\ next' = 1 /\ timer' = 0
              /\ stage' \in {"over", "settle"}
    <2>1. /\ next = size => stage' = IF IsLast /\ ~IsPriority THEN "over" ELSE "settle"
      BY <1>0 DEF SpawnTask
    <2>2. QED
      BY <1>0, <2>1 DEF SpawnTask
  <1>3. DelayPerSymbol \in Nat
    BY <1>0, StartNumbers DEF DelayPerSymbol
  <1>4. StartTypeOK'
    <2>1. task' \in [Symbols -> {"none", "fetching", "asked"}]
      BY <1>2 DEF StartTypeOK
    <2>2. next' \in Nat \ {0} /\ next' <= size
      BY <1>0, <1>2
    <2>3. timer' \in Nat /\ elapsed' \in Nat /\ stage' \in {"spawn", "over", "settle"}
      BY <1>2, <1>3
    <2>4. QED
      BY <1>2, <2>1, <2>2, <2>3 DEF StartTypeOK
  <1>5. ~Waiting' /\ ~Fresh'
    BY <1>0, <1>2 DEF Waiting, Fresh
  <1>6. Places'
    <2>1. stage' = "settle" => (IsPriority \/ ~IsLast)'
      <3>1. (IsPriority' <=> IsPriority) /\ (IsLast' <=> IsLast)
        BY <1>2 DEF IsPriority, IsLast
      <3>2. stage' = "settle" => next = size
        BY <1>2
      <3>3. next = size => stage' = IF IsLast /\ ~IsPriority THEN "over" ELSE "settle"
        BY <1>0 DEF SpawnTask
      <3>4. QED
        BY <3>1, <3>2, <3>3
    <2>2. QED
      BY <1>0, <1>2, <1>5, <2>1 DEF Places
  <1>7. \A b \in DOMAIN Batches : b # batch =>
            \A s \in ToSet(Batches[b]) : task'[s] = task[s]
    <2>1. TAKE b \in DOMAIN Batches
    <2>2. HAVE b # batch
    <2>3. q \notin ToSet(Batches[b])
      BY <1>0, <1>1, <2>2, StagedStartAssumption
    <2>4. QED
      BY <1>2, <2>3, BatchFacts DEF StartTypeOK
  <1>8. Ordered'
    BY <1>0, <1>2, <1>5, <1>7 DEF Ordered
  <1>9. Answered'
    <2> SUFFICES ASSUME Priority, firstLive
                 PROVE  task'[Batches[1][1]] = "asked"
      BY <1>2 DEF Answered
    <2>1. batch # 1
      <3> SUFFICES ASSUME batch = 1
                   PROVE  FALSE
        OBVIOUS
      <3>1. Fresh
        BY <1>0, BatchFacts DEF Fresh
      <3>2. task[Batches[1][1]] = "none"
        BY <3>1, BatchFacts DEF Ordered
      <3>3. QED
        BY <3>2 DEF Answered
    <2>2. QED
      BY <1>7, <2>1, BatchFacts DEF Answered
  <1>10. Own' = 0 /\ Span' \in Int
    <2>1. Own' = 0
      BY <1>2 DEF Own
    <2>2. timer' \in Nat /\ elapsed' \in Nat
      BY <1>4 DEF StartTypeOK
    <2>3. QED
      BY <2>1, <2>2, SpanType
  <1>11. Aged'
    <2> SUFFICES ASSUME NEW b \in DOMAIN Batches, NEW s \in ToSet(Batches[b]),
                        task'[s] = "fetching"
                 PROVE  /\ b = batch => Own' <= age[s]
                        /\ b + 1 = batch => BatchGap + Span' <= age[s]
                        /\ b + 2 = batch => 2 * BatchGap + BufferDelay + Span' <= age[s]
                        /\ batch < b + 3
                        /\ Priority /\ b = 1 =>
                              /\ batch = 2 => PriorityTimeout + BatchGap + Span' <= age[s]
                              /\ batch < 3
      BY <1>2 DEF Aged
    <2>1. age[s] \in Nat /\ b \in Nat
      BY BatchFacts, StartNumbers DEF StartTypeOK
    <2>2. CASE b = batch
      BY <1>0, <1>10, <2>1, <2>2
    <2>3. CASE batch < b
      BY <1>7, <2>1, <2>3, <1>0 DEF Ordered
    <2>4. CASE b < batch
      <3>1. task[s] = "fetching"
        BY <1>7, <2>4, <1>0, <2>1
      <3>2. b + 1 = batch /\ ~(Priority /\ b = 1)
        BY <1>0, <2>4, <3>1, OldOver DEF Waiting
      <3>3. BatchGap + Span <= age[s]
        BY <3>1, <3>2 DEF Aged
      <3>4. Span' <= Span
        BY <1>0, <1>2, StartNumbers DEF Span, Lead, Own, Waiting, Fresh
      <3>5. Span \in Int
        BY SpanType DEF StartTypeOK
      <3>6. ~(Priority /\ b = 1) /\ b # batch /\ b + 2 # batch /\ batch < b + 3
        BY <1>0, <2>1, <3>2
      <3>7. QED
        BY <1>10, <2>1, <3>3, <3>4, <3>5, <3>6, StartNumbers
    <2>5. QED
      BY <1>0, <2>1, <2>2, <2>3, <2>4
  <1>12. QED
    BY <1>4, <1>6, <1>8, <1>9, <1>11

\* The steps of the starter that ask nobody.
LEMMA StarterKeeps ==
    ASSUME StartInv, StartLoops \/ StartBatch \/ CheckAgain \/ Rest
    PROVE  StartInv'
  <1> USE DEF StartInv
  <1>0. /\ timer \in Nat /\ elapsed \in Nat /\ batch \in Nat
        /\ next # 1 => stage = "spawn"
        /\ Len(Batches) \in Nat /\ DOMAIN Batches = 1..Len(Batches)
    BY BatchFacts DEF StartTypeOK, Places
  <1>1. CASE StartLoops
    <2>0. /\ UNCHANGED <<batch, next, timer, elapsed, task, age, heard, firstLive>>
          /\ stage = "loops" /\ timer = 0
          /\ batch <= Len(Batches) => stage' = "socket"
          /\ ~(batch <= Len(Batches)) => stage' = "over"
      BY <1>1 DEF StartLoops, Places, Waiting
    <2>1. StartTypeOK' /\ Places'
      BY <1>0, <2>0 DEF StartTypeOK, Places, Waiting, Fresh
    <2>2. Own' <= Own /\ Span' <= Span
      BY <1>0, <2>0, StartNumbers DEF Own, Span, Lead, Waiting, Fresh
    <2>3. CASE batch \in DOMAIN Batches
      BY <1>0, <2>0, <2>1, <2>2, <2>3, StarterStays DEF Waiting
    <2>4. CASE batch \notin DOMAIN Batches
      <3>1. Ordered'
        BY <2>0, <2>4 DEF Ordered, Waiting
      <3>2. Answered'
        BY <2>0 DEF Answered
      <3>3. Own' = Own /\ Span' = Span
        BY <1>0, <2>0, <2>4 DEF Own, Span, Lead, Waiting, Fresh
      <3>4. Aged'
        BY <2>0, <3>3 DEF Aged
      <3>5. QED
        BY <2>1, <3>1, <3>2, <3>4
    <2>5. QED
      BY <2>3, <2>4
  <1>2. CASE StartBatch
    <2>0. /\ UNCHANGED <<batch, next, elapsed, task, age, firstLive>>
          /\ stage = "socket" /\ stage' = "spawn" /\ timer' = BufferDelay
          /\ heard' = {} /\ next = 1 /\ batch \in DOMAIN Batches
      BY <1>0, <1>2 DEF StartBatch, Places
    <2>1. StartTypeOK' /\ Places'
      BY <1>0, <2>0, StartNumbers DEF StartTypeOK, Places, Waiting, Fresh
    <2>2. Own' <= Own /\ Span' <= Span
      BY <1>0, <2>0, StartNumbers DEF Own, Span, Lead, Waiting, Fresh
    <2>3. QED
      BY <2>0, <2>1, <2>2, StarterStays DEF Waiting
  <1>3. CASE CheckAgain
    <2>0. /\ UNCHANGED <<batch, stage, next, task, age, heard, firstLive>>
          /\ stage = "settle" /\ timer = 0
          /\ timer' = Pause /\ elapsed' = elapsed + Pause /\ Pause \in Nat
      BY <1>3, StartNumbers DEF CheckAgain, Pause
    <2>1. StartTypeOK' /\ Places'
      <3>1. timer' \in Nat /\ elapsed' \in Nat /\ timer' <= elapsed'
        BY <1>0, <2>0
      <3>2. StartTypeOK'
        BY <2>0, <3>1 DEF StartTypeOK
      <3>3. Places'
        BY <2>0, <3>1 DEF Places, Waiting, Fresh, IsPriority, IsLast
      <3>4. QED
        BY <3>2, <3>3
    <2>2. Own' <= Own /\ Span' <= Span
      BY <1>0, <2>0, StartNumbers DEF Own, Span, Lead, Waiting, Fresh
    <2>3. QED
      BY <2>0, <2>1, <2>2, StarterStays DEF Waiting, Fresh
  <1>4. CASE Rest
    <2>0. /\ UNCHANGED <<batch, next, elapsed, task, age, heard, firstLive>>
          /\ stage = "settle" /\ timer = 0 /\ stage' = "rest"
          /\ timer' = RestOfGap /\ RestOfGap \in Nat /\ RestOfGap <= BatchGap
          /\ batch \in DOMAIN Batches
          /\ elapsed >= Patience \/ Settled
      BY <1>0, <1>4, StartNumbers DEF Rest, RestOfGap, Places
    <2>1. StartTypeOK' /\ Places'
      BY <1>0, <2>0 DEF StartTypeOK, Places, Waiting, Fresh, IsPriority, IsLast
    <2>2. CASE ~IsPriority \/ ~firstLive
      <3>1. IsPriority => elapsed >= PriorityTimeout
        BY <2>0, <2>2 DEF Settled, Patience
      <3>2. IsPriority' <=> IsPriority
        BY <2>0 DEF IsPriority
      <3>3. Own' <= Own
        BY <1>0, <2>0, <3>1, <3>2, StartNumbers DEF Own, RestOfGap
      <3>4. Span' <= Span
        BY <1>0, <2>0, <3>1, <3>2, StartNumbers DEF Own, RestOfGap, Span, Lead, Waiting, Fresh
      <3>5. QED
        BY <2>0, <2>1, <3>3, <3>4, StarterStays DEF Waiting, Fresh
    <2>3. CASE IsPriority /\ firstLive
      <3>1. \A b \in DOMAIN Batches : \A s \in ToSet(Batches[b]) : task[s] # "fetching"
        <4>1. TAKE b \in DOMAIN Batches
        <4>2. CASE b = 1
          BY <2>3, <4>2, BatchFacts DEF IsPriority, Answered
        <4>3. CASE 1 < b
          BY <2>3, <4>3 DEF IsPriority, Ordered
        <4>4. QED
          BY <1>0, <4>2, <4>3
      <3>2. Ordered' /\ Answered'
        BY <2>0 DEF Ordered, Answered, Waiting, Fresh
      <3>3. Aged'
        BY <2>0, <3>1 DEF Aged
      <3>4. QED
        BY <2>1, <3>2, <3>3
    <2>4. QED
      BY <2>2, <2>3
  <1>5. QED
    BY <1>1, <1>2, <1>3, <1>4

\* The gap is over: every batch lies one further back.
LEMMA NextBatchKeeps ==
    ASSUME StartInv, NextBatch
    PROVE  StartInv'
  <1> USE DEF StartInv
  <1>0. /\ timer \in Nat /\ elapsed \in Nat /\ batch \in Nat /\ timer = 0
        /\ next = 1 /\ stage = "rest" /\ batch \in DOMAIN Batches
        /\ Len(Batches) \in Nat /\ DOMAIN Batches = 1..Len(Batches)
    BY BatchFacts DEF StartTypeOK, Places, NextBatch
  <1>1. /\ UNCHANGED <<next, timer, elapsed, task, age, heard, firstLive>>
        /\ batch' = batch + 1
        /\ stage' \in {"loops", "socket"}
    BY DEF NextBatch
  <1>2. StartTypeOK'
    <2>1. batch' \in 1..(Len(Batches) + 1)
      BY <1>0, <1>1
    <2>2. batch' \in DOMAIN Batches => next' <= Len(Batches[batch'])
      BY <1>0, <1>1, BatchFacts
    <2>3. QED
      BY <1>1, <2>1, <2>2 DEF StartTypeOK
  <1>3. Places'
    <2>1. stage' = "socket" => batch' \in DOMAIN Batches
      <3>1. stage' = "socket" => ~IsPriority
        BY <1>1 DEF NextBatch
      <3>2. batch # Len(Batches) \/ IsPriority
        BY <1>0 DEF Places, IsLast
      <3>3. ~IsPriority => batch + 1 \in 1..Len(Batches)
        <4>1. batch \in 1..Len(Batches) /\ Len(Batches) \in Nat
          BY <1>0
        <4>2. QED
          BY <3>2, <4>1
      <3>4. QED
        BY <1>0, <1>1, <3>1, <3>3
    <2>2. QED
      BY <1>0, <1>1, <2>1 DEF Places, Waiting, Fresh
  <1>4. Ordered' /\ Answered'
    <2>1. \A b \in DOMAIN Batches : b \in Nat
      BY <1>0
    <2>2. \A b \in DOMAIN Batches : batch + 1 <= b => batch < b
      BY <1>0, <2>1
    <2>3. QED
      BY <1>0, <1>1, <2>1, <2>2 DEF Ordered, Answered
  <1>5. /\ Own = (IF IsPriority THEN PriorityTimeout ELSE 0) + BatchGap
        /\ Span = BufferDelay + Own
        /\ Own' = 0 /\ Span' = 0
    BY <1>0, <1>1, StartNumbers DEF Own, Span, Lead, Waiting, Fresh
  <1>6. Aged'
    <2> SUFFICES ASSUME NEW b \in DOMAIN Batches, NEW s \in ToSet(Batches[b]),
                        task[s] = "fetching"
                 PROVE  /\ b = batch' => Own' <= age[s]
                        /\ b + 1 = batch' => BatchGap + Span' <= age[s]
                        /\ b + 2 = batch' => 2 * BatchGap + BufferDelay + Span' <= age[s]
                        /\ batch' < b + 3
                        /\ Priority /\ b = 1 =>
                              /\ batch' = 2 => PriorityTimeout + BatchGap + Span' <= age[s]
                              /\ batch' < 3
      BY <1>1 DEF Aged
    <2>1. age[s] \in Nat /\ b \in Nat
      BY <1>0, BatchFacts, StartNumbers DEF StartTypeOK
    <2>2. b <= batch
      BY <1>0, <2>1 DEF Ordered
    <2>3. b < batch => b + 1 = batch /\ ~(Priority /\ b = 1)
      BY <1>0, OldOver DEF Waiting, Fresh
    <2>4. b = batch => Own <= age[s]
      BY DEF Aged
    <2>5. b + 1 = batch => BatchGap + Span <= age[s]
      BY DEF Aged
    <2>6. CASE b = batch
      <3>1. BatchGap <= age[s] /\ (Priority /\ b = 1 => PriorityTimeout + BatchGap <= age[s])
        BY <1>0, <1>5, <2>1, <2>4, <2>6, StartNumbers DEF IsPriority
      <3>2. QED
        BY <1>0, <1>1, <1>5, <2>1, <2>6, <3>1, StartNumbers
    <2>7. CASE b + 1 = batch
      <3>1. 2 * BatchGap + BufferDelay <= age[s]
        BY <1>5, <2>1, <2>5, <2>7, StartNumbers
      <3>2. ~(Priority /\ b = 1)
        BY <1>0, <2>1, <2>3, <2>7
      <3>3. batch' # b /\ batch' # b + 1 /\ batch' < b + 3
        BY <1>1, <2>1, <2>7
      <3>4. 2 * BatchGap + BufferDelay + Span' <= age[s]
        BY <1>5, <2>1, <3>1, StartNumbers
      <3>5. QED
        BY <3>2, <3>3, <3>4
    <2>8. QED
      BY <1>0, <2>1, <2>2, <2>3, <2>6, <2>7
  <1>7. QED
    BY <1>2, <1>3, <1>4, <1>6

\* A request that ends only makes the batches quieter.
LEMMA EndKeeps ==
    ASSUME StartInv, NEW r \in Symbols, RequestEnds(r)
    PROVE  StartInv'
  <1> USE DEF StartInv
  <1>1. /\ UNCHANGED <<batch, stage, next, timer, elapsed, heard, firstLive>>
        /\ task[r] = "fetching"
        /\ task' = [task EXCEPT ![r] = "asked"]
        /\ age' = [age EXCEPT ![r] = 0]
    BY DEF RequestEnds, starterVars
  <1>2. StartTypeOK'
    <2>1. task' \in [Symbols -> {"none", "fetching", "asked"}]
      BY <1>1 DEF StartTypeOK
    <2>2. age' \in [Symbols -> 0..HttpTimeout]
      BY <1>1, StartNumbers DEF StartTypeOK
    <2>3. QED
      BY <1>1, <2>1, <2>2 DEF StartTypeOK
  <1>3. Places'
    BY <1>1 DEF Places, Waiting, Fresh, IsPriority, IsLast
  <1>4. \A s \in Symbols : /\ task'[s] = "fetching" => task[s] = "fetching" /\ age'[s] = age[s]
                           /\ task[s] = "none" => task'[s] = "none"
                           /\ task[s] = "asked" => task'[s] = "asked"
    BY <1>1 DEF StartTypeOK
  <1>5. Ordered'
    BY <1>1, <1>4, BatchFacts DEF Ordered, Waiting, Fresh
  <1>6. Answered'
    BY <1>1, <1>4, BatchFacts DEF Answered
  <1>7. Own' = Own /\ Span' = Span
    BY <1>1 DEF Own, Span, Lead, Waiting, Fresh, IsPriority
  <1>8. Aged'
    BY <1>1, <1>4, <1>7, BatchFacts DEF Aged
  <1>9. QED
    BY <1>2, <1>3, <1>5, <1>6, <1>8

\* Time passes for the starter and for every request alike.
LEMMA TickKeeps ==
    ASSUME StartInv, Tick
    PROVE  StartInv'
  <1> USE DEF StartInv
  <1>0. timer \in Nat /\ elapsed \in Nat
    BY DEF StartTypeOK
  <1>1. /\ UNCHANGED <<batch, stage, next, elapsed, task, heard, firstLive>>
        /\ timer > 0 \/ stage = "over"
        /\ \A s \in Symbols : age[s] < HttpTimeout
        /\ timer' = IF timer > 0 THEN timer - 1 ELSE 0
        /\ age' = [s \in Symbols |-> IF task[s] = "fetching" THEN age[s] + 1 ELSE 0]
    BY DEF Tick
  <1>2. StartTypeOK'
    <2>1. timer' \in Nat
      BY <1>0, <1>1
    <2>2. age' \in [Symbols -> 0..HttpTimeout]
      BY <1>1, StartNumbers DEF StartTypeOK
    <2>3. QED
      BY <1>1, <2>1, <2>2 DEF StartTypeOK
  <1>3. Places'
    <2>1. timer' <= timer /\ timer' \in Nat
      BY <1>0, <1>1
    <2>2. timer = 0 => timer' = 0
      BY <1>0, <1>1
    <2>3. QED
      BY <1>0, <1>1, <2>1, <2>2, StartNumbers DEF Places, Waiting, Fresh, IsPriority, IsLast
  <1>4. Ordered' /\ Answered'
    BY <1>1 DEF Ordered, Answered, Waiting, Fresh
  <1>5. Own \in Int /\ Own' \in Int /\ Span \in Int /\ Span' \in Int
    BY <1>2, SpanType DEF StartTypeOK
  <1>6. Own' <= Own + 1 /\ Span' <= Span + 1
    <2>1. timer <= timer' + 1 /\ timer' \in Nat
      BY <1>0, <1>1
    <2>2. IsPriority' <=> IsPriority
      BY <1>1 DEF IsPriority
    <2>3. Own' <= Own + 1
      BY <1>0, <1>1, <2>1, <2>2, StartNumbers DEF Own
    <2>4. CASE Fresh
      BY <1>0, <1>1, <2>1, <2>4, StartNumbers DEF Own, Lead, Span, Waiting, Fresh
    <2>5. CASE ~Fresh
      <3>1. Lead' = Lead /\ Lead \in Int
        BY <1>1, <2>5, StartNumbers DEF Lead, Waiting, Fresh
      <3>2. Span = Lead + Own /\ Span' = Lead + Own'
        BY <3>1 DEF Span
      <3>3. \A l, o, p \in Int : p <= o + 1 => l + p <= l + o + 1
        OBVIOUS
      <3>4. Own \in Int /\ Own' \in Int /\ Lead \in Int
        BY <1>5, <3>1
      <3>5. Lead + Own' <= Lead + Own + 1
        BY <2>3, <3>3, <3>4
      <3>6. QED
        BY <2>3, <3>2, <3>5
    <2>6. QED
      BY <2>3, <2>4, <2>5
  <1>7. Aged'
    <2> SUFFICES ASSUME NEW b \in DOMAIN Batches, NEW s \in ToSet(Batches[b]),
                        task[s] = "fetching"
                 PROVE  /\ b = batch => Own' <= age'[s]
                        /\ b + 1 = batch => BatchGap + Span' <= age'[s]
                        /\ b + 2 = batch => 2 * BatchGap + BufferDelay + Span' <= age'[s]
                        /\ batch < b + 3
                        /\ Priority /\ b = 1 =>
                              /\ batch = 2 => PriorityTimeout + BatchGap + Span' <= age'[s]
                              /\ batch < 3
      BY <1>1 DEF Aged
    <2>1. age[s] \in Nat /\ age'[s] = age[s] + 1
      BY <1>1, BatchFacts, StartNumbers DEF StartTypeOK
    <2>2. /\ b = batch => Own <= age[s]
          /\ b + 1 = batch => BatchGap + Span <= age[s]
          /\ b + 2 = batch => 2 * BatchGap + BufferDelay + Span <= age[s]
          /\ batch < b + 3
          /\ Priority /\ b = 1 =>
                /\ batch = 2 => PriorityTimeout + BatchGap + Span <= age[s]
                /\ batch < 3
      BY DEF Aged
    <2>3. QED
      BY <1>5, <1>6, <2>1, <2>2, StartNumbers
  <1>8. QED
    BY <1>2, <1>3, <1>4, <1>7

\* What is heard and who goes Live changes nothing for the requests.
LEMMA NewsKeeps ==
    ASSUME StartInv, GoesLive \/ (\E s \in Symbols : IsHeard(s)) \/ UNCHANGED startVars
    PROVE  StartInv'
  <1> USE DEF StartInv
  <1>1. UNCHANGED <<batch, stage, next, timer, elapsed, task, age>>
    BY DEF GoesLive, IsHeard, startVars, starterVars
  <1>2. StartTypeOK'
    <2>1. firstLive' \in BOOLEAN
      <3>1. firstLive \in BOOLEAN
        BY DEF StartTypeOK
      <3>2. firstLive' = TRUE \/ firstLive' = firstLive
        BY Zenon DEF GoesLive, IsHeard, startVars
      <3>3. QED
        BY <3>1, <3>2
    <2>2. heard' \subseteq Symbols
      BY DEF StartTypeOK, GoesLive, IsHeard, startVars
    <2>3. QED
      BY <1>1, <2>1, <2>2 DEF StartTypeOK
  <1>3. Places' /\ Ordered'
    BY <1>1 DEF Places, Ordered, Waiting, Fresh, IsPriority, IsLast
  <1>4. Answered'
    BY <1>1 DEF Answered, GoesLive, IsHeard, startVars
  <1>5. Own' = Own /\ Span' = Span
    BY <1>1 DEF Own, Span, Lead, Waiting, Fresh, IsPriority
  <1>6. Aged'
    BY <1>1, <1>5 DEF Aged
  <1>7. QED
    BY <1>2, <1>3, <1>4, <1>6

\* The invariant of the staged startup holds at every step.
THEOREM StartInvAlways == StartSpec => []StartInv
  <1>1. StartInv /\ [StartNext]_startVars => StartInv'
    BY SpawnKeeps, StarterKeeps, NextBatchKeeps, EndKeeps, TickKeeps, NewsKeeps
       DEF StartNext, Starter
  <1>2. QED
    BY <1>1, StartInvInit, PTL DEF StartSpec

\* First requests under way belong to one batch or to two neighbours, and the
\* priority symbol's is over before any other is sent, however slowly they
\* are answered and whether or not the batches settle.
THEOREM BatchesApartAlways == StartSpec => []BatchesApart
  BY StartInvApart, StartInvAlways, PTL

-----------------------------------------------------------------------------
(***************************************************************************)
(* SnapshotThrottle.  The invariant says, for a request not yet sent, what *)
(* the time already gone and the sleep still ahead add up to.              *)
(***************************************************************************)

\* The timers and counters keep to their ranges.
Numbers ==
    /\ lastSnapshot \in 0..Cooldown
    /\ backoff \in 0..Long
    /\ sleeping \in 0..Long
    /\ idleFor \in 0..MaxIdle
    /\ silence \in 0..Long
    /\ fails \in 0..MaxFails

\* The entry the next failure grows is the one the schedule asks for.
OnSchedule == phase # "done" => backoff = Schedule[fails]

\* last_snapshot_time is never older than the request it stands for.
StampTrue == phase # "done" /\ ~forgotten => lastSnapshot <= silence

\* Time gone and sleep ahead make up the cooldown ...
CooldownAhead == phase = "cooldown" /\ ~forgotten => silence + sleeping >= Cooldown

\* ... and, after a failure, the backoff.
BackoffAhead == phase = "backoff" /\ ~forgotten => silence + sleeping >= Schedule[fails]

BackoffOver ==
    phase \in {"loop", "cooldown"} /\ ~forgotten /\ fails > 0 => silence >= Schedule[fails]

ThrottleInv ==
    /\ Numbers
    /\ OnSchedule
    /\ StampTrue
    /\ CooldownAhead
    /\ BackoffAhead
    /\ BackoffOver

\* A tick takes no more off the sleep than it adds to the silence, and the
\* caps on the two ages keep their order.
LEMMA TickAddsUp ==
    ASSUME NEW past \in 0..Long, NEW ahead \in Nat, NEW old \in Nat, Cooldown \in Nat,
           Long \in Nat, Cooldown <= Long
    PROVE  /\ \A n \in 0..Long : past + ahead >= n => Lesser(past + 1, Long) + Earlier(ahead) >= n
           /\ old <= past => Lesser(old + 1, Cooldown) <= Lesser(past + 1, Long)
           /\ \A n \in 0..Long : past >= n => Lesser(past + 1, Long) >= n
  BY DEF Lesser, Earlier

\* The initial state, with no request sent for as long as matters, is in it.
LEMMA ThrottleInitInv == ThrottleInit => ThrottleInv
<1> SUFFICES ASSUME ThrottleInit PROVE ThrottleInv
  OBVIOUS
<1> USE ThrottleAssumption DEF ThrottleInit
<1>1. Numbers
  BY DEF Numbers, Long, Greater
<1>2. OnSchedule
  BY ScheduleAssumption DEF OnSchedule
<1>3. StampTrue
  BY DEF StampTrue, Long, Greater
<1> QED
  BY <1>1, <1>2, <1>3 DEF ThrottleInv, CooldownAhead, BackoffAhead, BackoffOver

\* No step of the task, the sweep or the clock leaves the invariant.
LEMMA ThrottleNextInv == ThrottleInv /\ [ThrottleNext]_throttleVars => ThrottleInv'
<1> SUFFICES ASSUME ThrottleInv, [ThrottleNext]_throttleVars
             PROVE  ThrottleInv'
  OBVIOUS
<1>a. /\ Long \in Nat /\ Cooldown <= Long /\ MaxBackoff <= Long
      /\ Cooldown \in Nat /\ MaxBackoff \in Nat /\ MaxIdle \in Nat /\ MaxFails \in Nat
  BY ThrottleAssumption DEF Long, Greater
<1>b. /\ \A n \in 0..Long : Growth[n] \in Nat
      /\ \A k \in 0..MaxFails : Schedule[k] \in 0..Long
      /\ Schedule[0] = Cooldown
  BY ThrottleAssumption, ScheduleAssumption
<1>c. \A k \in 0..MaxFails :
        Schedule[Lesser(k + 1, MaxFails)] = Lesser(Growth[Schedule[k]], MaxBackoff)
  BY ScheduleAssumption
<1>d. /\ \A m, n \in Nat : Lesser(m, n) \in 0..n /\ Lesser(m, n) <= m
      /\ \A n \in Nat : Earlier(n) \in 0..n /\ n <= Earlier(n) + 1
  BY DEF Lesser, Earlier
<1>1. CASE LeaveDelisted
  <2>1. Numbers'
    BY <1>1, <1>a, <1>b, <1>d DEF ThrottleInv, Numbers, LeaveDelisted, RemoveState, historyVars
  <2>2. OnSchedule'
    BY <1>1, <1>a, <1>b, <1>c DEF ThrottleInv, Numbers, OnSchedule, LeaveDelisted, RemoveState, historyVars
  <2>3. StampTrue' /\ CooldownAhead' /\ BackoffAhead' /\ BackoffOver'
    BY <1>1, <1>a, <1>b, <1>d DEF ThrottleInv, Numbers, OnSchedule, StampTrue,
       CooldownAhead, BackoffAhead, BackoffOver, LeaveDelisted, RemoveState, historyVars
  <2> QED
    BY <2>1, <2>2, <2>3 DEF ThrottleInv
<1>2. CASE TurnInitializing
  <2>1. Numbers'
    BY <1>2, <1>a, <1>b, <1>d DEF ThrottleInv, Numbers, TurnInitializing, sweepVars, historyVars
  <2>2. OnSchedule'
    BY <1>2, <1>a, <1>b, <1>c DEF ThrottleInv, Numbers, OnSchedule, TurnInitializing, sweepVars, historyVars
  <2>3. StampTrue' /\ CooldownAhead' /\ BackoffAhead' /\ BackoffOver'
    BY <1>2, <1>a, <1>b, <1>d DEF ThrottleInv, Numbers, OnSchedule, StampTrue,
       CooldownAhead, BackoffAhead, BackoffOver, TurnInitializing, sweepVars, historyVars
  <2> QED
    BY <2>1, <2>2, <2>3 DEF ThrottleInv
<1>3. CASE AwaitCooldown
  <2>1. Numbers'
    BY <1>3, <1>a, <1>b, <1>d DEF ThrottleInv, Numbers, AwaitCooldown, sweepVars, historyVars
  <2>2. OnSchedule'
    BY <1>3, <1>a, <1>b, <1>c DEF ThrottleInv, Numbers, OnSchedule, AwaitCooldown, sweepVars, historyVars
  <2>3. StampTrue' /\ CooldownAhead' /\ BackoffAhead' /\ BackoffOver'
    BY <1>3, <1>a, <1>b, <1>d DEF ThrottleInv, Numbers, OnSchedule, StampTrue,
       CooldownAhead, BackoffAhead, BackoffOver, AwaitCooldown, sweepVars, historyVars
  <2> QED
    BY <2>1, <2>2, <2>3 DEF ThrottleInv
<1>4. CASE SendRequest
  <2>1. Numbers'
    BY <1>4, <1>a, <1>b, <1>d DEF ThrottleInv, Numbers, SendRequest, sweepVars
  <2>2. OnSchedule'
    BY <1>4, <1>a, <1>b, <1>c DEF ThrottleInv, Numbers, OnSchedule, SendRequest, sweepVars
  <2>3. StampTrue' /\ CooldownAhead' /\ BackoffAhead' /\ BackoffOver'
    BY <1>4, <1>a, <1>b, <1>d DEF ThrottleInv, Numbers, OnSchedule, StampTrue,
       CooldownAhead, BackoffAhead, BackoffOver, SendRequest, sweepVars
  <2> QED
    BY <2>1, <2>2, <2>3 DEF ThrottleInv
<1>5. CASE RequestOk
  <2>1. Numbers'
    BY <1>5, <1>a, <1>b, <1>d DEF ThrottleInv, Numbers, RequestOk
  <2>2. OnSchedule'
    BY <1>5, <1>a, <1>b, <1>c DEF ThrottleInv, Numbers, OnSchedule, RequestOk
  <2>3. StampTrue' /\ CooldownAhead' /\ BackoffAhead' /\ BackoffOver'
    BY <1>5, <1>a, <1>b, <1>d DEF ThrottleInv, Numbers, OnSchedule, StampTrue,
       CooldownAhead, BackoffAhead, BackoffOver, RequestOk
  <2> QED
    BY <2>1, <2>2, <2>3 DEF ThrottleInv
<1>6. CASE RequestFails
  <2>1. /\ backoff' \in 0..Long /\ sleeping' = backoff'
        /\ fails' \in 0..MaxFails
        /\ lastSnapshot' = lastSnapshot /\ silence' = silence
        /\ phase' = "backoff" /\ phase = "fetching" /\ forgotten' = forgotten
    <3>1. Growth[backoff] \in Nat /\ fails + 1 \in Nat
      BY <1>b DEF ThrottleInv, Numbers
    <3>2. Lesser(Growth[backoff], MaxBackoff) \in 0..Long /\ Lesser(fails + 1, MaxFails) \in 0..MaxFails
      BY <3>1, <1>a DEF Lesser
    <3> QED
      BY <1>6, <3>2 DEF RequestFails
  <2>2. idleFor' \in 0..MaxIdle
    BY <1>6, <1>a DEF ThrottleInv, Numbers, RequestFails, BookMayBeIn
  <2>3. Numbers'
    BY <2>1, <2>2 DEF ThrottleInv, Numbers
  <2>4. backoff' = Schedule[fails']
    BY <1>6, <1>c DEF ThrottleInv, Numbers, OnSchedule, RequestFails
  <2>5. StampTrue' /\ BackoffAhead'
    BY <2>1, <2>3, <2>4, <1>a DEF ThrottleInv, Numbers, StampTrue, BackoffAhead
  <2> QED
    BY <2>1, <2>3, <2>4, <2>5 DEF ThrottleInv, OnSchedule, CooldownAhead, BackoffOver
<1>7. CASE AwakeFromBackoff
  <2>1. Numbers'
    BY <1>7, <1>a, <1>b, <1>d DEF ThrottleInv, Numbers, AwakeFromBackoff, sweepVars, historyVars
  <2>2. OnSchedule'
    BY <1>7, <1>a, <1>b, <1>c DEF ThrottleInv, Numbers, OnSchedule, AwakeFromBackoff, sweepVars, historyVars
  <2>3. StampTrue' /\ CooldownAhead' /\ BackoffAhead' /\ BackoffOver'
    BY <1>7, <1>a, <1>b, <1>d DEF ThrottleInv, Numbers, OnSchedule, StampTrue,
       CooldownAhead, BackoffAhead, BackoffOver, AwakeFromBackoff, sweepVars, historyVars
  <2> QED
    BY <2>1, <2>2, <2>3 DEF ThrottleInv
<1>8. CASE Resnapshot \/ Attach
  <2>1. Numbers'
    BY <1>8, <1>a, <1>b, <1>d DEF ThrottleInv, Numbers, Resnapshot, Attach, sweepVars, historyVars
  <2>2. OnSchedule'
    BY <1>8, <1>a, <1>b, <1>c DEF ThrottleInv, Numbers, OnSchedule, Resnapshot, Attach, sweepVars, historyVars
  <2>3. StampTrue' /\ CooldownAhead' /\ BackoffAhead' /\ BackoffOver'
    BY <1>8, <1>a, <1>b, <1>d DEF ThrottleInv, Numbers, OnSchedule, StampTrue,
       CooldownAhead, BackoffAhead, BackoffOver, Resnapshot, Attach, sweepVars, historyVars
  <2> QED
    BY <2>1, <2>2, <2>3 DEF ThrottleInv
<1>9. CASE DiffApplied \/ SweepLists \/ Delist \/ Relist
  <2>1. /\ UNCHANGED <<phase, lastSnapshot, backoff, sleeping, silence, fails, forgotten>>
        /\ idleFor' = idleFor \/ idleFor' = 0
    BY <1>9 DEF DiffApplied, SweepLists, Delist, Relist, taskVars, sweepVars, historyVars
  <2> QED
    BY <2>1, <1>a DEF ThrottleInv, Numbers, OnSchedule, StampTrue, CooldownAhead, BackoffAhead,
       BackoffOver
<1>10. CASE SweepRemoves
  <2>1. Numbers'
    BY <1>10, <1>a, <1>b, <1>d DEF ThrottleInv, Numbers, SweepRemoves, RemoveState
  <2>2. OnSchedule'
    BY <1>10, <1>a, <1>b, <1>c DEF ThrottleInv, Numbers, OnSchedule, SweepRemoves, RemoveState
  <2>3. StampTrue' /\ CooldownAhead' /\ BackoffAhead' /\ BackoffOver'
    BY <1>10, <1>a, <1>b, <1>d DEF ThrottleInv, Numbers, OnSchedule, StampTrue,
       CooldownAhead, BackoffAhead, BackoffOver, SweepRemoves, RemoveState
  <2> QED
    BY <2>1, <2>2, <2>3 DEF ThrottleInv
<1>11. CASE TimePasses
  <2>1. /\ lastSnapshot \in Nat /\ sleeping \in Nat /\ silence \in 0..Long
        /\ \A n \in 0..Long : silence + sleeping >= n
              => Lesser(silence + 1, Long) + Earlier(sleeping) >= n
        /\ lastSnapshot <= silence
              => Lesser(lastSnapshot + 1, Cooldown) <= Lesser(silence + 1, Long)
        /\ \A n \in 0..Long : silence >= n => Lesser(silence + 1, Long) >= n
    BY TickAddsUp, <1>a DEF ThrottleInv, Numbers
  <2>2. idleFor' \in 0..MaxIdle
    <3>1. Lesser(idleFor + 1, MaxIdle) \in 0..MaxIdle
      BY <1>a DEF ThrottleInv, Numbers, Lesser
    <3> QED
      BY <1>11, <3>1, <1>a DEF TimePasses
  <2>3. /\ lastSnapshot' = Lesser(lastSnapshot + 1, Cooldown)
        /\ sleeping' = Earlier(sleeping)
        /\ silence' = Lesser(silence + 1, Long)
        /\ UNCHANGED <<phase, backoff, fails, forgotten>>
    BY <1>11 DEF TimePasses
  <2>4. Numbers'
    <3>1. /\ Lesser(lastSnapshot + 1, Cooldown) \in 0..Cooldown
          /\ Lesser(silence + 1, Long) \in 0..Long
          /\ Earlier(sleeping) \in 0..Long
      BY <1>a DEF ThrottleInv, Numbers, Lesser, Earlier
    <3> QED
      BY <2>2, <2>3, <3>1 DEF ThrottleInv, Numbers
  <2>5. OnSchedule' /\ BackoffOver'
    BY <2>1, <2>3, <1>a, <1>b DEF ThrottleInv, Numbers, OnSchedule, BackoffOver
  <2>6. StampTrue' /\ CooldownAhead' /\ BackoffAhead'
    BY <2>1, <2>3, <1>a, <1>b
    DEF ThrottleInv, Numbers, StampTrue, CooldownAhead, BackoffAhead
  <2> QED
    BY <2>4, <2>5, <2>6 DEF ThrottleInv
<1>12. CASE UNCHANGED throttleVars
  <2>1. Numbers'
    BY <1>12, <1>a, <1>b, <1>d DEF ThrottleInv, Numbers, throttleVars
  <2>2. OnSchedule'
    BY <1>12, <1>a, <1>b, <1>c DEF ThrottleInv, Numbers, OnSchedule, throttleVars
  <2>3. StampTrue' /\ CooldownAhead' /\ BackoffAhead' /\ BackoffOver'
    BY <1>12, <1>a, <1>b, <1>d DEF ThrottleInv, Numbers, OnSchedule, StampTrue,
       CooldownAhead, BackoffAhead, BackoffOver, throttleVars
  <2> QED
    BY <2>1, <2>2, <2>3 DEF ThrottleInv
<1> QED
  BY <1>1, <1>2, <1>3, <1>4, <1>5, <1>6, <1>7, <1>8, <1>9, <1>10, <1>11, <1>12
  DEF ThrottleNext, ManageTask

\* The task always knows how long it still has to wait.
THEOREM ThrottleInvariant == ThrottleSpec => []ThrottleInv
<1> QED
  BY ThrottleInitInv, ThrottleNextInv, PTL DEF ThrottleSpec

\* For every configuration: unless the stale sweep dropped a symbol's timers,
\* its snapshot requests keep the cooldown, and after failures the backoff.
THEOREM RequestsAreSpaced == ThrottleSpec => RequestsSpaced
<1>1. ThrottleInv /\ [ThrottleNext]_throttleVars
        => [Sent => \/ forgotten
                    \/ /\ silence >= Cooldown
                       /\ fails > 0 => silence >= Schedule[fails]]_throttleVars
  <2> SUFFICES ASSUME ThrottleInv, ThrottleNext, Sent, ~forgotten
               PROVE  /\ silence >= Cooldown
                      /\ fails > 0 => silence >= Schedule[fails]
    OBVIOUS
  <2>1. SendRequest
    BY DEF Sent, ThrottleNext, ManageTask, LeaveDelisted, TurnInitializing, AwaitCooldown,
           RequestOk, RequestFails, AwakeFromBackoff, Resnapshot, Attach, DiffApplied,
           SweepLists, SweepRemoves, Delist, Relist, TimePasses, taskVars
  <2> QED
    BY <2>1, ThrottleAssumption, ScheduleAssumption
    DEF SendRequest, ThrottleInv, Numbers, CooldownAhead, BackoffOver, Long, Greater
<1> QED
  BY <1>1, ThrottleInvariant, PTL DEF ThrottleSpec, RequestsSpaced

-----------------------------------------------------------------------------
(***************************************************************************)
(* Supervisor.                                                             *)
(***************************************************************************)

\* Between the wait and the launch there is no process.
Vacant == shell \in {"rm", "launch", "pause"} => collector = "none"

\* A new collector is launched only when the last is gone, killed or not.
THEOREM NoOverlapAlways == Spec => NoOverlap
<1>1. Init => Vacant
  BY DEF Init, Vacant
<1>2. Vacant /\ [Next]_vars => Vacant'
  <2> SUFFICES ASSUME Vacant, [Next]_vars PROVE Vacant'
    OBVIOUS
  <2>1. CASE UNCHANGED vars
    BY <2>1 DEF Vacant, vars, shellVars
  <2>2. CASE CollectorStep
    BY <2>2 DEF Vacant, CollectorStep, LoadConfig, Started, Crash, DrainEnds,
                Dies, shellVars
  <2>3. CASE LoopStep
    <3>1. CASE Reap
      BY <3>1 DEF Vacant, Reap
    <3>2. CASE RemoveSentinel \/ Relaunch
      BY <3>2 DEF Vacant, RemoveSentinel, Relaunch
    <3>3. CASE Launch \/ AssignPid \/ SeeExit \/ SeeSentinel \/ Await
      BY <3>3 DEF Vacant, Launch, AssignPid, SeeExit, SeeSentinel, Await, AwaitExit
    <3>4. QED
      BY <2>3, <3>1, <3>2, <3>3 DEF LoopStep
  <2>4. CASE TrapStep
    BY <2>4 DEF Vacant, TrapStep, Signal, Trap, TrapAwait, AwaitExit, shellVars
  <2>5. CASE DashboardStep
    BY <2>5 DEF Vacant, DashboardStep, EditBegins, EditEnds, RequestRestart, shellVars
  <2>6. QED
    BY <2>1, <2>2, <2>3, <2>4, <2>5 DEF Next
<1>3. Vacant /\ [Next]_vars =>
        [shell = "launch" /\ shell' = "assign" => collector = "none"]_vars
  BY DEF Vacant
<1>4. QED
  BY <1>1, <1>2, <1>3, PTL DEF Spec, NoOverlap

\* The script does not leave behind a collector whose pid it knows.
THEOREM NotLeftBehindAlways == Spec => []NotLeftBehind
<1>1. Init => NotLeftBehind
  BY DEF Init, NotLeftBehind
<1>2. NotLeftBehind /\ [Next]_vars => NotLeftBehind'
  <2> SUFFICES ASSUME NotLeftBehind, [Next]_vars PROVE NotLeftBehind'
    OBVIOUS
  <2>1. CASE UNCHANGED vars
    BY <2>1 DEF NotLeftBehind, vars, shellVars
  <2>2. CASE CollectorStep
    BY <2>2 DEF NotLeftBehind, CollectorStep, LoadConfig, Started, Crash,
                DrainEnds, Dies, shellVars, Alive
  <2>3. CASE LoopStep
    <3>1. shell' # "exited"
      BY <2>3 DEF LoopStep, RemoveSentinel, Launch, AssignPid, SeeExit,
                  SeeSentinel, Await, AwaitExit, Reap, Relaunch
    <3>2. QED
      BY <3>1 DEF NotLeftBehind
  <2>4. CASE Trap
    BY <2>4 DEF NotLeftBehind, Trap, Alive
  <2>5. CASE Signal \/ TrapAwait
    BY <2>5 DEF NotLeftBehind, Signal, TrapAwait, AwaitExit, Alive, shellVars
  <2>6. CASE DashboardStep
    BY <2>6 DEF NotLeftBehind, DashboardStep, EditBegins, EditEnds,
                RequestRestart, shellVars
  <2>7. QED
    BY <2>1, <2>2, <2>3, <2>4, <2>5, <2>6 DEF Next, TrapStep
<1>3. QED
  BY <1>1, <1>2, PTL DEF Spec

=============================================================================
