------------------------------ MODULE RestPoll ------------------------------
(***************************************************************************)
(* One bucketed series of one symbol in RestCollector                      *)
(* (src/collectors/rest_collector.rs): the klines and the ratios are       *)
(* polled as a window of the last Limit buckets, and last_bucket keeps     *)
(* overlapping windows from being written twice.  A bucket is its number.  *)
(*                                                                         *)
(* A kline window ends with the minute in progress, which the poller       *)
(* holds back; a ratio window has only closed buckets.                     *)
(***************************************************************************)
EXTENDS Integers, FiniteSets

CONSTANTS
    Limit,         \* KLINE_BUCKET_LIMIT or DATA_BUCKET_LIMIT
    HoldsBack,     \* TRUE: klines, the final bucket of a window is left out
    MaxGap,        \* buckets that close between two answered polls, at most
    MaxBuckets,    \* bound: buckets
    MaxRestarts    \* bound: restarts of the collector

\* How many buckets may close between two answered polls with none falling
\* out of the window.  Just after a minute has closed the exchange may or may
\* not list the next, so a kline window can be one short at either end.
Reach == IF HoldsBack THEN Limit - 2 ELSE Limit

ASSUME HoldsBackAssumption == HoldsBack \in BOOLEAN
ASSUME LimitAssumption == Limit \in Nat /\ Limit > 2
ASSUME GapAssumption == MaxGap \in Nat /\ MaxGap <= Reach
ASSUME BoundsAssumption == MaxBuckets \in Nat /\ MaxRestarts \in Nat

VARIABLES
    closed,        \* buckets the exchange has closed: 1..closed
    gap,           \* of these, closed since the last answer
    polled,        \* a poll of this run was answered
    response,      \* buckets of the answer still to be looked at
    last,          \* last_bucket, 0 when it has no entry
    hand,          \* the bucket being written, 0 for none
    first,         \* history: the first bucket of this run, 0 before
    written,       \* history: buckets with a row written in this run
    failed,        \* history: buckets whose write failed in this run
    filed,         \* history: buckets with a row, whichever run wrote it
    doubled,       \* history: buckets with two rows
    restarts

runVars == <<first, written, failed>>
fileVars == <<filed, doubled>>
vars == <<closed, gap, polled, response, last, hand, runVars, fileVars, restarts>>

Init ==
    /\ closed = 0
    /\ gap = 0
    /\ polled = FALSE
    /\ response = {}
    /\ last = 0
    /\ hand = 0
    /\ first = 0
    /\ written = {}
    /\ failed = {}
    /\ filed = {}
    /\ doubled = {}
    /\ restarts = 0

-----------------------------------------------------------------------------
\* Time goes by, and as long as the collector runs, not too much of it
\* between two answers.
Close ==
    /\ closed < MaxBuckets
    /\ polled => gap < MaxGap
    /\ closed' = closed + 1
    /\ gap' = gap + 1
    /\ UNCHANGED <<polled, response, last, hand, runVars, fileVars, restarts>>

\* What the poller looks at of a window that ends with bucket top.
Window(top) ==
    {b \in 1..top : b > top - Limit /\ (HoldsBack => b < top)}

\* A poll is answered.  One that fails, after the client's own retries, is
\* logged, and leaves everything to the next.
Poll ==
    /\ response = {} /\ hand = 0
    /\ \E top \in {closed} \cup (IF HoldsBack THEN {closed + 1} ELSE {}) :
          response' = Window(top)
    /\ response' # {}
    /\ gap' = 0
    /\ polled' = TRUE
    /\ UNCHANGED <<closed, last, hand, runVars, fileVars, restarts>>

\* Mutant: the window is walked from its newest bucket.
NewestOf(S, b) == b \in S /\ \A c \in S : c <= b

\* b is the bucket of S the poller comes to first.
FirstOf(S, b) == b \in S /\ \A c \in S : b <= c

\* Mutant: only the bucket written last counts as written.
IsOtherBucket(b) == last # b

\* is_new_bucket
IsNewBucket(b) == last < b

SkipBucket ==
    /\ hand = 0
    /\ \E b \in response :
          /\ FirstOf(response, b)
          /\ ~IsNewBucket(b)
          /\ response' = response \ {b}
    /\ UNCHANGED <<closed, gap, polled, last, hand, runVars, fileVars, restarts>>

\* is_new_bucket records the bucket before the row is written.
TakeBucket ==
    /\ hand = 0
    /\ \E b \in response :
          /\ FirstOf(response, b)
          /\ IsNewBucket(b)
          /\ response' = response \ {b}
          /\ last' = b
          /\ hand' = b
          /\ first' = IF first = 0 THEN b ELSE first
    /\ UNCHANGED <<closed, gap, polled, written, failed, fileVars, restarts>>

WriteOk ==
    /\ hand # 0
    /\ hand' = 0
    /\ written' = written \cup {hand}
    /\ filed' = filed \cup {hand}
    /\ doubled' = IF hand \in filed THEN doubled \cup {hand} ELSE doubled
    /\ UNCHANGED <<closed, gap, polled, response, last, first, failed, restarts>>

\* The error is logged; the bucket stays recorded.
WriteErr ==
    /\ hand # 0
    /\ hand' = 0
    /\ failed' = failed \cup {hand}
    /\ UNCHANGED <<closed, gap, polled, response, last, first, written, fileVars, restarts>>

\* last_bucket lives and dies with the process.
Restart ==
    /\ restarts < MaxRestarts
    /\ restarts' = restarts + 1
    /\ polled' = FALSE
    /\ response' = {}
    /\ last' = 0
    /\ hand' = 0
    /\ first' = 0
    /\ written' = {}
    /\ failed' = {}
    /\ UNCHANGED <<closed, gap, fileVars>>

Next == Close \/ Poll \/ SkipBucket \/ TakeBucket \/ WriteOk \/ WriteErr \/ Restart

Spec == Init /\ [][Next]_vars

-----------------------------------------------------------------------------
\* Every variable keeps to its values; what the poller writes is closed.
TypeOK ==
    /\ closed \in Nat
    /\ gap \in Nat
    /\ polled \in BOOLEAN
    /\ response \subseteq 1..closed
    /\ last \in 0..closed
    /\ hand \in 0..closed
    /\ first \in 0..closed
    /\ written \subseteq 1..closed
    /\ failed \subseteq 1..closed
    /\ filed \subseteq 1..closed
    /\ doubled \subseteq filed
    /\ restarts \in Nat

\* With polls no further apart than the window reaches, every bucket between
\* the first and the last of a run was written, or its write failed: slow
\* polling loses none.
NoHole ==
    first > 0 => \A b \in first..last : b \in written \cup failed \cup {hand}

\* Within a run the rows of a series are written once each, oldest first and
\* never before their bucket has closed, however the windows overlap.
InOrder == hand > 0 => hand <= closed /\ \A b \in written : b < hand

\* What docs/ARCHITECTURE.md says of the bucketed series: no native bucket is
\* lost, so a bucket whose write failed is written when an answer has it again.
\* Does not hold of the code; see "Disagreements" in the README.
NothingLost ==
    [][\A b \in (failed \ written) \cap response : b \in response' \/ hand' = b]_vars

\* What the comment on the window's size says: overlap is de-duplicated.  Does
\* not hold across a restart; see "Disagreements" in the README.
OneRow == doubled = {}

=============================================================================
