------------------------ MODULE SymbolUniverseProofs ------------------------
(***************************************************************************)
(* Proofs about SymbolUniverse, for any exchange, any floor and any number *)
(* of degraded answers and restarts.                                       *)
(***************************************************************************)
EXTENDS SymbolUniverse, TLAPS

\* What the tracker remembers of a listed symbol is its last absence: the
\* strike is there exactly after one result without it.
StrikeIsAbsence ==
    \A s \in known : absent[s] = (IF s \in missingOnce THEN 1 ELSE 0)

IInv ==
    /\ TypeOK
    /\ StrikeIsAbsence
    /\ TwoStrikes
    /\ CapturedOrAnnounced
    /\ AlertsAreListed

\* The initial states satisfy the invariant.
LEMMA UniverseInit == Init => IInv
<1> SUFFICES ASSUME Init PROVE IInv
  OBVIOUS
<1>1. Discovered(trading) \subseteq Symbols
  BY SymbolsAssumption DEF Init, Discovered
<1>2. TypeOK
  <2>1. refused \in BOOLEAN
    BY Zenon DEF Init
  <2> QED
    BY <1>1, <2>1, BoundsAssumption DEF Init, TypeOK
<1>3. StrikeIsAbsence /\ TwoStrikes /\ CapturedOrAnnounced /\ AlertsAreListed
  BY <1>1 DEF Init, StrikeIsAbsence, TwoStrikes, CapturedOrAnnounced, AlertsAreListed
<1> QED
  BY <1>2, <1>3 DEF IInv

\* An answer is some of what is TRADING, and is counted when it is degraded.
LEMMA AnswerFacts ==
    ASSUME TypeOK, NEW T \in Answers, Counted(T)
    PROVE  /\ Discovered(T) \subseteq Symbols
           /\ degraded' \in 0..MaxDegraded
<1>1. T \subseteq trading
  BY DEF Answers
<1>2. T = trading \/ degraded < MaxDegraded
  BY DEF Answers
<1> QED
  BY <1>1, <1>2, BoundsAssumption DEF TypeOK, Discovered, Counted

\* A result that is fed to the tracker keeps its books straight.
LEMMA ObserveKeeps ==
    ASSUME IInv, Waiting, NEW result, result \subseteq Symbols, Observe(result),
           UNCHANGED <<delisted, newListings, book>>
    PROVE  /\ known' \subseteq Symbols
           /\ missingOnce' \subseteq known'
           /\ added' \subseteq known'
           /\ removed' \subseteq Symbols \ known'
           /\ absent' \in [Symbols -> 0..2]
           /\ StrikeIsAbsence'
           /\ TwoStrikes'
           /\ CapturedOrAnnounced'
           /\ AlertsAreListed'
<1> USE DEF IInv, TypeOK, Waiting, Observe, Confirmed, Missed
<1>1. /\ known' \subseteq Symbols
      /\ missingOnce' \subseteq known'
      /\ added' \subseteq known'
      /\ removed' \subseteq Symbols \ known'
  OBVIOUS
<1>2. absent' \in [Symbols -> 0..2]
  OBVIOUS
<1>3. StrikeIsAbsence'
  <2> SUFFICES ASSUME NEW s \in known'
               PROVE  absent'[s] = (IF s \in missingOnce' THEN 1 ELSE 0)
    BY DEF StrikeIsAbsence
  <2>1. CASE s \in result
    BY <2>1, <1>1
  <2>2. CASE s \notin result
    <3>1. s \in known /\ s \notin missingOnce /\ s \in missingOnce'
      BY <2>2
    <3>2. absent[s] = 0
      BY <3>1 DEF StrikeIsAbsence
    <3> QED
      BY <2>2, <3>1, <3>2, <1>1
  <2> QED
    BY <2>1, <2>2
<1>4. TwoStrikes'
  <2>1. ASSUME NEW s \in removed' PROVE absent'[s] = 2
    <3>1. s \in known /\ s \notin result /\ s \in missingOnce
      BY <2>1
    <3>2. absent[s] = 1
      BY <3>1 DEF StrikeIsAbsence
    <3> QED
      BY <3>1, <3>2
  <2>2. ASSUME NEW s \in delisted' \ added' PROVE absent'[s] = 2
    <3>1. s \in delisted /\ absent[s] = 2
      BY <2>2 DEF TwoStrikes
    <3>2. s \notin known
      BY <3>1 DEF StrikeIsAbsence
    <3>3. s \notin result /\ s \in Symbols
      BY <3>1, <3>2, <2>2
    <3> QED
      BY <3>1, <3>3
  <2> QED
    BY <2>1, <2>2 DEF TwoStrikes
<1>5. CapturedOrAnnounced'
  BY DEF CapturedOrAnnounced
<1>6. AlertsAreListed'
  BY DEF AlertsAreListed
<1> QED
  BY <1>1, <1>2, <1>3, <1>4, <1>5, <1>6

\* Every step keeps the invariant.
LEMMA UniverseStep == IInv /\ [Next]_vars => IInv'
<1> SUFFICES ASSUME IInv, [Next]_vars PROVE IInv'
  OBVIOUS
<1> USE DEF trackerVars, sharedVars
<1>1. CASE Cycle
  <2>1. PICK T \in Answers : Observe(Discovered(T)) /\ Counted(T)
    BY <1>1 DEF Cycle
  <2>2. Discovered(T) \subseteq Symbols /\ degraded' \in 0..MaxDegraded
    BY <2>1, AnswerFacts DEF IInv
  <2>3. Waiting /\ UNCHANGED <<delisted, newListings, book>>
    BY <1>1 DEF Cycle
  <2>4. /\ known' \subseteq Symbols
        /\ missingOnce' \subseteq known'
        /\ added' \subseteq known'
        /\ removed' \subseteq Symbols \ known'
        /\ absent' \in [Symbols -> 0..2]
        /\ StrikeIsAbsence'
        /\ TwoStrikes'
        /\ CapturedOrAnnounced'
        /\ AlertsAreListed'
    BY <2>1, <2>2, <2>3, ObserveKeeps
  <2>5. TypeOK'
    BY <1>1, <2>2, <2>4 DEF IInv, TypeOK, Cycle
  <2> QED
    BY <2>4, <2>5 DEF IInv
<1>2. CASE RefusedCycle
  <2>1. degraded' \in 0..MaxDegraded
    BY <1>2, AnswerFacts DEF RefusedCycle, IInv
  <2>2. TypeOK'
    BY <1>2, <2>1 DEF IInv, TypeOK, RefusedCycle
  <2> QED
    BY <1>2, <2>2 DEF IInv, RefusedCycle, StrikeIsAbsence, TwoStrikes, CapturedOrAnnounced,
       AlertsAreListed
<1>3. CASE Apply
  <2>1. PICK s \in Symbols : ApplyAdded(s) \/ ApplyRemoved(s)
    BY <1>3 DEF Apply
  <2>2. CASE ApplyAdded(s)
    BY <2>2 DEF IInv, TypeOK, ApplyAdded, StrikeIsAbsence, TwoStrikes, CapturedOrAnnounced,
       AlertsAreListed
  <2>3. CASE ApplyRemoved(s)
    BY <2>3 DEF IInv, TypeOK, ApplyRemoved, StrikeIsAbsence, TwoStrikes, CapturedOrAnnounced,
       AlertsAreListed
  <2> QED
    BY <2>1, <2>2, <2>3
<1>4. CASE \E s \in Symbols : StopBook(s)
  <2>1. PICK s \in Symbols : StopBook(s)
    BY <1>4
  <2>2. s \in known => s \in added
    BY <2>1 DEF IInv, StopBook, TwoStrikes, StrikeIsAbsence
  <2>3. CapturedOrAnnounced'
    BY <2>1, <2>2 DEF IInv, TypeOK, StopBook, CapturedOrAnnounced
  <2> QED
    BY <2>1, <2>3 DEF IInv, TypeOK, StopBook, StrikeIsAbsence, TwoStrikes, AlertsAreListed
<1>5. CASE \E s \in Symbols : StartTrading(s) \/ StopTrading(s)
  BY <1>5 DEF IInv, TypeOK, StartTrading, StopTrading, StrikeIsAbsence, TwoStrikes,
     CapturedOrAnnounced, AlertsAreListed
<1>6. CASE Restart
  <2>1. PICK T \in Answers : Started(Discovered(T)) /\ Counted(T)
    BY <1>6 DEF Restart
  <2>2. Discovered(T) \subseteq Symbols /\ degraded' \in 0..MaxDegraded
    BY <2>1, AnswerFacts DEF IInv
  <2>3. restarts' \in 0..MaxRestarts /\ trading' = trading
    BY <1>6, BoundsAssumption DEF Restart, IInv, TypeOK
  <2>4. refused' \in BOOLEAN
    BY <2>1, Zenon DEF Started
  <2>5. TypeOK'
    BY <2>1, <2>2, <2>3, <2>4 DEF IInv, TypeOK, Started
  <2> QED
    BY <2>1, <2>2, <2>5 DEF IInv, Started, StrikeIsAbsence, TwoStrikes, CapturedOrAnnounced,
       AlertsAreListed
<1>7. CASE UNCHANGED vars
  BY <1>7 DEF vars, IInv, TypeOK, StrikeIsAbsence, TwoStrikes, CapturedOrAnnounced,
     AlertsAreListed
<1> QED
  BY <1>1, <1>2, <1>3, <1>4, <1>5, <1>6, <1>7 DEF Next

\* The invariant holds in every reachable state.
THEOREM UniverseInvariant == Spec => []IInv
<1> QED
  BY UniverseInit, UniverseStep, PTL DEF Spec

\* Two strikes before any teardown: no single answer of the exchange, however
\* wrong, ends the collection of a symbol (SymbolSetTracker::observe).
THEOREM TwoStrikesAlways == Spec => []TwoStrikes
<1>1. IInv => TwoStrikes
  BY DEF IInv
<1> QED
  BY <1>1, UniverseInvariant, PTL

\* Every listed symbol is collected or announced on the dashboard, which asks
\* for no symbol that left, whatever the order in which tasks end and the
\* loop applies its changes.
THEOREM AlertsMatchAlways == Spec => []AlertsMatch
<1>1. IInv => AlertsMatch
  BY DEF IInv, AlertsMatch
<1> QED
  BY <1>1, UniverseInvariant, PTL

=============================================================================
