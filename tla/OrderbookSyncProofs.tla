------------------------ MODULE OrderbookSyncProofs ------------------------
(***************************************************************************)
(* Proofs about OrderbookSync, for every stream, every set of levels, every*)
(* ring-buffer capacity: type correctness, the inductive invariant SyncInv *)
(* of a stream without two-hour silences, and what follows from it: the    *)
(* book that goes Live is the exchange's, the Live book only moves forward,*)
(* and the symbol implements BookFeed.                                     *)
(***************************************************************************)
EXTENDS OrderbookSync, TLAPS

USE DEF Diffs

-----------------------------------------------------------------------------
(***************************************************************************)
(* Facts about update ids and books.                                       *)
(***************************************************************************)

\* Update ids are naturals, and final ids grow with the diff's number.
LEMMA IdFacts ==
    /\ NumDiffs \in Nat
    /\ \A n \in Diffs : FirstId[n] \in Nat /\ FinalId[n] \in Nat /\ PrevId(n) \in Nat
    /\ \A n \in Diffs : PrevId(n) < FirstId[n] /\ FirstId[n] <= FinalId[n]
    /\ \A m, n \in Diffs : m < n => FinalId[m] < FinalId[n]
    /\ \A n \in Diffs : n # 1 => n - 1 \in Diffs /\ PrevId(n) = FinalId[n - 1]
  <1>1. NumDiffs \in Nat
    BY NumDiffsAssumption
  <1>2. \A n \in Diffs : FirstId[n] \in Nat /\ FinalId[n] \in Nat
    BY IdAssumption
  <1>3. \A n \in Diffs : n # 1 => n - 1 \in Diffs /\ PrevId(n) = FinalId[n - 1]
    BY <1>1 DEF PrevId
  <1>4. \A n \in Diffs : PrevId(n) \in Nat
    BY <1>1, <1>2, IdAssumption DEF PrevId
  <1>5. \A n \in Diffs : PrevId(n) < FirstId[n] /\ FirstId[n] <= FinalId[n]
    BY IdAssumption
  <1>6. \A m, n \in Diffs : m < n => FinalId[m] < FinalId[n]
    BY <1>2, <1>5, IdAssumption
  <1>7. QED
    BY <1>1, <1>2, <1>3, <1>4, <1>5, <1>6

\* Applying a diff to a book gives a book.
LEMMA OverlayType ==
    ASSUME NEW b \in Orderbook, NEW n \in Diffs
    PROVE  Overlay(b, n) \in Orderbook /\ Overlay(b, n).id = FinalId[n]
  BY IdFacts DEF Overlay, Orderbook

\* A book that equals the exchange's, extended by the diff its update id
\* continues into, equals the exchange's again.  This is what both bridge
\* rules and the pu check of try_attach_to_stream establish.
LEMMA OverlayExact ==
    ASSUME NEW b \in Orderbook, Exact(b), NEW n \in Diffs,
           PrevId(n) <= b.id, b.id < FinalId[n]
    PROVE  Exact(Overlay(b, n))
  <1>1. PICK k \in 0..NumDiffs :
           /\ Covers(k, b.id)
           /\ \A l \in Levels :
                 \/ IsCurrent(l, b.level[l], k)
                 \/ /\ k + 1 \in Diffs
                    /\ FirstId[k + 1] <= b.id
                    /\ l \in Touch[k + 1]
                    /\ b.level[l] = k + 1
    BY DEF Exact
  <1>2. b.id \in Nat /\ b.level \in [Levels -> Nat]
    BY DEF Orderbook
  <1>3. k = n - 1
    <2>1. ~(n <= k)
      BY <1>1, <1>2, IdFacts DEF Covers
    <2>2. n # 1 => n - 1 <= k
      BY <1>1, <1>2, IdFacts DEF Covers
    <2>3. QED
      BY <2>1, <2>2, <1>1, IdFacts
  <1>4. Covers(n, FinalId[n])
    <2>1. \A m \in Diffs : m <= n => FinalId[m] <= FinalId[n]
      <3>1. TAKE m \in Diffs
      <3>2. CASE m = n
        BY <3>2, IdFacts
      <3>3. CASE m < n
        BY <3>3, IdFacts
      <3>4. QED
        BY <3>2, <3>3, IdFacts
    <2>2. \A m \in Diffs : n < m => ~(FinalId[m] <= FinalId[n])
      BY IdFacts
    <2>3. QED
      BY <2>1, <2>2, IdFacts DEF Covers
  <1>5. \A l \in Levels : IsCurrent(l, Overlay(b, n).level[l], n)
    <2>1. TAKE l \in Levels
    <2>2. CASE l \in Touch[n]
      <3>1. Overlay(b, n).level[l] = n
        BY <2>2 DEF Overlay
      <3>2. QED
        BY <2>2, <3>1, IdFacts DEF IsCurrent
    <2>3. CASE l \notin Touch[n]
      <3>1. Overlay(b, n).level[l] = b.level[l]
        BY <2>3 DEF Overlay
      <3>2. IsCurrent(l, b.level[l], n - 1)
        BY <1>1, <1>3, <2>3
      <3>3. QED
        BY <2>3, <3>1, <3>2, <1>2, IdFacts DEF IsCurrent
    <2>4. QED
      BY <2>2, <2>3
  <1>6. Overlay(b, n).id = FinalId[n] /\ n \in 0..NumDiffs
    BY IdFacts DEF Overlay
  <1>7. QED
    BY <1>4, <1>5, <1>6 DEF Exact

\* A snapshot of the exchange is a book that equals the exchange's and knows
\* no diff beyond the ones emitted.
LEMMA SnapshotFacts ==
    ASSUME NEW k \in 0..NumDiffs, NEW b \in Snapshots(k)
    PROVE  /\ b \in Orderbook
           /\ Exact(b)
           /\ \A n \in Diffs : FinalId[n] <= b.id => n <= k
  <1>1. b \in [id : SnapshotIds(k), level : [Levels -> 0..NumDiffs]] /\ Exact(b)
    BY DEF Snapshots
  <1>2. SnapshotIds(k) \subseteq Nat
    BY IdAssumption, IdFacts DEF SnapshotIds
  <1>3. 0..NumDiffs \subseteq Nat
    BY IdFacts
  <1>4. b \in Orderbook
    BY <1>1, <1>2, <1>3 DEF Orderbook
  <1>5. b.id \in SnapshotIds(k)
    BY <1>1
  <1>6. QED
    BY <1>1, <1>4, <1>5 DEF SnapshotIds

-----------------------------------------------------------------------------
(***************************************************************************)
(* Type correctness.                                                       *)
(***************************************************************************)

\* apply_diff yields a book, or leaves everything as it was.
LEMMA ApplyDiffType ==
    ASSUME book \in Orderbook \cup {NoBook}, NEW n \in Diffs, ApplyDiff(n),
           idle \in BOOLEAN
    PROVE  book' \in Orderbook \cup {NoBook} /\ idle' \in BOOLEAN
  BY OverlayType DEF ApplyDiff

\* Every step of every task keeps the type invariant.
LEMMA TypeStep == TypeOK /\ [Next]_vars => TypeOK'
  <1> SUFFICES ASSUME TypeOK, [Next]_vars
               PROVE  TypeOK'
    OBVIOUS
  <1> USE DEF TypeOK, OrderbookState, ManagePc, streamVars, manageVars,
              liveVars, sideVars
  <1>0. NumDiffs \in Nat /\ 1..issued \subseteq Diffs
    BY IdFacts
  <1>1. CASE Connect
    BY <1>1 DEF Connect
  <1>2. CASE Disconnect
    <2>1. connected' \in BOOLEAN
      BY <1>2, Zenon DEF Disconnect
    <2>2. QED
      BY <1>2, <2>1 DEF Disconnect
  <1>3. CASE ReceiveDiff
    <2>1. /\ issued' \in 0..NumDiffs
          /\ 1..issued \subseteq 1..issued'
          /\ issued + 1 \in 1..issued'
      BY <1>3, <1>0 DEF ReceiveDiff
    <2>2. buffer' \subseteq buffer \cup {issued + 1}
      BY <1>3 DEF ReceiveDiff
    <2>3. missed' \subseteq missed \cup buffer \cup {issued + 1}
      BY <1>3 DEF ReceiveDiff
    <2>4. buffer' \subseteq 1..issued' /\ missed' \subseteq 1..issued'
      BY <2>1, <2>2, <2>3
    <2>5. UNCHANGED <<connected, state, book, idle, resyncs, stale, pc, queue,
                      lastU, bridging, live, updates, periodic, stamped,
                      delisted>>
      BY <1>3 DEF ReceiveDiff
    <2>6. queue' \subseteq 1..issued' /\ updates' \subseteq 1..issued'
      BY <2>1, <2>5
    <2>7. QED
      BY <2>1, <2>4, <2>5, <2>6
  <1>4. CASE LoseDiff
    BY <1>4, <1>0 DEF LoseDiff
  <1>5. CASE ManageDelisted
    BY <1>5 DEF ManageDelisted, RemoveSymbolState
  <1>6. CASE ManageInitializing
    BY <1>6 DEF ManageInitializing
  <1>7. CASE ManageCooldown
    BY <1>7 DEF ManageCooldown
  <1>8. CASE StartFetch
    BY <1>8 DEF StartFetch
  <1>9. CASE FetchOk
    BY <1>9, <1>0, SnapshotFacts DEF FetchOk
  <1>10. CASE FetchErr
    BY <1>10 DEF FetchErr
  <1>11. CASE SnapshotWritten
    BY <1>11 DEF SnapshotWritten
  <1>12. CASE SnapshotWriteErr
    BY <1>12 DEF SnapshotWriteErr
  <1>13. CASE EndBackoff
    BY <1>13 DEF EndBackoff
  <1>14. CASE BridgeTimeout
    BY <1>14 DEF BridgeTimeout, TriggerResnapshot
  <1>15. CASE DrainForAttach
    BY <1>15 DEF DrainForAttach
  <1>16. CASE SnapshotTooOld
    BY <1>16 DEF SnapshotTooOld, TriggerResnapshot
  <1>17. CASE NoBridge
    BY <1>17 DEF NoBridge
  <1>18. CASE FoundBridge
    <2>1. SnapshotU \in Nat
      BY DEF SnapshotU, Orderbook
    <2>2. queue' \subseteq queue
      BY <1>18 DEF FoundBridge
    <2>3. QED
      BY <1>18, <2>1, <2>2 DEF FoundBridge
  <1>19. CASE AttachApply
    <2>1. PICK n \in queue :
             /\ ApplyDiff(n)
             /\ queue' = queue \ {n}
             /\ lastU' = FinalId[n]
      BY <1>19 DEF AttachApply
    <2>2. n \in Diffs
      BY <1>0
    <2>3. book' \in Orderbook \cup {NoBook} /\ idle' \in BOOLEAN
      BY <2>1, <2>2, ApplyDiffType
    <2>4. QED
      BY <1>19, <2>1, <2>2, <2>3, IdFacts DEF AttachApply
  <1>20. CASE AttachGap
    BY <1>20 DEF AttachGap
  <1>21. CASE AttachDone
    BY <1>21 DEF AttachDone
  <1>22. CASE GoLive
    BY <1>22 DEF GoLive
  <1>23. CASE BridgeSnapshotWritten
    BY <1>23 DEF BridgeSnapshotWritten
  <1>24. CASE BridgeSnapshotWriteErr
    BY <1>24 DEF BridgeSnapshotWriteErr
  <1>25. CASE LiveList
    BY <1>25 DEF LiveList
  <1>26. CASE LiveDrain
    <2>1. CASE buffer = {}
      <3>1. updates' = {} /\ buffer' = {} /\ live' = "tick"
        BY <1>26, <2>1 DEF LiveDrain
      <3>2. QED
        BY <1>26, <3>1 DEF LiveDrain
    <2>2. CASE buffer # {}
      <3>1. updates' = buffer /\ buffer' = {} /\ live' = "applying"
        BY <1>26, <2>2 DEF LiveDrain
      <3>2. live' = "applying" <=> updates' # {}
        BY <2>2, <3>1
      <3>3. QED
        BY <1>26, <3>1, <3>2 DEF LiveDrain
    <2>3. QED
      BY <2>1, <2>2
  <1>27. CASE LiveApply
    <2>1. PICK n \in updates :
             /\ ApplyDiff(n)
             /\ updates' = updates \ {n}
             /\ live' = IF updates = {n} THEN "tick" ELSE "applying"
      BY <1>27 DEF LiveApply
    <2>2. n \in Diffs
      BY <1>0
    <2>3. book' \in Orderbook \cup {NoBook} /\ idle' \in BOOLEAN
      BY <2>1, <2>2, ApplyDiffType
    <2>4. QED
      BY <1>27, <2>1, <2>2, <2>3, IdFacts DEF LiveApply
  <1>28. CASE GoIdle
    BY <1>28 DEF GoIdle
  <1>29. CASE SweepCollect
    BY <1>29 DEF SweepCollect
  <1>30. CASE SweepRemove
    BY <1>30 DEF SweepRemove, RemoveSymbolState
  <1>31. CASE PeriodicList
    BY <1>31 DEF PeriodicList
  <1>32. CASE PeriodicTurn
    BY <1>32 DEF PeriodicTurn
  <1>33. CASE PeriodicStamp
    BY <1>33 DEF PeriodicStamp
  <1>34. CASE Delist
    BY <1>34 DEF Delist
  <1>35. CASE Relist
    <2>1. delisted' \in BOOLEAN
      BY <1>35, Zenon DEF Relist
    <2>2. QED
      BY <1>35, <2>1 DEF Relist
  <1>36. CASE UNCHANGED vars
    BY <1>36 DEF vars
  <1>37. QED
    BY <1>1, <1>2, <1>3, <1>4, <1>5, <1>6, <1>7, <1>8, <1>9, <1>10, <1>11, <1>12, <1>13, <1>14, <1>15, <1>16, <1>17, <1>18, <1>19, <1>20, <1>21, <1>22, <1>23, <1>24, <1>25, <1>26, <1>27, <1>28, <1>29, <1>30, <1>31, <1>32, <1>33, <1>34, <1>35, <1>36
       DEF Next, Manage, LiveLoop, Sweep, Periodic

\* Nothing is there when the manager starts.
LEMMA InitType == Init => TypeOK
  <1> SUFFICES ASSUME Init PROVE TypeOK
    OBVIOUS
  <1>1. /\ connected \in BOOLEAN /\ idle \in BOOLEAN /\ bridging \in BOOLEAN
        /\ stale \in BOOLEAN /\ stamped \in BOOLEAN /\ delisted \in BOOLEAN
    BY Zenon DEF Init
  <1>2. QED
    BY <1>1, IdFacts DEF Init, TypeOK, OrderbookState, ManagePc

\* The state of a symbol is always well formed: states, task places and
\* reasons are the ones the code names, and the live loop holds drained
\* diffs exactly while it is applying them.
THEOREM TypeCorrect == Spec => []TypeOK
  BY InitType, TypeStep, PTL DEF Spec

-----------------------------------------------------------------------------
(***************************************************************************)
(* Which steps move the book and the state.                                *)
(***************************************************************************)

\* All the definitions a step consists of.
USE DEF streamVars, manageVars, liveVars, sideVars

\* The book is touched by a snapshot, by applying a diff and by teardown.
LEMMA BookSteps ==
    ASSUME [Next]_vars
    PROVE  \/ book' = book
           \/ FetchOk \/ AttachApply \/ LiveApply
           \/ ManageDelisted \/ SweepRemove
  <1>1. CASE Manage
    BY <1>1 DEF Manage, ManageInitializing, ManageCooldown, StartFetch,
       FetchErr, SnapshotWritten, SnapshotWriteErr, EndBackoff, BridgeTimeout,
       DrainForAttach, SnapshotTooOld, NoBridge, FoundBridge, AttachGap,
       AttachDone, GoLive, BridgeSnapshotWritten, BridgeSnapshotWriteErr
  <1>2. CASE LiveLoop
    BY <1>2 DEF LiveLoop, LiveList, LiveDrain
  <1>3. CASE Sweep
    BY <1>3 DEF Sweep, GoIdle, SweepCollect
  <1>4. CASE Periodic
    BY <1>4 DEF Periodic, PeriodicList, PeriodicTurn, PeriodicStamp
  <1>5. CASE Connect \/ Disconnect \/ ReceiveDiff \/ LoseDiff \/ Delist \/ Relist
    BY <1>5 DEF Connect, Disconnect, ReceiveDiff, LoseDiff, Delist, Relist
  <1>6. CASE UNCHANGED vars
    BY <1>6 DEF vars
  <1>7. QED
    BY <1>1, <1>2, <1>3, <1>4, <1>5, <1>6 DEF Next

\* Nobody but the exchange issues diffs, and it never takes one back.
LEMMA IssuedGrows ==
    ASSUME TypeOK, [Next]_vars
    PROVE  issued' \in Nat /\ issued <= issued'
  <1>0. issued \in Nat
    BY IdFacts DEF TypeOK
  <1>1. CASE Manage
    BY <1>0, <1>1 DEF Manage, ManageDelisted, ManageInitializing,
       ManageCooldown, StartFetch, FetchOk, FetchErr, SnapshotWritten,
       SnapshotWriteErr, EndBackoff, BridgeTimeout, DrainForAttach,
       SnapshotTooOld, NoBridge, FoundBridge, AttachApply, AttachGap,
       AttachDone, GoLive, BridgeSnapshotWritten, BridgeSnapshotWriteErr
  <1>2. CASE LiveLoop
    BY <1>0, <1>2 DEF LiveLoop, LiveList, LiveDrain, LiveApply
  <1>3. CASE Sweep
    BY <1>0, <1>3 DEF Sweep, GoIdle, SweepCollect, SweepRemove
  <1>4. CASE Periodic
    BY <1>0, <1>4 DEF Periodic, PeriodicList, PeriodicTurn, PeriodicStamp
  <1>5. CASE Connect \/ Disconnect \/ ReceiveDiff \/ LoseDiff \/ Delist \/ Relist
    BY <1>0, <1>5 DEF Connect, Disconnect, ReceiveDiff, LoseDiff, Delist, Relist
  <1>6. CASE UNCHANGED vars
    BY <1>0, <1>6 DEF vars
  <1>7. QED
    BY <1>1, <1>2, <1>3, <1>4, <1>5, <1>6 DEF Next

\* Only teardown, by delisting or by the sweep, takes a symbol out of Live.
LEMMA LiveEnds ==
    ASSUME PlaceInv, [Next]_vars, state = "Live", state' # "Live"
    PROVE  ManageDelisted \/ SweepRemove
  <1>1. CASE Manage
    BY <1>1 DEF PlaceInv, Manage, ManageInitializing, ManageCooldown,
       StartFetch, FetchOk, FetchErr, SnapshotWritten, SnapshotWriteErr,
       EndBackoff, BridgeTimeout, DrainForAttach, SnapshotTooOld, NoBridge,
       FoundBridge, AttachApply, AttachGap, AttachDone, GoLive,
       BridgeSnapshotWritten, BridgeSnapshotWriteErr
  <1>2. CASE LiveLoop
    BY <1>2 DEF LiveLoop, LiveList, LiveDrain, LiveApply
  <1>3. CASE Sweep
    BY <1>3 DEF Sweep, GoIdle, SweepCollect
  <1>4. CASE Periodic
    BY <1>4 DEF Periodic, PeriodicList, PeriodicTurn, PeriodicStamp
  <1>5. CASE Connect \/ Disconnect \/ ReceiveDiff \/ LoseDiff \/ Delist \/ Relist
    BY <1>5 DEF Connect, Disconnect, ReceiveDiff, LoseDiff, Delist, Relist
  <1>6. CASE UNCHANGED vars
    BY <1>6 DEF vars
  <1>7. QED
    BY <1>1, <1>2, <1>3, <1>4, <1>5, <1>6 DEF Next

\* A diff applied to a book that is there overlays it.
LEMMA ApplyDiffBook ==
    ASSUME book \in Orderbook \cup {NoBook}, book # NoBook, NEW n \in Diffs,
           ApplyDiff(n)
    PROVE  /\ book \in Orderbook
           /\ book' = Overlay(book, n)
           /\ book' \in Orderbook
           /\ book' # NoBook
           /\ book'.id = FinalId[n]
           /\ idle' = FALSE
  BY OverlayType, NoBookAssumption DEF ApplyDiff

-----------------------------------------------------------------------------
(***************************************************************************)
(* The inductive invariant, one lemma per part.  Without a two-hour silence*)
(* no book is ever idle, so the sweep never runs.                          *)
(***************************************************************************)

\* Where manage_symbol stands, and what that says of the other tasks.
LEMMA PlaceStep ==
    ASSUME ~LongSilence, TypeOK, PlaceInv, [Next]_vars
    PROVE  PlaceInv'
  <1> USE DEF PlaceInv
  <1>1. CASE ManageDelisted
    BY <1>1 DEF ManageDelisted, RemoveSymbolState
  <1>2. CASE ManageInitializing
    BY <1>2 DEF ManageInitializing
  <1>3. CASE ManageCooldown
    BY <1>3 DEF ManageCooldown
  <1>4. CASE StartFetch
    BY <1>4 DEF StartFetch
  <1>5. CASE FetchOk
    <2>1. \A b \in Snapshots(issued) : b # NoBook
      BY SnapshotFacts, NoBookAssumption DEF TypeOK
    <2>2. QED
      BY <1>5, <2>1 DEF FetchOk
  <1>6. CASE FetchErr
    BY <1>6 DEF FetchErr
  <1>7. CASE SnapshotWritten
    BY <1>7 DEF SnapshotWritten
  <1>8. CASE SnapshotWriteErr
    BY <1>8 DEF SnapshotWriteErr
  <1>9. CASE EndBackoff
    BY <1>9 DEF EndBackoff
  <1>10. CASE BridgeTimeout
    BY <1>10 DEF BridgeTimeout, TriggerResnapshot
  <1>11. CASE DrainForAttach
    BY <1>11 DEF DrainForAttach
  <1>12. CASE SnapshotTooOld
    BY <1>12 DEF SnapshotTooOld, TriggerResnapshot
  <1>13. CASE NoBridge
    BY <1>13 DEF NoBridge
  <1>14. CASE FoundBridge
    BY <1>14 DEF FoundBridge
  <1>15. CASE AttachApply
    <2>1. PICK n \in queue : ApplyDiff(n)
      BY <1>15 DEF AttachApply
    <2>2. n \in Diffs /\ book \in Orderbook \cup {NoBook}
      BY IdFacts DEF TypeOK
    <2>3. /\ book = NoBook => book' = NoBook /\ idle' = idle
          /\ book # NoBook => book' # NoBook /\ idle' = FALSE
      BY <2>1, <2>2, ApplyDiffBook DEF ApplyDiff
    <2>4. QED
      BY <1>15, <2>3 DEF AttachApply, TypeOK
  <1>16. CASE AttachGap
    BY <1>16 DEF AttachGap
  <1>17. CASE AttachDone
    BY <1>17 DEF AttachDone
  <1>18. CASE GoLive
    BY <1>18 DEF GoLive
  <1>19. CASE BridgeSnapshotWritten
    BY <1>19 DEF BridgeSnapshotWritten
  <1>20. CASE BridgeSnapshotWriteErr
    BY <1>20 DEF BridgeSnapshotWriteErr
  <1>21. CASE Connect
    BY <1>21 DEF Connect
  <1>22. CASE Disconnect
    BY <1>22 DEF Disconnect
  <1>23. CASE ReceiveDiff
    BY <1>23 DEF ReceiveDiff
  <1>24. CASE LoseDiff
    BY <1>24 DEF LoseDiff
  <1>25. CASE LiveList
    BY <1>25 DEF LiveList
  <1>26. CASE LiveDrain
    BY <1>26 DEF LiveDrain, TypeOK
  <1>27. CASE LiveApply
    <2>1. PICK n \in updates : ApplyDiff(n)
      BY <1>27 DEF LiveApply
    <2>2. n \in Diffs /\ book \in Orderbook \cup {NoBook}
      BY IdFacts DEF TypeOK
    <2>3. /\ book = NoBook => book' = NoBook /\ idle' = idle
          /\ book # NoBook => book' # NoBook /\ idle' = FALSE
      BY <2>1, <2>2, ApplyDiffBook DEF ApplyDiff
    <2>4. QED
      BY <1>27, <2>3 DEF LiveApply, TypeOK
  <1>28. CASE PeriodicList
    BY <1>28 DEF PeriodicList
  <1>29. CASE PeriodicTurn
    BY <1>29 DEF PeriodicTurn
  <1>30. CASE PeriodicStamp
    BY <1>30 DEF PeriodicStamp
  <1>31. CASE Delist
    BY <1>31 DEF Delist
  <1>32. CASE Relist
    BY <1>32 DEF Relist
  <1>33. CASE Sweep
    BY <1>33 DEF Sweep, GoIdle, SweepCollect, SweepRemove
  <1>34. CASE UNCHANGED vars
    BY <1>34 DEF vars
  <1>35. QED
    BY <1>1, <1>2, <1>3, <1>4, <1>5, <1>6, <1>7, <1>8, <1>9, <1>10, <1>11,
       <1>12, <1>13, <1>14, <1>15, <1>16, <1>17, <1>18, <1>19, <1>20, <1>21,
       <1>22, <1>23, <1>24, <1>25, <1>26, <1>27, <1>28, <1>29, <1>30, <1>31,
       <1>32, <1>33, <1>34
       DEF Next, Manage, LiveLoop, Periodic

\* The book holds nothing the exchange has not emitted.
LEMMA KnownStep ==
    ASSUME ~LongSilence, TypeOK, PlaceInv, BookKnown, [Next]_vars
    PROVE  BookKnown'
  <1>0. issued \in 0..NumDiffs /\ issued' \in Nat /\ issued <= issued'
    BY IssuedGrows DEF TypeOK
  <1>1. CASE book' = book
    BY <1>0, <1>1, IdFacts DEF BookKnown
  <1>2. CASE FetchOk
    BY <1>0, <1>2, SnapshotFacts DEF FetchOk, BookKnown
  <1>3. ASSUME NEW n \in 1..issued, ApplyDiff(n)
        PROVE  BookKnown'
    <2>1. n \in Diffs /\ book \in Orderbook \cup {NoBook}
      BY <1>0, IdFacts DEF TypeOK
    <2>2. CASE book = NoBook
      BY <1>1, <1>3, <2>2 DEF ApplyDiff
    <2>3. CASE book # NoBook
      <3>1. book'.id = FinalId[n]
        BY <1>3, <2>1, <2>3, ApplyDiffBook
      <3>2. \A m \in Diffs : FinalId[m] <= FinalId[n] => m <= n
        BY <2>1, IdFacts
      <3>3. QED
        BY <1>0, <3>1, <3>2, IdFacts DEF BookKnown
    <2>4. QED
      BY <2>2, <2>3
  <1>4. CASE AttachApply
    BY <1>3, <1>4 DEF AttachApply, TypeOK
  <1>5. CASE LiveApply
    BY <1>3, <1>5 DEF LiveApply, TypeOK
  <1>6. CASE ManageDelisted
    BY <1>6 DEF ManageDelisted, RemoveSymbolState, BookKnown
  <1>7. CASE SweepRemove
    BY <1>7 DEF SweepRemove, PlaceInv
  <1>8. QED
    BY <1>1, <1>2, <1>4, <1>5, <1>6, <1>7, BookSteps

\* The next diff of an attach always continues the book it is applied to.
LEMMA AttachContinues ==
    ASSUME TypeOK, PlaceInv, ChainInv, AttachApply
    PROVE  \E n \in queue :
              /\ IsFront(n, queue) /\ n \in Diffs
              /\ book \in Orderbook /\ book # NoBook
              /\ PrevId(n) <= book.id /\ book.id < FinalId[n]
              /\ book' = Overlay(book, n)
              /\ lastU' = FinalId[n]
              /\ queue' = queue \ {n}
  <1>1. PICK n \in queue :
           /\ IsFront(n, queue)
           /\ bridging \/ PrevId(n) = lastU
           /\ ApplyDiff(n)
           /\ lastU' = FinalId[n]
           /\ queue' = queue \ {n}
    BY DEF AttachApply
  <1>2. pc = "apply"
    BY DEF AttachApply
  <1>3. book \in Orderbook /\ book # NoBook
    BY <1>2 DEF TypeOK, PlaceInv
  <1>4. n \in Diffs
    BY IdFacts DEF TypeOK
  <1>5. lastU = book.id /\ lastU \in Nat
    BY <1>2 DEF ChainInv, TypeOK
  <1>6. PrevId(n) <= lastU /\ lastU < FinalId[n]
    <2>1. CASE bridging
      BY <1>1, <1>2, <2>1 DEF ChainInv
    <2>2. CASE ~bridging
      <3>1. PrevId(n) = lastU
        BY <1>1, <2>2
      <3>2. lastU < FinalId[n]
        BY <1>2, <2>2 DEF ChainInv
      <3>3. QED
        BY <1>5, <3>1, <3>2
    <2>3. QED
      BY <2>1, <2>2
  <1>7. book' = Overlay(book, n)
    BY <1>1, <1>3, <1>4, ApplyDiffBook
  <1>8. PrevId(n) <= book.id /\ book.id < FinalId[n]
    BY <1>5, <1>6
  <1> WITNESS n \in queue
  <1>9. QED
    BY <1>1, <1>3, <1>4, <1>7, <1>8

\* The book that is not Live stays the exchange's own.
LEMMA ExactStep ==
    ASSUME ~LongSilence, TypeOK, PlaceInv, ChainInv, SyncExact, [Next]_vars
    PROVE  SyncExact'
  <1>1. CASE book' = book
    <2>1. state' # "Live" /\ book # NoBook => state # "Live"
      <3>1. ManageDelisted => book' = NoBook
        BY DEF ManageDelisted, RemoveSymbolState
      <3>2. ~SweepRemove
        BY DEF SweepRemove, PlaceInv
      <3>3. QED
        BY <1>1, <3>1, <3>2, LiveEnds
    <2>2. QED
      BY <1>1, <2>1 DEF SyncExact
  <1>2. CASE FetchOk
    BY <1>2, SnapshotFacts DEF FetchOk, SyncExact, TypeOK
  <1>3. CASE AttachApply
    <2>1. PICK n \in queue :
             /\ n \in Diffs /\ book \in Orderbook /\ book # NoBook
             /\ PrevId(n) <= book.id /\ book.id < FinalId[n]
             /\ book' = Overlay(book, n)
      BY <1>3, AttachContinues
    <2>2. state # "Live"
      BY <1>3 DEF AttachApply, PlaceInv
    <2>3. Exact(book)
      BY <2>1, <2>2 DEF SyncExact
    <2>4. Exact(Overlay(book, n))
      BY <2>1, <2>3, OverlayExact
    <2>5. QED
      BY <2>1, <2>4 DEF SyncExact
  <1>4. CASE LiveApply
    <2>1. state' = state /\ live = "applying"
      BY <1>4 DEF LiveApply
    <2>2. state = "Live" \/ book = NoBook
      BY <2>1 DEF PlaceInv
    <2>3. book = NoBook => book' = NoBook
      BY <1>4 DEF LiveApply, ApplyDiff
    <2>4. QED
      BY <2>1, <2>2, <2>3 DEF SyncExact
  <1>5. CASE ManageDelisted
    BY <1>5 DEF ManageDelisted, RemoveSymbolState, SyncExact
  <1>6. CASE SweepRemove
    BY <1>6 DEF SweepRemove, PlaceInv
  <1>7. QED
    BY <1>1, <1>2, <1>3, <1>4, <1>5, <1>6, BookSteps

\* The attach: the book is at last_u, and the next diff continues it.
LEMMA ChainStep ==
    ASSUME ~LongSilence, TypeOK, PlaceInv, ChainInv, [Next]_vars
    PROVE  ChainInv'
  <1> SUFFICES ASSUME pc' = "apply"
               PROVE  /\ lastU' = book'.id
                      /\ bridging' =>
                            /\ queue' # {}
                            /\ \A n \in queue' :
                                  IsFront(n, queue') =>
                                      PrevId(n) <= lastU' /\ lastU' < FinalId[n]
                      /\ ~bridging' => \A n \in queue' : lastU' < FinalId[n]
    BY DEF ChainInv
  <1>1. CASE FoundBridge
    <2>1. book \in Orderbook /\ SnapshotU = book.id /\ SnapshotU \in Nat
      BY <1>1 DEF FoundBridge, PlaceInv, TypeOK, SnapshotU, Orderbook
    <2>2. PICK b \in queue : /\ IsFront(b, Bridges(SnapshotU, queue))
                             /\ queue' = {n \in queue : b <= n}
      BY <1>1 DEF FoundBridge
    <2>3. queue \subseteq Diffs
      BY IdFacts DEF TypeOK
    <2>4. PrevId(b) <= SnapshotU /\ SnapshotU < FinalId[b]
      BY <2>1, <2>2, <2>3, IdFacts DEF IsFront, Bridges
    <2>5. \A n \in queue' : IsFront(n, queue') => n = b
      BY <2>2, <2>3, IdFacts DEF IsFront
    <2>6. lastU' = SnapshotU /\ book' = book /\ bridging' = TRUE
      BY <1>1 DEF FoundBridge
    <2>7. b \in queue'
      BY <2>2, <2>3, IdFacts
    <2>8. QED
      BY <2>1, <2>4, <2>5, <2>6, <2>7
  <1>2. CASE AttachApply
    <2>1. PICK n \in queue :
             /\ IsFront(n, queue) /\ n \in Diffs
             /\ book \in Orderbook
             /\ book' = Overlay(book, n)
             /\ lastU' = FinalId[n]
             /\ queue' = queue \ {n}
      BY <1>2, AttachContinues
    <2>2. bridging' = FALSE
      BY <1>2 DEF AttachApply
    <2>3. book'.id = FinalId[n]
      BY <2>1, OverlayType
    <2>4. \A m \in queue' : m \in Diffs /\ n < m
      BY <2>1, IdFacts DEF IsFront, TypeOK
    <2>5. \A m \in queue' : lastU' < FinalId[m]
      BY <2>1, <2>4, IdFacts
    <2>6. QED
      BY <2>1, <2>2, <2>3, <2>5
  <1>3. CASE LiveApply
    BY <1>3 DEF LiveApply, PlaceInv
  <1>4. CASE UNCHANGED <<pc, book, queue, lastU, bridging>>
    BY <1>4 DEF ChainInv
  <1>5. CASE Manage
    BY <1>1, <1>2, <1>5 DEF Manage, ManageDelisted, ManageInitializing,
       ManageCooldown, StartFetch, FetchOk, FetchErr, SnapshotWritten,
       SnapshotWriteErr, EndBackoff, BridgeTimeout, DrainForAttach,
       SnapshotTooOld, NoBridge, AttachGap, AttachDone, GoLive,
       BridgeSnapshotWritten, BridgeSnapshotWriteErr
  <1>6. CASE LiveList \/ LiveDrain
    BY <1>4, <1>6 DEF LiveList, LiveDrain
  <1>7. CASE Sweep
    BY <1>4, <1>7 DEF Sweep, GoIdle, SweepCollect, SweepRemove, PlaceInv
  <1>8. CASE Periodic
    BY <1>4, <1>8 DEF Periodic, PeriodicList, PeriodicTurn, PeriodicStamp
  <1>9. CASE Connect \/ Disconnect \/ ReceiveDiff \/ LoseDiff \/ Delist \/ Relist
    BY <1>4, <1>9 DEF Connect, Disconnect, ReceiveDiff, LoseDiff, Delist, Relist
  <1>10. CASE UNCHANGED vars
    BY <1>4, <1>10 DEF vars
  <1>11. QED
    BY <1>3, <1>5, <1>6, <1>7, <1>8, <1>9, <1>10 DEF Next, LiveLoop

\* A diff that arrives is newer than everything drained and than the book.
LEMMA OrderReceive ==
    ASSUME TypeOK, PlaceInv, BookKnown, ChainInv, OrderInv, ReceiveDiff
    PROVE  OrderInv'
  <1>0. issued + 1 \in Diffs /\ issued \in 0..NumDiffs
    BY IdFacts DEF ReceiveDiff, TypeOK
  <1>1. buffer' \subseteq buffer \cup {issued + 1}
    BY DEF ReceiveDiff
  <1>2. UNCHANGED <<pc, book, state, queue, updates, lastU, bridging>>
    BY DEF ReceiveDiff
  <1>3. \A n \in queue \cup updates : n < issued + 1
    BY <1>0, IdFacts DEF TypeOK
  <1>4. book # NoBook => book.id < FinalId[issued + 1]
    BY <1>0, IdFacts DEF BookKnown, TypeOK, Orderbook
  <1>5. pc = "apply" => lastU = book.id
    BY DEF ChainInv
  <1>6. pc \in {"apply", "golive"} \/ state = "Live" => book # NoBook
    BY DEF PlaceInv
  <1>7. \A n \in queue' \cup updates', m \in buffer' : n < m
    BY <1>1, <1>2, <1>3 DEF OrderInv
  <1>8. pc' = "apply" /\ ~bridging' => \A m \in buffer' : lastU' < FinalId[m]
    BY <1>1, <1>2, <1>4, <1>5, <1>6 DEF OrderInv
  <1>9. pc' = "golive" => \A m \in buffer' : book'.id < FinalId[m]
    BY <1>1, <1>2, <1>4, <1>6 DEF OrderInv
  <1>10. state' = "Live" => \A m \in buffer' \cup updates' : book'.id < FinalId[m]
    <2>1. CASE state = "Live"
      <3>1. \A m \in updates : book.id < FinalId[m]
        BY <2>1 DEF OrderInv
      <3>2. \A m \in buffer' : book.id < FinalId[m]
        BY <1>1, <1>4, <1>6, <2>1 DEF OrderInv
      <3>3. QED
        BY <1>2, <3>1, <3>2
    <2>2. QED
      BY <1>2, <2>1
  <1>11. QED
    BY <1>7, <1>8, <1>9, <1>10 DEF OrderInv

\* What waits is newer than what was drained, and than a book that is Live
\* or about to be.
LEMMA OrderStep ==
    ASSUME ~LongSilence, TypeOK, PlaceInv, BookKnown, ChainInv, OrderInv,
           [Next]_vars
    PROVE  OrderInv'
  <1>0. queue \subseteq Diffs /\ updates \subseteq Diffs /\ buffer \subseteq Diffs
    BY IdFacts DEF TypeOK
  <1>1. CASE ReceiveDiff
    BY <1>1, OrderReceive
  <1>2. CASE DrainForAttach
    BY <1>2 DEF DrainForAttach, OrderInv, PlaceInv, TypeOK
  <1>3. CASE FoundBridge
    <2>1. queue' \subseteq queue /\ bridging'
      BY <1>3 DEF FoundBridge
    <2>2. QED
      BY <1>3, <2>1 DEF FoundBridge, OrderInv, PlaceInv
  <1>4. CASE AttachApply
    <2>1. PICK n \in queue :
             /\ n \in Diffs
             /\ lastU' = FinalId[n]
             /\ queue' = queue \ {n}
      BY <1>4, AttachContinues
    <2>2. \A m \in buffer : n < m /\ FinalId[n] < FinalId[m]
      BY <1>0, <2>1, IdFacts DEF OrderInv
    <2>3. QED
      BY <1>4, <2>1, <2>2 DEF AttachApply, OrderInv, PlaceInv
  <1>5. CASE AttachDone
    <2>1. ~bridging /\ lastU = book.id
      BY <1>5 DEF AttachDone, ChainInv
    <2>2. QED
      BY <1>5, <2>1 DEF AttachDone, OrderInv, PlaceInv
  <1>6. CASE GoLive
    <2>1. updates = {}
      BY <1>6 DEF GoLive, PlaceInv, TypeOK
    <2>2. QED
      BY <1>6, <2>1 DEF GoLive, OrderInv
  <1>7. CASE LiveDrain
    BY <1>7 DEF LiveDrain, OrderInv, PlaceInv
  <1>8. CASE LiveApply
    <2>1. PICK n \in updates :
             /\ IsFront(n, updates) /\ n \in Diffs
             /\ ApplyDiff(n)
             /\ updates' = updates \ {n}
      BY <1>0, <1>8 DEF LiveApply
    <2>2. UNCHANGED <<buffer, queue, pc, state, lastU, bridging>>
      BY <1>8 DEF LiveApply
    <2>3. pc \notin {"apply", "golive"}
      BY <1>8 DEF LiveApply, PlaceInv
    <2>4. \A m \in buffer \cup updates' : n < m /\ FinalId[n] < FinalId[m]
      BY <1>0, <2>1, IdFacts DEF OrderInv, IsFront
    <2>5. state = "Live" => book'.id = FinalId[n]
      BY <2>1, ApplyDiffBook DEF PlaceInv, TypeOK
    <2>6. QED
      BY <2>1, <2>2, <2>3, <2>4, <2>5 DEF OrderInv
  <1>9. CASE ManageDelisted
    BY <1>9 DEF ManageDelisted, RemoveSymbolState, OrderInv
  <1>10. CASE FetchOk
    BY <1>10 DEF FetchOk, OrderInv, PlaceInv
  <1>11. CASE SnapshotTooOld \/ NoBridge \/ AttachGap
    BY <1>11 DEF SnapshotTooOld, TriggerResnapshot, NoBridge, AttachGap,
       OrderInv, PlaceInv
  <1>12. CASE ManageInitializing \/ ManageCooldown \/ StartFetch \/ FetchErr
              \/ SnapshotWritten \/ SnapshotWriteErr \/ EndBackoff
              \/ BridgeTimeout \/ BridgeSnapshotWritten
              \/ BridgeSnapshotWriteErr
    BY <1>12 DEF ManageInitializing, ManageCooldown, StartFetch, FetchErr,
       SnapshotWritten, SnapshotWriteErr, EndBackoff, BridgeTimeout,
       TriggerResnapshot, BridgeSnapshotWritten, BridgeSnapshotWriteErr,
       OrderInv
  <1>13. CASE UNCHANGED <<buffer, queue, updates, pc, state, book, lastU, bridging>>
    BY <1>13 DEF OrderInv
  <1>14. CASE LiveList \/ Periodic \/ Connect \/ Disconnect \/ LoseDiff
              \/ Delist \/ Relist
    BY <1>13, <1>14 DEF LiveList, Periodic, PeriodicList, PeriodicTurn,
       PeriodicStamp, Connect, Disconnect, LoseDiff, Delist, Relist
  <1>15. CASE Sweep
    BY <1>13, <1>15 DEF Sweep, GoIdle, SweepCollect, SweepRemove, PlaceInv
  <1>16. CASE UNCHANGED vars
    BY <1>13, <1>16 DEF vars
  <1>17. QED
    BY <1>1, <1>2, <1>3, <1>4, <1>5, <1>6, <1>7, <1>8, <1>9, <1>10, <1>11,
       <1>12, <1>14, <1>15, <1>16 DEF Next, Manage, LiveLoop

-----------------------------------------------------------------------------
(***************************************************************************)
(* The theorems.                                                           *)
(***************************************************************************)

\* The invariant holds when the symbol starts.
LEMMA SyncInit == Init => SyncInv
  <1> SUFFICES ASSUME Init PROVE SyncInv
    OBVIOUS
  <1>1. TypeOK
    BY InitType
  <1>2. ~idle /\ ~stale
    BY Zenon DEF Init
  <1>3. QED
    BY <1>1, <1>2 DEF Init, SyncInv, PlaceInv, BookKnown, ChainInv, OrderInv,
       SyncExact

\* Every step keeps it: the parts above, put together.
LEMMA SyncStep ==
    ASSUME ~LongSilence
    PROVE  SyncInv /\ [Next]_vars => SyncInv'
  BY TypeStep, PlaceStep, KnownStep, ChainStep, OrderStep, ExactStep
     DEF SyncInv

\* As long as the stream is never silent for two hours, the inductive
\* invariant of the symbol holds in every reachable state.
THEOREM SyncInvariant ==
    ASSUME ~LongSilence
    PROVE  Spec => []SyncInv
  BY SyncInit, SyncStep, PTL DEF Spec

\* The book of a symbol that is not Live yet is the exchange's own book at
\* its update id, whatever was dropped, evicted or half applied on the way.
THEOREM SyncExactAlways ==
    ASSUME ~LongSilence
    PROVE  Spec => []SyncExact
  <1>1. SyncInv => SyncExact
    BY DEF SyncInv
  <1>2. QED
    BY <1>1, SyncInvariant, PTL

\* The attach and the live loop never hold drained diffs at the same time.
THEOREM OneDrainerAlways ==
    ASSUME ~LongSilence
    PROVE  Spec => []OneDrainer
  <1>1. SyncInv => OneDrainer
    BY DEF SyncInv, PlaceInv, OneDrainer
  <1>2. QED
    BY <1>1, SyncInvariant, PTL

\* A Live symbol has a book.
THEOREM LiveHasBookAlways ==
    ASSUME ~LongSilence
    PROVE  Spec => []LiveHasBook
  <1>1. SyncInv => LiveHasBook
    BY DEF SyncInv, PlaceInv, LiveHasBook
  <1>2. QED
    BY <1>1, SyncInvariant, PTL

\* The live book never goes back to an earlier update id.
THEOREM LiveForwardAlways ==
    ASSUME ~LongSilence
    PROVE  Spec => LiveForward
  <1>1. SyncInv /\ [Next]_vars =>
            [state = "Live" /\ state' = "Live" =>
                 book' = book \/ book'.id > book.id]_vars
    <2> SUFFICES ASSUME SyncInv, [Next]_vars, state = "Live", state' = "Live"
                 PROVE  book' = book \/ book'.id > book.id
      OBVIOUS
    <2>1. CASE LiveApply
      <3>1. PICK n \in updates : ApplyDiff(n)
        BY <2>1 DEF LiveApply
      <3>2. n \in Diffs /\ book \in Orderbook /\ book # NoBook
        BY IdFacts DEF SyncInv, TypeOK, PlaceInv
      <3>3. book'.id = FinalId[n]
        BY <3>1, <3>2, ApplyDiffBook
      <3>4. book.id < FinalId[n]
        BY DEF SyncInv, OrderInv
      <3>5. QED
        BY <3>2, <3>3, <3>4, IdFacts DEF Orderbook
    <2>2. ~FetchOk /\ ~AttachApply
      BY DEF FetchOk, AttachApply, SyncInv, PlaceInv
    <2>3. ~ManageDelisted /\ ~SweepRemove
      BY DEF ManageDelisted, SweepRemove, RemoveSymbolState
    <2>4. QED
      BY <2>1, <2>2, <2>3, BookSteps
  <1>2. QED
    BY <1>1, SyncInvariant, PTL DEF Spec, LiveForward

\* Without the sweep nothing but a delisting takes a symbol out of Live.
THEOREM LiveStaysAlways ==
    ASSUME ~LongSilence
    PROVE  Spec => LiveStays
  <1>1. SyncInv /\ [Next]_vars =>
            [state = "Live" => state' = "Live" \/ delisted]_vars
    <2> SUFFICES ASSUME SyncInv, [Next]_vars, state = "Live", state' # "Live"
                 PROVE  delisted
      OBVIOUS
    <2>1. ~SweepRemove
      BY DEF SweepRemove, SyncInv, PlaceInv
    <2>2. QED
      BY <2>1, LiveEnds DEF ManageDelisted, SyncInv
  <1>2. QED
    BY <1>1, SyncInvariant, PTL DEF Spec, LiveStays

\* BookFeed speaks of the same stream and the same books.
LEMMA SameStream ==
    /\ Feed!Diffs = Diffs
    /\ Feed!Orderbook = Orderbook
    /\ \A b : Feed!Exact(b) <=> Exact(b)
    /\ \A b, n : Feed!Overlay(b, n) = Overlay(b, n)
  BY DEF Feed!Diffs, Feed!Orderbook, Orderbook, Feed!Exact, Exact,
     Feed!Covers, Covers, Feed!IsCurrent, IsCurrent, Feed!Overlay, Overlay

\* The symbol implements the promise its consumers rely on: the feed is
\* switched on with the exchange's own book, and from then on moves by
\* overlaying later diffs only.
THEOREM SyncImplementsFeed ==
    ASSUME ~LongSilence
    PROVE  Spec => FeedRefined
  <1> DEFINE feed == IF state = "Live" THEN book ELSE NoBook
  <1>1. Init => Feed!FeedInit
    BY DEF Init, Feed!FeedInit
  <1>2. SyncInv /\ [Next]_vars => [Feed!FeedNext]_(Feed!feedVars)
    <2> SUFFICES ASSUME SyncInv, [Next]_vars
                 PROVE  [Feed!FeedNext]_(Feed!feedVars)
      OBVIOUS
    <2> USE DEF Feed!FeedNext, Feed!feedVars
    <2>0. /\ issued \in 0..NumDiffs /\ updates \subseteq 1..issued
          /\ book \in Orderbook \cup {NoBook}
          /\ state = "Live" => book \in Orderbook /\ book # NoBook
      BY DEF SyncInv, TypeOK, PlaceInv
    <2>1. CASE ReceiveDiff \/ LoseDiff
      BY <2>1 DEF ReceiveDiff, LoseDiff, Feed!Publish
    <2>2. CASE GoLive
      <3>1. state = "Syncing" /\ book # NoBook /\ Exact(book)
        BY <2>2 DEF GoLive, SyncInv, PlaceInv, SyncExact
      <3>2. \A n \in Diffs : FinalId[n] <= book.id => n <= issued
        BY <3>1 DEF SyncInv, BookKnown
      <3>3. state' = "Live" /\ book' = book /\ issued' = issued
        BY <2>2 DEF GoLive
      <3>4. Feed!SwitchOn
        BY <2>0, <3>1, <3>2, <3>3, SameStream DEF Feed!SwitchOn
      <3>5. QED
        BY <3>4
    <2>3. CASE LiveApply
      <3>1. PICK n \in updates : ApplyDiff(n)
        BY <2>3 DEF LiveApply
      <3>2. state' = state /\ issued' = issued
        BY <2>3 DEF LiveApply
      <3>3. CASE state = "Live"
        <4>1. n \in Diffs /\ n \in 1..issued
          BY <2>0, IdFacts
        <4>2. book' = Overlay(book, n)
          BY <2>0, <3>1, <3>3, <4>1, ApplyDiffBook
        <4>3. book.id < FinalId[n]
          BY <3>3 DEF SyncInv, OrderInv
        <4>4. Feed!Advance
          BY <2>0, <3>2, <3>3, <4>1, <4>2, <4>3, SameStream DEF Feed!Advance
        <4>5. QED
          BY <4>4
      <3>4. CASE state # "Live"
        BY <3>2, <3>4
      <3>5. QED
        BY <3>3, <3>4
    <2>4. CASE ManageDelisted
      BY <2>0, <2>4 DEF ManageDelisted, RemoveSymbolState, Feed!SwitchOff
    <2>5. CASE Manage /\ ~ManageDelisted /\ ~GoLive
      <3>1. (state # "Live" /\ state' # "Live") \/ UNCHANGED <<state, book>>
        BY <2>5 DEF SyncInv, PlaceInv, Manage, ManageInitializing,
           ManageCooldown, StartFetch, FetchOk, FetchErr, SnapshotWritten,
           SnapshotWriteErr, EndBackoff, BridgeTimeout, TriggerResnapshot,
           DrainForAttach, SnapshotTooOld, NoBridge, FoundBridge, AttachApply,
           AttachGap, AttachDone, BridgeSnapshotWritten, BridgeSnapshotWriteErr
      <3>2. issued' = issued
        BY <2>5 DEF Manage, ManageInitializing, ManageCooldown, StartFetch,
           FetchOk, FetchErr, SnapshotWritten, SnapshotWriteErr, EndBackoff,
           BridgeTimeout, DrainForAttach, SnapshotTooOld, NoBridge,
           FoundBridge, AttachApply, AttachGap, AttachDone,
           BridgeSnapshotWritten, BridgeSnapshotWriteErr
      <3>3. QED
        BY <3>1, <3>2
    <2>6. CASE LiveList \/ LiveDrain
      BY <2>6 DEF LiveList, LiveDrain
    <2>7. CASE Sweep
      BY <2>7 DEF Sweep, GoIdle, SweepCollect, SweepRemove, SyncInv, PlaceInv
    <2>8. CASE Periodic
      BY <2>8 DEF Periodic, PeriodicList, PeriodicTurn, PeriodicStamp
    <2>9. CASE Connect \/ Disconnect \/ Delist \/ Relist
      BY <2>9 DEF Connect, Disconnect, Delist, Relist
    <2>10. CASE UNCHANGED vars
      BY <2>10 DEF vars
    <2>11. QED
      BY <2>1, <2>2, <2>3, <2>4, <2>5, <2>6, <2>7, <2>8, <2>9, <2>10
         DEF Next, LiveLoop
  <1>3. QED
    BY <1>1, <1>2, SyncInvariant, PTL DEF Spec, FeedRefined, Feed!FeedSpec

\* Teardown is final and complete with the sweep running too: once the task
\* of a delisted symbol has exited, neither the live loop nor the sweep
\* leaves a state or a book behind.
THEOREM TornDownAlways == Spec => []TornDown
  <1>1. Init => TornDown
    BY DEF Init, TornDown
  <1>2. TornDown /\ [Next]_vars => TornDown'
    <2> SUFFICES ASSUME TornDown, [Next]_vars
                 PROVE  TornDown'
      OBVIOUS
    <2> USE DEF TornDown
    <2>1. CASE Manage
      BY <2>1 DEF Manage, ManageDelisted, RemoveSymbolState,
         ManageInitializing, ManageCooldown, StartFetch, FetchOk, FetchErr,
         SnapshotWritten, SnapshotWriteErr, EndBackoff, BridgeTimeout,
         DrainForAttach, SnapshotTooOld, NoBridge, FoundBridge, AttachApply,
         AttachGap, AttachDone, GoLive, BridgeSnapshotWritten,
         BridgeSnapshotWriteErr
    <2>2. CASE LiveLoop
      BY <2>2 DEF LiveLoop, LiveList, LiveDrain, LiveApply, ApplyDiff
    <2>3. CASE Sweep
      BY <2>3 DEF Sweep, GoIdle, SweepCollect, SweepRemove, RemoveSymbolState
    <2>4. CASE Periodic
      BY <2>4 DEF Periodic, PeriodicList, PeriodicTurn, PeriodicStamp
    <2>5. CASE Connect \/ Disconnect \/ ReceiveDiff \/ LoseDiff \/ Delist \/ Relist
      BY <2>5 DEF Connect, Disconnect, ReceiveDiff, LoseDiff, Delist, Relist
    <2>6. CASE UNCHANGED vars
      BY <2>6 DEF vars
    <2>7. QED
      BY <2>1, <2>2, <2>3, <2>4, <2>5, <2>6 DEF Next
  <1>3. QED
    BY <1>1, <1>2, PTL DEF Spec

-----------------------------------------------------------------------------
(***************************************************************************)
(* The Live book heals.  The ring buffer and what was drained from it are  *)
(* the whole stream from some diff on, but for the missed ones; and a book *)
(* that is Live, or about to be, has everything after it there.            *)
(***************************************************************************)

\* The diffs still to come, and the ones that will never come.
Kept == buffer \cup queue \cup updates \cup missed

Ahead(id) == \A m \in 1..issued : id < FinalId[m] => m \in Kept

HealInv ==
    /\ queue # {} => pc \in {"bridge", "apply"}
    /\ \A n \in buffer \cup queue \cup updates, m \in 1..issued : n < m => m \in Kept
    /\ pc = "apply" => Ahead(lastU)
    /\ pc = "golive" => Ahead(book.id)
    /\ state = "Live" => Ahead(book.id)
    /\ LiveHeals

\* The diffs before n end where n's pu says.
LEMMA PrevBounds ==
    ASSUME NEW m \in Diffs, NEW n \in Diffs, m < n
    PROVE  FinalId[m] <= PrevId(n)
  <1>1. n # 1 /\ n - 1 \in Diffs /\ PrevId(n) = FinalId[n - 1]
    BY IdFacts
  <1>2. CASE m = n - 1
    BY <1>1, <1>2, IdFacts
  <1>3. CASE m < n - 1
    BY <1>1, <1>3, IdFacts
  <1>4. QED
    BY <1>2, <1>3, IdFacts

\* A step that loses nothing the buffers held and leaves the book's side
\* alone keeps the healing invariant.
LEMMA HealKept ==
    ASSUME TypeOK, HealInv, issued' = issued,
           queue' # {} => pc' \in {"bridge", "apply"},
           buffer' \cup queue' \cup updates' \subseteq buffer \cup queue \cup updates,
           \A m \in Kept : m \in Kept',
           missed' = missed,
           pc' = "apply" => pc = "apply" /\ lastU' = lastU,
           pc' = "golive" => pc = "golive" /\ book' = book,
           state' = "Live" => state = "Live" /\ book' = book
    PROVE  HealInv'
  <1>1. \A n \in buffer' \cup queue' \cup updates', m \in 1..issued' :
            n < m => m \in Kept'
    BY DEF HealInv
  <1>2. pc' = "apply" => Ahead(lastU)'
    BY DEF HealInv, Ahead
  <1>3. pc' = "golive" => Ahead(book.id)'
    BY DEF HealInv, Ahead
  <1>4. state' = "Live" => Ahead(book.id)'
    BY DEF HealInv, Ahead
  <1>5. LiveHeals'
    BY DEF HealInv, LiveHeals
  <1>6. QED
    BY <1>1, <1>2, <1>3, <1>4, <1>5 DEF HealInv

\* A diff the exchange emits is buffered or missed.
LEMMA HealEmit ==
    ASSUME TypeOK, HealInv, ReceiveDiff \/ LoseDiff
    PROVE  HealInv'
  <1>0. issued \in 0..NumDiffs /\ issued' = issued + 1 /\ NumDiffs \in Nat
    BY IdFacts DEF TypeOK, ReceiveDiff, LoseDiff
  <1>1. UNCHANGED <<state, book, pc, queue, lastU, updates>>
    BY DEF ReceiveDiff, LoseDiff
  <1>2. /\ buffer' \subseteq buffer \cup {issued + 1}
        /\ missed \subseteq missed'
        /\ buffer \cup {issued + 1} \subseteq buffer' \cup missed'
    BY DEF ReceiveDiff, LoseDiff
  <1>3. Kept \cup {issued + 1} \subseteq Kept'
    BY <1>1, <1>2 DEF Kept
  <1>4. \A m \in 1..issued' : m = issued + 1 \/ m \in 1..issued
    BY <1>0
  <1>5. \A n \in buffer' \cup queue' \cup updates', m \in 1..issued' :
            n < m => m \in Kept'
    <2>1. TAKE n \in buffer' \cup queue' \cup updates', m \in 1..issued'
    <2>2. HAVE n < m
    <2>3. CASE m = issued + 1
      BY <1>3, <2>3
    <2>4. CASE m \in 1..issued
      <3>1. n \in buffer \cup queue \cup updates
        BY <1>0, <1>1, <1>2, <2>2, <2>4
      <3>2. QED
        BY <1>3, <2>2, <2>4, <3>1 DEF HealInv
    <2>5. QED
      BY <1>4, <2>3, <2>4
  <1>6. ASSUME NEW i, Ahead(i)
        PROVE  \A m \in 1..issued' : i < FinalId[m] => m \in Kept'
    BY <1>3, <1>4, <1>6 DEF Ahead
  <1>7. LiveHeals'
    BY <1>1, <1>2 DEF HealInv, LiveHeals
  <1>8. QED
    BY <1>1, <1>5, <1>6, <1>7 DEF HealInv, Ahead

\* The bridge is the first diff the snapshot does not cover, and everything
\* from it on is still there.
LEMMA HealBridge ==
    ASSUME TypeOK, PlaceInv, OrderInv, HealInv, FoundBridge
    PROVE  HealInv'
  <1>0. /\ queue \subseteq Diffs /\ buffer \subseteq Diffs /\ 1..issued \subseteq Diffs
        /\ updates = {}
    BY IdFacts DEF TypeOK, PlaceInv, FoundBridge
  <1>1. SnapshotU \in Nat
    BY DEF TypeOK, SnapshotU, Orderbook
  <1>2. PICK f \in queue : IsFront(f, queue) /\ SnapshotU >= PrevId(f)
    BY DEF FoundBridge
  <1>3. PICK b \in queue : /\ IsFront(b, Bridges(SnapshotU, queue))
                           /\ queue' = {n \in queue : b <= n}
    BY DEF FoundBridge
  <1>4. UNCHANGED <<issued, missed, buffer, updates, state, book>>
        /\ pc' = "apply" /\ lastU' = SnapshotU
    BY DEF FoundBridge
  <1>5. PrevId(b) <= SnapshotU
    BY <1>0, <1>1, <1>3, IdFacts DEF IsFront, Bridges
  <1>6. \A m \in Kept : m \in Diffs /\ b <= m => m \in Kept'
    BY <1>3, <1>4 DEF Kept
  <1>7. \A n \in buffer' \cup queue' \cup updates', m \in 1..issued' :
            n < m => m \in Kept'
    <2>1. TAKE n \in buffer' \cup queue' \cup updates', m \in 1..issued'
    <2>2. HAVE n < m
    <2>3. n \in buffer \cup queue \cup updates /\ m \in 1..issued
      BY <1>3, <1>4
    <2>4. b <= n
      BY <1>0, <1>3, <1>4, IdFacts DEF OrderInv
    <2>5. m \in Diffs /\ n \in Diffs /\ b \in Diffs
      BY <1>0, <2>3
    <2>6. b <= m
      BY <2>2, <2>4, <2>5, IdFacts
    <2>7. m \in Kept
      BY <2>2, <2>3 DEF HealInv
    <2>8. QED
      BY <1>6, <2>5, <2>6, <2>7
  <1>8. Ahead(lastU)'
    <2> SUFFICES ASSUME NEW m \in 1..issued, SnapshotU < FinalId[m]
                 PROVE  m \in Kept'
      BY <1>4 DEF Ahead
    <2>1. m \in Diffs /\ f \in Diffs /\ b \in Diffs
      BY <1>0
    <2>2. ~(m < f) /\ ~(m < b)
      BY <1>1, <1>2, <1>5, <2>1, PrevBounds, IdFacts
    <2>3. m \in Kept
      <3>1. CASE m = f
        BY <3>1 DEF Kept
      <3>2. CASE f < m
        BY <3>2 DEF HealInv
      <3>3. QED
        BY <2>1, <2>2, <3>1, <3>2, IdFacts
    <2>4. QED
      BY <1>6, <2>1, <2>2, <2>3, IdFacts
  <1>9. state' # "Live"
    BY <1>4 DEF FoundBridge, PlaceInv
  <1>10. QED
    BY <1>4, <1>7, <1>8, <1>9 DEF HealInv, LiveHeals

\* One turn of the attach loop takes the front of what was drained.
LEMMA HealAttach ==
    ASSUME TypeOK, PlaceInv, ChainInv, OrderInv, HealInv, AttachApply
    PROVE  HealInv'
  <1>0. /\ queue \subseteq Diffs /\ buffer \subseteq Diffs /\ 1..issued \subseteq Diffs
        /\ updates = {} /\ pc = "apply" /\ state # "Live"
    BY IdFacts DEF TypeOK, PlaceInv, AttachApply
  <1>1. PICK n \in queue :
           /\ IsFront(n, queue) /\ n \in Diffs
           /\ PrevId(n) <= book.id /\ book.id < FinalId[n]
           /\ book \in Orderbook
           /\ lastU' = FinalId[n]
           /\ queue' = queue \ {n}
    BY AttachContinues
  <1>2. UNCHANGED <<issued, missed, buffer, updates, state, pc>>
    BY DEF AttachApply
  <1>3. \A m \in Kept : m # n => m \in Kept'
    BY <1>1, <1>2 DEF Kept
  <1>4. \A i \in buffer' \cup queue' \cup updates', m \in 1..issued' :
            i < m => m \in Kept'
    <2>1. TAKE i \in buffer' \cup queue' \cup updates', m \in 1..issued'
    <2>2. HAVE i < m
    <2>3. i \in buffer \cup queue /\ m \in 1..issued
      BY <1>0, <1>1, <1>2
    <2>4. n <= i /\ i \in Diffs /\ m \in Diffs
      BY <1>0, <1>1, <2>3, IdFacts DEF IsFront, OrderInv
    <2>5. m # n
      BY <1>1, <2>2, <2>4, IdFacts
    <2>6. QED
      BY <1>3, <2>2, <2>3, <2>5 DEF HealInv
  <1>5. Ahead(lastU)'
    <2> SUFFICES ASSUME NEW m \in 1..issued, FinalId[n] < FinalId[m]
                 PROVE  m \in Kept'
      BY <1>1, <1>2 DEF Ahead
    <2>1. m \in Diffs /\ m # n
      BY <1>0, <1>1, IdFacts
    <2>2. lastU = book.id
      BY <1>0 DEF ChainInv
    <2>3. book.id < FinalId[m]
      BY <1>1, <2>1, IdFacts DEF Orderbook
    <2>4. QED
      BY <1>0, <1>3, <2>1, <2>2, <2>3 DEF HealInv, Ahead
  <1>6. QED
    BY <1>0, <1>2, <1>4, <1>5 DEF HealInv, LiveHeals

\* The live loop applies the oldest of what it drained; a diff it skips over
\* was lost before.
LEMMA HealApply ==
    ASSUME TypeOK, PlaceInv, OrderInv, HealInv, LiveApply
    PROVE  HealInv'
  <1>0. /\ updates \subseteq Diffs /\ buffer \subseteq Diffs /\ 1..issued \subseteq Diffs
        /\ queue = {} /\ pc \notin {"bridge", "apply", "golive"}
    BY IdFacts DEF TypeOK, PlaceInv, LiveApply, HealInv
  <1>1. PICK n \in updates :
           /\ IsFront(n, updates) /\ n \in Diffs
           /\ ApplyDiff(n)
           /\ updates' = updates \ {n}
    BY <1>0 DEF LiveApply
  <1>2. UNCHANGED <<issued, missed, buffer, queue, state, pc>>
    BY DEF LiveApply
  <1>3. \A m \in Kept : m # n => m \in Kept'
    BY <1>1, <1>2 DEF Kept
  <1>4. \A i \in buffer' \cup queue' \cup updates', m \in 1..issued' :
            i < m => m \in Kept'
    <2>1. TAKE i \in buffer' \cup queue' \cup updates', m \in 1..issued'
    <2>2. HAVE i < m
    <2>3. i \in buffer \cup updates /\ m \in 1..issued
      BY <1>0, <1>1, <1>2
    <2>4. n <= i /\ i \in Diffs /\ m \in Diffs
      BY <1>0, <1>1, <2>3, IdFacts DEF IsFront, OrderInv
    <2>5. m # n
      BY <1>1, <2>2, <2>4, IdFacts
    <2>6. QED
      BY <1>3, <2>2, <2>3, <2>5 DEF HealInv
  <1>5. ASSUME state = "Live"
        PROVE  Ahead(book.id)' /\ LiveHeals'
    <2>1. /\ book \in Orderbook /\ book.id \in Nat /\ book.level \in [Levels -> Nat]
          /\ book # NoBook
      BY <1>5 DEF TypeOK, PlaceInv, Orderbook
    <2>2. book' = Overlay(book, n) /\ book'.id = FinalId[n]
      BY <1>1, <2>1, ApplyDiffBook
    <2>3. book.id < FinalId[n]
      BY <1>5 DEF OrderInv
    <2>4. \A m \in Diffs : m \in 1..issued /\ book.id < FinalId[m] => m \in Kept
      BY <1>5 DEF HealInv, Ahead
    <2>5. Ahead(book.id)'
      <3> SUFFICES ASSUME NEW m \in 1..issued, FinalId[n] < FinalId[m]
                   PROVE  m \in Kept'
        BY <1>2, <2>2 DEF Ahead
      <3>1. m \in Diffs /\ m # n
        BY <1>0, <1>1, IdFacts
      <3>2. book.id < FinalId[m]
        BY <1>1, <2>1, <2>3, <3>1, IdFacts
      <3>3. QED
        BY <1>3, <2>4, <3>1, <3>2
    <2>6. LiveHeals'
      <3> SUFFICES ASSUME NEW l \in Levels, NEW m \in Diffs,
                          book'.level[l] < m, FinalId[m] <= FinalId[n],
                          l \in Touch[m]
                   PROVE  m \in missed
        BY <1>2, <2>2 DEF LiveHeals
      <3>1. book'.level[l] = IF l \in Touch[n] THEN n ELSE book.level[l]
        BY <2>2 DEF Overlay
      <3>2. m <= n
        BY <1>1, IdFacts
      <3>3. l \notin Touch[n] /\ book'.level[l] = book.level[l]
        BY <1>1, <3>1, <3>2, IdFacts
      <3>4. m < n
        BY <1>1, <3>2, <3>3, IdFacts
      <3>5. CASE FinalId[m] <= book.id
        BY <1>5, <2>1, <3>3, <3>5 DEF HealInv, LiveHeals
      <3>6. CASE book.id < FinalId[m]
        <4>1. m \in 1..issued
          <5>1. n \in 1..issued /\ issued \in Nat
            BY <1>1, IdFacts DEF TypeOK
          <5>2. QED
            BY <3>4, <5>1, IdFacts
        <4>2. m \in Kept
          BY <2>4, <3>6, <4>1
        <4>3. m \notin updates
          BY <1>1, <3>4, IdFacts DEF IsFront
        <4>4. m \notin buffer
          BY <1>1, <3>4, IdFacts DEF OrderInv
        <4>5. QED
          BY <1>0, <4>2, <4>3, <4>4 DEF Kept
      <3>7. QED
        BY <2>1, <3>5, <3>6, IdFacts
    <2>7. QED
      BY <2>5, <2>6
  <1>6. state # "Live" => LiveHeals'
    BY <1>2 DEF LiveHeals
  <1>7. QED
    BY <1>0, <1>2, <1>4, <1>5, <1>6 DEF HealInv

\* The healing invariant, over every step.
LEMMA HealStep ==
    ASSUME ~LongSilence, SyncInv, HealInv, [Next]_vars
    PROVE  HealInv'
  <1> USE DEF SyncInv
  <1>0. /\ queue \subseteq Diffs /\ buffer \subseteq Diffs /\ updates \subseteq Diffs
    BY IdFacts DEF TypeOK
  <1>1. CASE ReceiveDiff \/ LoseDiff
    BY <1>1, HealEmit
  <1>2. CASE FoundBridge
    BY <1>2, HealBridge
  <1>3. CASE AttachApply
    BY <1>3, HealAttach
  <1>4. CASE LiveApply
    BY <1>4, HealApply
  <1>5. CASE DrainForAttach
    <2>1. queue = {}
      BY <1>5 DEF DrainForAttach, HealInv
    <2>2. UNCHANGED <<issued, missed, updates, state, book>>
          /\ queue' = buffer /\ buffer' = {} /\ pc' = "bridge"
          /\ state = "Syncing"
      BY <1>5 DEF DrainForAttach
    <2>3. \A m \in Kept : m \in Kept'
      BY <2>1, <2>2 DEF Kept
    <2>4. QED
      BY <2>1, <2>2, <2>3, HealKept
  <1>6. CASE SnapshotTooOld \/ NoBridge \/ AttachGap
    <2>1. UNCHANGED <<issued, missed, updates, buffer, book>>
          /\ queue' = {} /\ pc' = "loop" /\ pc \in {"bridge", "apply"}
      BY <1>6 DEF SnapshotTooOld, NoBridge, AttachGap
    <2>2. state' # "Live"
      BY <1>6, <2>1 DEF SnapshotTooOld, NoBridge, AttachGap, PlaceInv,
         TriggerResnapshot
    <2>3. updates = {}
      BY <2>1 DEF PlaceInv, TypeOK
    <2>4. \A n \in buffer' \cup queue' \cup updates', m \in 1..issued' :
              n < m => m \in Kept'
      <3>1. TAKE n \in buffer' \cup queue' \cup updates', m \in 1..issued'
      <3>2. HAVE n < m
      <3>3. n \in buffer /\ m \in 1..issued
        BY <2>1, <2>3
      <3>4. m \in Kept
        BY <3>2, <3>3 DEF HealInv
      <3>5. m \notin queue
        BY <1>0, <3>2, <3>3, IdFacts DEF OrderInv
      <3>6. QED
        BY <2>1, <3>4, <3>5 DEF Kept
    <2>5. QED
      BY <2>1, <2>2, <2>4 DEF HealInv, LiveHeals
  <1>7. CASE AttachDone
    <2>1. /\ UNCHANGED <<issued, missed, updates, buffer, queue, book, state, lastU>>
          /\ queue = {} /\ pc = "apply" /\ pc' = "golive"
      BY <1>7 DEF AttachDone
    <2>2. lastU = book.id /\ state # "Live"
      BY <2>1 DEF ChainInv, PlaceInv
    <2>3. Kept' = Kept
      BY <2>1 DEF Kept
    <2>4. Ahead(book.id)'
      BY <2>1, <2>2, <2>3 DEF HealInv, Ahead
    <2>5. QED
      BY <2>1, <2>2, <2>3, <2>4 DEF HealInv, LiveHeals
  <1>8. CASE GoLive
    <2>1. /\ UNCHANGED <<issued, missed, updates, buffer, queue, book>>
          /\ pc = "golive" /\ pc' = "writing"
      BY <1>8 DEF GoLive
    <2>2. book \in Orderbook /\ Exact(book)
      BY <2>1 DEF PlaceInv, SyncExact, TypeOK
    <2>3. Kept' = Kept
      BY <2>1 DEF Kept
    <2>4. queue = {}
      BY <2>1 DEF HealInv
    <2>5. Ahead(book.id)'
      BY <2>1, <2>3 DEF HealInv, Ahead
    <2>6. LiveHeals'
      <3>1. \A l \in Levels, m \in Diffs :
                /\ book.level[l] < m
                /\ FinalId[m] <= book.id
                /\ l \in Touch[m]
                => m \in missed
        <4>1. PICK k \in 0..NumDiffs :
                 /\ Covers(k, book.id)
                 /\ \A l \in Levels : \/ IsCurrent(l, book.level[l], k)
                                      \/ book.level[l] = k + 1
          BY <2>2 DEF Exact
        <4>2. QED
          BY <4>1, IdFacts DEF IsCurrent, Covers
      <3>2. QED
        BY <2>1, <3>1 DEF LiveHeals
    <2>7. QED
      BY <2>1, <2>3, <2>4, <2>5, <2>6 DEF HealInv
  <1>9. CASE LiveDrain
    <2>1. /\ UNCHANGED <<issued, missed, queue, book, state, pc, lastU>>
          /\ updates' = buffer /\ buffer' = {} /\ live = "listed"
      BY <1>9 DEF LiveDrain
    <2>2. updates = {}
      BY <2>1 DEF TypeOK
    <2>3. \A m \in Kept : m \in Kept'
      BY <2>1, <2>2 DEF Kept
    <2>4. QED
      BY <2>1, <2>2, <2>3, HealKept DEF HealInv
  <1>10. CASE ManageDelisted
    <2>1. /\ UNCHANGED <<issued, missed, updates, buffer, queue>>
          /\ pc = "loop" /\ pc' = "done" /\ state' = "Absent"
      BY <1>10 DEF ManageDelisted, RemoveSymbolState
    <2>2. Kept' = Kept
      BY <2>1 DEF Kept
    <2>3. QED
      BY <2>1, <2>2, HealKept DEF HealInv
  <1>11. CASE FetchOk
    <2>1. /\ UNCHANGED <<issued, missed, updates, buffer, queue, state>>
          /\ pc = "fetching" /\ pc' = "csv" /\ state # "Live"
      BY <1>11 DEF FetchOk, PlaceInv
    <2>2. Kept' = Kept
      BY <2>1 DEF Kept
    <2>3. QED
      BY <2>1, <2>2, HealKept DEF HealInv
  <1>12. CASE ManageInitializing \/ ManageCooldown \/ StartFetch \/ FetchErr
              \/ SnapshotWritten \/ SnapshotWriteErr \/ EndBackoff
              \/ BridgeTimeout \/ BridgeSnapshotWritten
              \/ BridgeSnapshotWriteErr
    <2>1. /\ UNCHANGED <<issued, missed, updates, buffer, queue, book>>
          /\ pc \notin {"bridge", "apply"} /\ pc' \notin {"apply", "golive"}
      BY <1>12 DEF ManageInitializing, ManageCooldown, StartFetch, FetchErr,
         SnapshotWritten, SnapshotWriteErr, EndBackoff, BridgeTimeout,
         BridgeSnapshotWritten, BridgeSnapshotWriteErr
    <2>2. state' = "Live" => state = "Live"
      BY <1>12 DEF ManageInitializing, ManageCooldown, StartFetch, FetchErr,
         SnapshotWritten, SnapshotWriteErr, EndBackoff, BridgeTimeout,
         TriggerResnapshot, BridgeSnapshotWritten, BridgeSnapshotWriteErr
    <2>3. Kept' = Kept
      BY <2>1 DEF Kept
    <2>4. QED
      BY <2>1, <2>2, <2>3, HealKept DEF HealInv
  <1>13. CASE UNCHANGED <<issued, missed, buffer, queue, updates, pc, state, book, lastU>>
    <2>1. Kept' = Kept
      BY <1>13 DEF Kept
    <2>2. QED
      BY <1>13, <2>1, HealKept DEF HealInv
  <1>14. CASE LiveList \/ Periodic \/ Connect \/ Disconnect \/ Delist \/ Relist
    BY <1>13, <1>14 DEF LiveList, Periodic, PeriodicList, PeriodicTurn,
       PeriodicStamp, Connect, Disconnect, Delist, Relist
  <1>15. CASE Sweep
    BY <1>13, <1>15 DEF Sweep, GoIdle, SweepCollect, SweepRemove, PlaceInv
  <1>16. CASE UNCHANGED vars
    BY <1>13, <1>16 DEF vars
  <1>17. QED
    BY <1>1, <1>2, <1>3, <1>4, <1>5, <1>6, <1>7, <1>8, <1>9, <1>10, <1>11,
       <1>12, <1>14, <1>15, <1>16 DEF Next, Manage, LiveLoop

\* A Live book is behind the exchange only where an outage or the ring
\* buffer lost a diff: the attach, the live loop and the buffer between them
\* lose none themselves, in whatever order they run.
THEOREM LiveHealsAlways ==
    ASSUME ~LongSilence
    PROVE  Spec => []LiveHeals
  <1>1. Init => HealInv
    BY IdFacts DEF Init, HealInv, LiveHeals
  <1>2. SyncInv /\ HealInv /\ [Next]_vars => HealInv'
    BY HealStep
  <1>3. HealInv => LiveHeals
    BY DEF HealInv
  <1>4. QED
    BY <1>1, <1>2, <1>3, SyncInvariant, PTL DEF Spec

=============================================================================
