----------------------------- MODULE DataProofs -----------------------------
(*****************************************************************************)
(* Proofs about what becomes of the data: the levels of a book (BookDepth),  *)
(* what an attach makes of its buffer (BookAlgorithms), the trades that a    *)
(* reconnect replays (TradeDedup), and the rows handed to the CSV writer     *)
(* (CsvFile).  They share no state, only the facts about sequences and       *)
(* finite sets.  Every theorem is for any depth, prices and quantities, any  *)
(* updates and any buffer, any window, any number of tasks, rows, faults     *)
(* and crashes.                                                              *)
(*****************************************************************************)
EXTENDS CsvFile, TradeDedup, BookDepth, BookAlgorithms,
        FiniteSetTheorems, SequenceTheorems, TLAPS

-----------------------------------------------------------------------------
(*****************************************************************************)
(* What the proofs by induction rest on.                                     *)
(*****************************************************************************)

\* A set of natural numbers has a least one.
LEMMA LeastOf ==
  ASSUME NEW T \in SUBSET Nat, T # {}
  PROVE  \E m \in T : \A n \in T : m <= n
<1> DEFINE R == {p \in Nat \X Nat : p[1] < p[2]}
<1>1. IsWellFoundedOn(R, Nat)
  BY NatLessThanWellFounded DEF OpToRel
<1> HIDE DEF R
<1>2. PICK m \in T : \A n \in T : ~(<<n, m>> \in R)
  BY <1>1, WFMin
<1>3. \A n \in T : <<n, m>> \in R <=> n < m
  BY DEF R
<1>4. m \in Nat /\ \A n \in T : n \in Nat /\ ~(n < m)
  BY <1>2, <1>3
<1>5. \A n \in T : m <= n
  BY <1>4
<1> QED BY <1>5

\* What holds of 0 and passes from each number to the next holds of all.
LEMMA SetInduction ==
  ASSUME NEW S, 0 \in S, \A n \in Nat : n \in S => n + 1 \in S
  PROVE  Nat \subseteq S
<1> SUFFICES ASSUME Nat \ S # {} PROVE FALSE
  OBVIOUS
<1>1. PICK m \in Nat \ S : \A n \in Nat \ S : m <= n
  BY LeastOf
<1>2. m \in Nat /\ m - 1 \in Nat /\ m - 1 \notin Nat \ S
  BY <1>1
<1> QED BY <1>1, <1>2

-----------------------------------------------------------------------------
(*****************************************************************************)
(* A live book (BookDepth).                                                  *)
(*****************************************************************************)

DepthInv == DepthTypeOK /\ HealedLevels

\* A side restricted to some of its prices is a side that agrees with it.
LEMMA TrimFacts ==
    ASSUME NEW side \in Sides
    PROVE  /\ Trim(side) \in Sides
           /\ DOMAIN Trim(side) \subseteq DOMAIN side
           /\ \A p \in DOMAIN Trim(side) : Trim(side)[p] = side[p]
<1> DEFINE K == {p \in DOMAIN side : Cardinality({q \in DOMAIN side : q < p}) < Depth}
<1>1. PICK P \in SUBSET Prices : side \in [P -> Quantities]
  BY DEF Sides
<1>2. Trim(side) = [p \in K |-> side[p]]
  BY DEF Trim, Restrict
<1>3. K \subseteq P /\ K \in SUBSET Prices
  BY <1>1
<1>4. Trim(side) \in [K -> Quantities]
  BY <1>1, <1>2, <1>3
<1> HIDE DEF K
<1> QED
  BY <1>1, <1>2, <1>3, <1>4 DEF Sides

\* What the exchange says of a change, applied to any book: a level is the
\* new market's, or was there before and did not change.
LEMMA AppliedFacts ==
    ASSUME NEW before \in Sides, NEW after \in Sides, NEW side \in Sides
    PROVE  LET diff == DiffOf(before, after)
               new  == Applied(side, diff)
           IN  /\ new \in Sides
               /\ \A p \in DOMAIN new :
                     \/ p \in DOMAIN after /\ new[p] = after[p]
                     \/ p \in DOMAIN side /\ p \notin DOMAIN diff /\ new[p] = side[p]
<1> DEFINE diff == DiffOf(before, after)
           kept == {p \in DOMAIN side : p \in DOMAIN diff => diff[p] # Gone}
           set  == {p \in DOMAIN diff : diff[p] # Gone}
           new  == Applied(side, diff)
<1>1. PICK A \in SUBSET Prices : after \in [A -> Quantities]
  BY DEF Sides
<1>2. PICK P \in SUBSET Prices : side \in [P -> Quantities]
  BY DEF Sides
<1>3. /\ DOMAIN diff \subseteq Prices
      /\ \A p \in DOMAIN diff : diff[p] = IF p \in DOMAIN after THEN after[p] ELSE Gone
  BY DEF DiffOf
<1>4. new = [p \in kept \cup set |-> IF p \in set THEN diff[p] ELSE side[p]]
  BY DEF Applied
<1> HIDE DEF diff, new
<1>5. \A p \in set : p \in DOMAIN after /\ diff[p] = after[p]
  BY <1>3
<1>6. kept \cup set \in SUBSET Prices
  BY <1>2, <1>3
<1>7. new \in [kept \cup set -> Quantities]
  BY <1>1, <1>2, <1>4, <1>5
<1>8. new \in Sides
  BY <1>6, <1>7 DEF Sides
<1>9. ASSUME NEW p \in DOMAIN new
      PROVE  \/ p \in DOMAIN after /\ new[p] = after[p]
             \/ p \in DOMAIN side /\ p \notin DOMAIN diff /\ new[p] = side[p]
  <2>1. CASE p \in set
    BY <2>1, <1>4, <1>5
  <2>2. CASE p \notin set
    BY <2>2, <1>4
  <2> QED
    BY <2>1, <2>2
<1> QED
  BY <1>8, <1>9 DEF diff, new

\* A price the diff does not name is in both markets or in neither, with the
\* same quantity.
LEMMA DiffFacts ==
    ASSUME NEW before \in Sides, NEW after \in Sides
    PROVE  /\ DOMAIN DiffOf(before, after) \subseteq Prices
           /\ \A p \in Prices \ DOMAIN DiffOf(before, after) :
                 p \in DOMAIN before => p \in DOMAIN after /\ after[p] = before[p]
<1>1. PICK A \in SUBSET Prices : after \in [A -> Quantities]
  BY DEF Sides
<1>2. PICK B \in SUBSET Prices : before \in [B -> Quantities]
  BY DEF Sides
<1> QED
  BY <1>1, <1>2, QuantitiesAssumption DEF DiffOf, Gone

\* The snapshot the book starts from is right.
LEMMA DepthStart == DepthInit => DepthInv
<1> SUFFICES ASSUME DepthInit PROVE DepthInv
  OBVIOUS
<1>1. book \in Sides /\ HealedLevels
  BY TrimFacts DEF DepthInit, HealedLevels
<1> QED
  BY <1>1, LostAssumption DEF DepthInit, DepthInv, DepthTypeOK

\* Every step keeps healed levels right.
LEMMA DepthKept == DepthInv /\ [DepthNext]_depthVars => DepthInv'
<1> SUFFICES ASSUME DepthInv, [DepthNext]_depthVars PROVE DepthInv'
  OBVIOUS
<1>1. CASE Diff
  <2>1. PICK after \in Sides :
           /\ market' = after
           /\ book' = Trim(Applied(book, DiffOf(market, after)))
           /\ stale' = stale \ DOMAIN DiffOf(market, after)
           /\ lost' = lost
    BY <1>1 DEF Diff
  <2> DEFINE diff == DiffOf(market, after)
             new  == Applied(book, diff)
  <2>2. market \in Sides /\ book \in Sides /\ stale \subseteq Prices
    BY DEF DepthInv, DepthTypeOK
  <2>3. new \in Sides
    BY <2>2, AppliedFacts
  <2>4. /\ book' \in Sides
        /\ DOMAIN book' \subseteq DOMAIN new
        /\ \A p \in DOMAIN book' : book'[p] = new[p]
    BY <2>1, <2>3, TrimFacts
  <2>5. ASSUME NEW p \in DOMAIN book', p \notin stale'
        PROVE  p \in DOMAIN market' /\ market'[p] = book'[p]
    <3>1. \/ p \in DOMAIN after /\ new[p] = after[p]
          \/ p \in DOMAIN book /\ p \notin DOMAIN diff /\ new[p] = book[p]
      BY <2>2, <2>4, AppliedFacts
    <3>2. CASE p \in DOMAIN after /\ new[p] = after[p]
      BY <3>2, <2>1, <2>4
    <3>3. CASE p \in DOMAIN book /\ p \notin DOMAIN diff /\ new[p] = book[p]
      <4>1. p \notin stale
        BY <3>3, <2>1, <2>5
      <4>2. p \in DOMAIN market /\ market[p] = book[p]
        BY <3>3, <4>1 DEF DepthInv, HealedLevels
      <4>3. p \in Prices
        BY <2>2, <3>3 DEF Sides
      <4>4. p \in DOMAIN after /\ after[p] = market[p]
        BY <2>2, <3>3, <4>2, <4>3, DiffFacts
      <4> QED
        BY <3>3, <4>2, <4>4, <2>1, <2>4
    <3> QED
      BY <3>1, <3>2, <3>3
  <2>6. HealedLevels'
    BY <2>5 DEF HealedLevels
  <2> QED
    BY <2>1, <2>4, <2>6 DEF DepthInv, DepthTypeOK
<1>2. CASE LoseDiff
  <2>1. PICK after \in Sides :
           market' = after /\ stale' = stale \cup DOMAIN DiffOf(market, after)
    BY <1>2 DEF LoseDiff
  <2>2. market \in Sides /\ book \in Sides /\ book' = book
    BY <1>2 DEF DepthInv, DepthTypeOK, LoseDiff
  <2>3. stale' \subseteq Prices
    BY <2>1, <2>2, DiffFacts DEF DepthInv, DepthTypeOK
  <2>4. ASSUME NEW p \in DOMAIN book', p \notin stale'
        PROVE  p \in DOMAIN market' /\ market'[p] = book'[p]
    <3>1. p \in DOMAIN market /\ market[p] = book[p]
      BY <2>1, <2>2, <2>4 DEF DepthInv, HealedLevels
    <3>2. p \in Prices
      BY <2>2, <2>4 DEF Sides
    <3> QED
      BY <2>1, <2>2, <2>4, <3>1, <3>2, DiffFacts
  <2>5. HealedLevels'
    BY <2>4 DEF HealedLevels
  <2>6. lost' \in 0..MaxLost
    BY <1>2, LostAssumption DEF LoseDiff, DepthInv, DepthTypeOK
  <2> QED
    BY <2>1, <2>2, <2>3, <2>5, <2>6 DEF DepthInv, DepthTypeOK
<1>3. CASE UNCHANGED depthVars
  BY <1>3 DEF depthVars, DepthInv, DepthTypeOK, HealedLevels
<1> QED
  BY <1>1, <1>2, <1>3 DEF DepthNext

\* The book stays well formed and right on every level that was not missed.
THEOREM DepthInvAlways == DepthSpec => []DepthInv
<1> QED
  BY DepthStart, DepthKept, PTL DEF DepthSpec

\* Self-healing (apply_update_to_book): whatever diffs were lost before, a
\* level is the exchange's from its next update on.
THEOREM HealedAlways == DepthSpec => []HealedLevels
<1>1. DepthInv => HealedLevels
  BY DEF DepthInv
<1> QED
  BY <1>1, DepthInvAlways, PTL

-----------------------------------------------------------------------------
(*****************************************************************************)
(* One attach (BookAlgorithms).                                              *)
(*****************************************************************************)

\* x is the k-th of S.
PlaceIs(S, R, x, k) == Cardinality({y \in S : <<y, x>> \in R}) = k - 1

\* R is a strict order of S.
StrictOrder(S, R) ==
    /\ R \in SUBSET (S \X S)
    /\ \A x \in S : <<x, x>> \notin R
    /\ \A x, y, z \in S : <<x, y>> \in R /\ <<y, z>> \in R => <<x, z>> \in R
    /\ \A x, y \in S : x = y \/ <<x, y>> \in R \/ <<y, x>> \in R

\* Each element has one of the places 1..n, the lower one who is ahead.
Placed(S, R, n) ==
    /\ \A x \in S : \E k \in 1..n : PlaceIs(S, R, x, k)
    /\ \A k \in 1..n : \E x \in S : PlaceIs(S, R, x, k)
    /\ \A k, l \in 1..n : \A x, y \in S :
          PlaceIs(S, R, x, k) /\ PlaceIs(S, R, y, l) =>
             (<<x, y>> \in R <=> k < l) /\ (x = y <=> k = l)

\* Each element of a finite set has a place of its own in a strict order, the
\* number of those ahead of it: the places are 1..Cardinality(S), and whoever
\* is ahead has the lower one.
LEMMA Places ==
  ASSUME NEW S, IsFiniteSet(S), NEW R, StrictOrder(S, R)
  PROVE  Placed(S, R, Cardinality(S))
<1> USE DEF StrictOrder
<1> DEFINE Ahead(x) == {y \in S : <<y, x>> \in R}
           n == Cardinality(S)
           c == [x \in S |-> Cardinality(Ahead(x)) + 1]
<1>1. n \in Nat
  BY FS_CardinalityType
<1>2. ASSUME NEW x \in S
      PROVE  /\ IsFiniteSet(Ahead(x)) /\ Cardinality(Ahead(x)) \in Nat
             /\ Cardinality(Ahead(x)) < n
  <2>1. Ahead(x) \subseteq S /\ Ahead(x) # S
    OBVIOUS
  <2> HIDE DEF Ahead
  <2>2. IsFiniteSet(Ahead(x)) /\ Cardinality(Ahead(x)) <= n
    BY <2>1, FS_Subset
  <2>3. Cardinality(Ahead(x)) # n
    BY <2>1, FS_Subset
  <2>4. Cardinality(Ahead(x)) \in Nat
    BY <2>2, FS_CardinalityType
  <2> QED BY <2>2, <2>3, <2>4, <1>1
<1>3. ASSUME NEW x \in S, NEW y \in S, <<x, y>> \in R
      PROVE  Cardinality(Ahead(x)) < Cardinality(Ahead(y))
  <2>1. Ahead(x) \subseteq Ahead(y) /\ x \in Ahead(y) /\ x \notin Ahead(x)
    BY <1>3
  <2> HIDE DEF Ahead
  <2>2. IsFiniteSet(Ahead(y)) /\ Cardinality(Ahead(x)) \in Nat /\ Cardinality(Ahead(y)) \in Nat
    BY <1>2
  <2>3. Cardinality(Ahead(x)) <= Cardinality(Ahead(y)) /\ Cardinality(Ahead(x)) # Cardinality(Ahead(y))
    BY <2>1, <2>2, FS_Subset
  <2> QED BY <2>2, <2>3
<1> HIDE DEF Ahead, n
<1>4. c \in [S -> 1..n]
  <2>1. \A x \in S : Cardinality(Ahead(x)) + 1 \in 1..n
    BY <1>1, <1>2
  <2> QED BY <2>1
<1>5. ASSUME NEW x \in S, NEW y \in S
      PROVE  (<<x, y>> \in R <=> c[x] < c[y]) /\ (x = y <=> c[x] = c[y])
  <2>1. c[x] = Cardinality(Ahead(x)) + 1 /\ c[y] = Cardinality(Ahead(y)) + 1
    OBVIOUS
  <2>2. Cardinality(Ahead(x)) \in Nat /\ Cardinality(Ahead(y)) \in Nat
    BY <1>2
  <2> HIDE DEF c
  <2>3. CASE <<x, y>> \in R
    BY <2>1, <2>2, <2>3, <1>3
  <2>4. CASE <<y, x>> \in R
    BY <2>1, <2>2, <2>4, <1>3
  <2>5. CASE x = y
    BY <2>1, <2>2, <2>5
  <2> QED BY <2>3, <2>4, <2>5
<1>6. c \in Injection(S, 1..n)
  BY <1>4, <1>5 DEF Injection, IsInjective
<1>7. IsFiniteSet(1..n) /\ Cardinality(1..n) = n
  BY <1>1, FS_Interval
<1>8. c \in Surjection(S, 1..n)
  <2> HIDE DEF c
  <2> QED BY <1>6, <1>7, FS_Injection DEF n
<1>9. \A x \in S : \A k \in 1..n : Cardinality(Ahead(x)) = k - 1 <=> c[x] = k
  BY <1>1, <1>2
<1> HIDE DEF c
<1>10. \A k \in 1..n : \E x \in S : c[x] = k
  BY <1>8 DEF Surjection
<1>11. /\ \A x \in S : \E k \in 1..n : Cardinality(Ahead(x)) = k - 1
       /\ \A k \in 1..n : \E x \in S : Cardinality(Ahead(x)) = k - 1
       /\ \A k, l \in 1..n : \A x, y \in S :
             Cardinality(Ahead(x)) = k - 1 /\ Cardinality(Ahead(y)) = l - 1 =>
                (<<x, y>> \in R <=> k < l) /\ (x = y <=> k = l)
  BY <1>4, <1>5, <1>9, <1>10
<1>12. \A x \in S : \A k \in 1..n : PlaceIs(S, R, x, k) <=> Cardinality(Ahead(x)) = k - 1
  BY DEF PlaceIs, Ahead
<1>13. Placed(S, R, n)
  BY <1>11, <1>12 DEF Placed
<1> QED BY <1>13 DEF n

\* Ordering by three numbers, and by a fourth where the three are equal.
LEMMA KeysChain ==
  ASSUME NEW a, NEW b, NEW c, NEW i \in Nat, NEW j \in Nat, NEW k \in Nat,
         a.U \in Nat, a.u \in Nat, a.E \in Nat,
         b.U \in Nat, b.u \in Nat, b.E \in Nat,
         c.U \in Nat, c.u \in Nat, c.E \in Nat,
         Precedes(a, b) \/ (~Precedes(b, a) /\ i < j),
         Precedes(b, c) \/ (~Precedes(c, b) /\ j < k)
  PROVE  Precedes(a, c) \/ (~Precedes(c, a) /\ i < k)
<1>1. a.U <= b.U /\ b.U <= c.U
  BY DEF Precedes
<1>2. CASE a.U < b.U \/ b.U < c.U
  BY <1>1, <1>2 DEF Precedes
<1>3. CASE a.U = b.U /\ b.U = c.U
  <2>1. a.u <= b.u /\ b.u <= c.u
    BY <1>3 DEF Precedes
  <2>2. CASE a.u < b.u \/ b.u < c.u
    BY <1>3, <2>1, <2>2 DEF Precedes
  <2>3. CASE a.u = b.u /\ b.u = c.u
    BY <1>3, <2>3 DEF Precedes
  <2> QED BY <2>1, <2>2, <2>3
<1> QED BY <1>1, <1>2, <1>3

\* The first sort loses and adds nothing.
LEMMA KeyOrderFacts ==
  ASSUME NEW s \in Seq(Messages)
  PROVE  /\ InKeyOrder(s) \in Seq(Messages)
         /\ Len(InKeyOrder(s)) = Len(s)
         /\ ToSet(InKeyOrder(s)) = ToSet(s)
<1> DEFINE D == DOMAIN s
           n == Len(s)
           R == {p \in D \X D : GoesBefore(s, p[1], p[2])}
           Ahead(i) == {j \in D : GoesBefore(s, j, i)}
           t == InKeyOrder(s)
<1>1. /\ D = 1..n /\ n \in Nat
      /\ \A i \in D : s[i] \in Messages
      /\ \A i \in D : s[i].U \in Nat /\ s[i].u \in Nat /\ s[i].E \in Nat
  <2>1. D = 1..n /\ n \in Nat
    OBVIOUS
  <2>2. \A i \in D : s[i] \in Messages
    BY ElementOfSeq
  <2> QED BY <2>1, <2>2, MessagesAssumption
<1>2. IsFiniteSet(D) /\ Cardinality(D) = n
  BY <1>1, FS_Interval
<1>3. t = [k \in D |-> s[CHOOSE i \in D : Cardinality(Ahead(i)) = k - 1]]
  BY DEF InKeyOrder
<1> HIDE DEF D, n, t
<1>4. /\ R \in SUBSET (D \X D)
      /\ \A i, j \in D : <<i, j>> \in R <=> GoesBefore(s, i, j)
  OBVIOUS
<1> HIDE DEF R
<1>5. \A i \in D : ~GoesBefore(s, i, i)
  BY <1>1 DEF GoesBefore, Precedes
<1>6. \A i, j \in D : i = j \/ GoesBefore(s, i, j) \/ GoesBefore(s, j, i)
  BY <1>1 DEF GoesBefore, Precedes
<1>7. ASSUME NEW i \in D, NEW j \in D, NEW k \in D, GoesBefore(s, i, j), GoesBefore(s, j, k)
      PROVE  GoesBefore(s, i, k)
  <2> DEFINE a == s[i]
             b == s[j]
             c == s[k]
  <2>1. /\ a.U \in Nat /\ a.u \in Nat /\ a.E \in Nat
        /\ b.U \in Nat /\ b.u \in Nat /\ b.E \in Nat
        /\ c.U \in Nat /\ c.u \in Nat /\ c.E \in Nat
        /\ i \in Nat /\ j \in Nat /\ k \in Nat
    <3>1. D \subseteq Nat
      BY <1>1
    <3>2. ASSUME NEW g \in D PROVE s[g].U \in Nat /\ s[g].u \in Nat /\ s[g].E \in Nat
      BY <1>1
    <3> QED BY <3>1, <3>2
  <2>2. /\ Precedes(a, b) \/ (~Precedes(b, a) /\ i < j)
        /\ Precedes(b, c) \/ (~Precedes(c, b) /\ j < k)
    BY <1>7 DEF GoesBefore
  <2> HIDE DEF a, b, c
  <2>3. Precedes(a, c) \/ (~Precedes(c, a) /\ i < k)
    BY <2>1, <2>2, KeysChain
  <2> QED BY <2>3 DEF GoesBefore, a, c
<1>8. /\ \A k \in 1..n : \E i \in D : Cardinality(Ahead(i)) = k - 1
      /\ \A i \in D : \E k \in 1..n : Cardinality(Ahead(i)) = k - 1
      /\ \A k, l \in 1..n : \A i, j \in D :
            Cardinality(Ahead(i)) = k - 1 /\ Cardinality(Ahead(j)) = l - 1 => (i = j <=> k = l)
  <2>1. \A i \in D : {j \in D : <<j, i>> \in R} = Ahead(i)
    BY <1>4
  <2> HIDE DEF Ahead
  <2>2. \A i \in D : \A k \in 1..n : PlaceIs(D, R, i, k) <=> Cardinality(Ahead(i)) = k - 1
    BY <2>1 DEF PlaceIs
  <2>3. Placed(D, R, n)
    <3>1. StrictOrder(D, R)
      BY <1>4, <1>5, <1>6, <1>7 DEF StrictOrder
    <3> QED BY <3>1, <1>2, Places
  <2>4. \A k \in 1..n : \E i \in D : Cardinality(Ahead(i)) = k - 1
    BY <2>2, <2>3 DEF Placed
  <2>5. \A i \in D : \E k \in 1..n : Cardinality(Ahead(i)) = k - 1
    BY <2>2, <2>3 DEF Placed
  <2>6. \A k, l \in 1..n : \A i, j \in D :
            Cardinality(Ahead(i)) = k - 1 /\ Cardinality(Ahead(j)) = l - 1 => (i = j <=> k = l)
    <3>1. \A k, l \in 1..n : \A x, y \in D :
              PlaceIs(D, R, x, k) /\ PlaceIs(D, R, y, l) =>
                 (<<x, y>> \in R <=> k < l) /\ (x = y <=> k = l)
      BY <2>3 DEF Placed
    <3>2. ASSUME NEW k \in 1..n, NEW l \in 1..n, NEW i \in D, NEW j \in D,
                 Cardinality(Ahead(i)) = k - 1, Cardinality(Ahead(j)) = l - 1
          PROVE  i = j <=> k = l
      <4>1. PlaceIs(D, R, i, k) /\ PlaceIs(D, R, j, l)
        BY <2>2, <3>2
      <4>2. (<<i, j>> \in R <=> k < l) /\ (i = j <=> k = l)
        <5> HIDE DEF D, n
        <5> QED BY <3>1, <4>1
      <4> QED BY <4>2
    <3> QED BY <3>2
  <2> QED BY <2>4, <2>5, <2>6
<1> HIDE DEF Ahead
<1> DEFINE at(k) == CHOOSE i \in D : Cardinality(Ahead(i)) = k - 1
<1>9. \A k \in D : at(k) \in D /\ Cardinality(Ahead(at(k))) = k - 1
  BY <1>1, <1>8
<1>10. \A k \in D : t[k] = s[at(k)]
  BY <1>3
<1>11. DOMAIN t = D
  BY <1>3
<1>12. ASSUME NEW i \in D PROVE \E k \in D : at(k) = i
  <2>1. PICK k \in D : Cardinality(Ahead(i)) = k - 1
    BY <1>8, <1>1
  <2> HIDE DEF at
  <2>2. at(k) \in D /\ Cardinality(Ahead(at(k))) = k - 1 /\ k \in 1..n
    BY <1>9, <1>1
  <2>3. at(k) = i
    BY <2>1, <2>2, <1>8
  <2> QED BY <2>3
<1> HIDE DEF at
<1>13. t \in [1..n -> Messages]
  <2>1. \A k \in D : t[k] \in Messages
    BY <1>1, <1>9, <1>10
  <2>2. t = [k \in D |-> t[k]]
    BY <1>3
  <2> QED BY <2>1, <2>2, <1>1
<1>14. t \in Seq(Messages) /\ Len(t) = n
  BY <1>13, <1>1
<1>15. ToSet(t) = ToSet(s)
  <2>1. ToSet(t) = {t[k] : k \in D} /\ ToSet(s) = {s[k] : k \in D}
    BY <1>11 DEF ToSet, D
  <2> QED BY <2>1, <1>9, <1>10, <1>12
<1> QED BY <1>14, <1>15 DEF t, n

\* At most one record of each final id.
OneEach(S) == \A m, n \in S : m.u = n.u => m = n

\* Each record of S is kept in K, or a newer one with its final id.
KeepsNewest(K, S) == \A m \in S : \E k \in K : k.u = m.u /\ m.E <= k.E

\* One record more.
LEMMA KeepFacts ==
  ASSUME NEW S \in SUBSET Messages, IsFiniteSet(S), OneEach(S), NEW m \in Messages
  PROVE  /\ Keep(S, m) \subseteq S \cup {m} /\ IsFiniteSet(Keep(S, m))
         /\ OneEach(Keep(S, m)) /\ KeepsNewest(Keep(S, m), S \cup {m})
<1> DEFINE K == Keep(S, m)
<1>1. \A x \in S \cup {m} : x.E \in Nat
  BY MessagesAssumption
<1>2. K \subseteq S \cup {m}
  BY DEF Keep
<1>3. IsFiniteSet(K)
  <2>1. IsFiniteSet(S \cup {m})
    BY FS_AddElement
  <2> QED BY <1>2, <2>1, FS_Subset
<1>4. CASE \A k \in S : k.u = m.u => m.E > k.E
  <2>1. K = {k \in S : k.u # m.u} \cup {m}
    BY <1>4 DEF Keep
  <2>2. OneEach(K)
    BY <2>1 DEF OneEach
  <2>3. ASSUME NEW x \in S \cup {m} PROVE \E k \in K : k.u = x.u /\ x.E <= k.E
    <3>1. CASE x.u # m.u
      <4>1. x \in K /\ x.E <= x.E
        BY <2>1, <3>1, <1>1
      <4> QED BY <4>1
    <3>2. CASE x.u = m.u
      <4>1. m \in K /\ x.E <= m.E
        BY <2>1, <3>2, <1>4, <1>1
      <4> QED BY <4>1, <3>2
    <3> QED BY <3>1, <3>2
  <2> QED BY <1>2, <1>3, <2>2, <2>3 DEF KeepsNewest
<1>5. CASE \E k \in S : k.u = m.u /\ ~(m.E > k.E)
  <2>1. K = S
    BY <1>5 DEF Keep
  <2>2. ASSUME NEW x \in S \cup {m} PROVE \E k \in S : k.u = x.u /\ x.E <= k.E
    <3>1. CASE x \in S
      BY <3>1, <1>1
    <3>2. CASE x = m
      BY <3>2, <1>1, <1>5
    <3> QED BY <3>1, <3>2
  <2> QED BY <1>2, <1>3, <2>1, <2>2 DEF KeepsNewest
<1> QED BY <1>4, <1>5

\* What the loop over the sorted messages keeps.
LEMMA DedupFacts ==
  ASSUME NEW s \in Seq(Messages)
  PROVE  /\ Dedup(s) \subseteq ToSet(s) /\ IsFiniteSet(Dedup(s))
         /\ OneEach(Dedup(s)) /\ KeepsNewest(Dedup(s), ToSet(s))
<1> DEFINE t == InKeyOrder(s)
           L == Len(t)
           F(g) == [i \in 0..L |-> IF i = 0 THEN {} ELSE Keep(g[i - 1], t[i])]
           c == CHOOSE g : g = F(g)
           Of(k) == {t[j] : j \in 1..k}
           Good(k, S) == /\ S \subseteq Of(k) /\ IsFiniteSet(S)
                         /\ OneEach(S) /\ KeepsNewest(S, Of(k))
           Upto(k, f) == /\ f \in [0..k -> SUBSET Messages]
                         /\ f[0] = {}
                         /\ \A i \in 1..k : f[i] = Keep(f[i - 1], t[i])
           G == {k \in Nat : k <= L => \E f : Upto(k, f)}
<1>1. /\ t \in Seq(Messages) /\ L \in Nat /\ ToSet(t) = ToSet(s)
      /\ \A i \in 1..L : t[i] \in Messages
  <2>1. t \in Seq(Messages) /\ ToSet(t) = ToSet(s)
    BY KeyOrderFacts
  <2> HIDE DEF t
  <2> QED BY <2>1, ElementOfSeq
<1> HIDE DEF t, L
<1>2. ASSUME NEW S \in SUBSET Messages, NEW m \in Messages PROVE Keep(S, m) \in SUBSET Messages
  BY DEF Keep
<1> HIDE DEF Upto
<1>3. 0 \in G
  <2>1. Upto(0, [i \in 0..0 |-> {}])
    BY DEF Upto
  <2> QED BY <2>1
<1>4. ASSUME NEW k \in Nat, k \in G PROVE k + 1 \in G
  <2> SUFFICES ASSUME k + 1 <= L PROVE \E f : Upto(k + 1, f)
    OBVIOUS
  <2>1. PICK f : Upto(k, f)
    BY <1>4, <1>1
  <2> DEFINE h == [i \in 0..(k + 1) |-> IF i <= k THEN f[i] ELSE Keep(f[k], t[k + 1])]
  <2>2. Keep(f[k], t[k + 1]) \in SUBSET Messages
    <3>1. k \in 0..k /\ k + 1 \in 1..L
      BY <1>1
    <3>2. f[k] \in SUBSET Messages /\ t[k + 1] \in Messages
      BY <3>1, <2>1, <1>1 DEF Upto
    <3> QED BY <3>2, <1>2
  <2>3. h \in [0..(k + 1) -> SUBSET Messages]
    <3>1. \A i \in 0..(k + 1) : i <= k => i \in 0..k
      OBVIOUS
    <3> QED BY <3>1, <2>1, <2>2 DEF Upto
  <2>4. h[0] = {}
    BY <2>1 DEF Upto
  <2>5. ASSUME NEW i \in 1..(k + 1) PROVE h[i] = Keep(h[i - 1], t[i])
    <3>1. CASE i <= k
      <4>1. i \in 1..k /\ i - 1 \in 0..(k + 1) /\ i - 1 <= k /\ i \in 0..(k + 1)
        BY <3>1
      <4>2. h[i] = f[i] /\ h[i - 1] = f[i - 1]
        BY <4>1
      <4> QED BY <4>1, <4>2, <2>1 DEF Upto
    <3>2. CASE i = k + 1
      <4>1. k \in 0..(k + 1) /\ k + 1 \in 0..(k + 1) /\ i - 1 = k /\ ~(k + 1 <= k)
        BY <3>2
      <4>2. h[k + 1] = Keep(f[k], t[k + 1]) /\ h[k] = f[k]
        BY <4>1
      <4> QED BY <4>1, <4>2, <3>2
    <3> QED BY <3>1, <3>2
  <2>6. Upto(k + 1, h)
    BY <2>3, <2>4, <2>5 DEF Upto
  <2> HIDE DEF h
  <2> QED BY <2>6
<1>5. Nat \subseteq G
  <2> HIDE DEF G
  <2> QED BY <1>3, <1>4, SetInduction
<1>6. PICK f : Upto(L, f)
  BY <1>1, <1>5
<1>7. f = F(f)
  BY <1>1, <1>6 DEF Upto
<1>8. c = F(c)
  <2> HIDE DEF F
  <2> QED BY <1>7
<1>9. Dedup(s) = c[L]
  BY DEF Dedup, t, L
<1> HIDE DEF c
<1>10. c[0] = {} /\ \A i \in 1..L : c[i] = Keep(c[i - 1], t[i])
  <2>1. 0 \in 0..L /\ \A i \in 1..L : i \in 0..L /\ i # 0
    BY <1>1
  <2> QED BY <2>1, <1>8
<1> HIDE DEF F
<1> DEFINE H == {k \in Nat : k <= L => Good(k, c[k])}
<1>11. 0 \in H
  <2>1. Of(0) = {} /\ IsFiniteSet({})
    BY FS_EmptySet
  <2> QED BY <2>1, <1>10 DEF OneEach, KeepsNewest
<1>12. ASSUME NEW k \in Nat, k \in H PROVE k + 1 \in H
  <2> SUFFICES ASSUME k + 1 <= L PROVE Good(k + 1, c[k + 1])
    OBVIOUS
  <2>1. k + 1 \in 1..L /\ (k + 1) - 1 = k /\ k <= L
    BY <1>1
  <2>2. Good(k, c[k])
    BY <2>1, <1>12
  <2>3. c[k + 1] = Keep(c[k], t[k + 1]) /\ t[k + 1] \in Messages
    BY <2>1, <1>1, <1>10
  <2>4. Of(k) \subseteq Messages
    <3>1. \A j \in 1..k : j \in 1..L
      BY <2>1, <1>1
    <3> QED BY <3>1, <1>1
  <2>5. Of(k + 1) = Of(k) \cup {t[k + 1]}
    <3>1. \A j \in 1..(k + 1) : j \in 1..k \/ j = k + 1
      OBVIOUS
    <3>2. \A j \in 1..k : j \in 1..(k + 1)
      OBVIOUS
    <3>3. k + 1 \in 1..(k + 1)
      OBVIOUS
    <3> QED BY <3>1, <3>2, <3>3
  <2> HIDE DEF Of
  <2>6. c[k] \in SUBSET Messages /\ IsFiniteSet(c[k]) /\ OneEach(c[k])
    BY <2>2, <2>4
  <2>7. /\ c[k + 1] \subseteq c[k] \cup {t[k + 1]} /\ IsFiniteSet(c[k + 1])
        /\ OneEach(c[k + 1]) /\ KeepsNewest(c[k + 1], c[k] \cup {t[k + 1]})
    <3> DEFINE S == c[k]
               m == t[k + 1]
    <3>1. S \in SUBSET Messages /\ IsFiniteSet(S) /\ OneEach(S) /\ m \in Messages
      BY <2>3, <2>6
    <3> HIDE DEF S, m
    <3>2. /\ Keep(S, m) \subseteq S \cup {m} /\ IsFiniteSet(Keep(S, m))
          /\ OneEach(Keep(S, m)) /\ KeepsNewest(Keep(S, m), S \cup {m})
      BY <3>1, KeepFacts
    <3> QED BY <3>2, <2>3 DEF S, m
  <2>8. KeepsNewest(c[k + 1], Of(k) \cup {t[k + 1]})
    <3> SUFFICES ASSUME NEW x \in Of(k) \cup {t[k + 1]}
                 PROVE  \E y \in c[k + 1] : y.u = x.u /\ x.E <= y.E
      BY DEF KeepsNewest
    <3>1. PICK z \in c[k] \cup {t[k + 1]} : z.u = x.u /\ x.E <= z.E
      <4>1. x.E \in Nat
        BY <2>3, <2>4, MessagesAssumption
      <4>2. CASE x = t[k + 1]
        BY <4>1, <4>2
      <4>3. CASE x \in Of(k)
        BY <4>3, <2>2 DEF KeepsNewest
      <4> QED BY <4>2, <4>3
    <3>2. PICK y \in c[k + 1] : y.u = z.u /\ z.E <= y.E
      BY <3>1, <2>7 DEF KeepsNewest
    <3>3. x.E \in Nat /\ y.E \in Nat /\ z.E \in Nat
      BY <2>3, <2>4, <2>6, <2>7, MessagesAssumption
    <3> QED BY <3>1, <3>2, <3>3
  <2> QED BY <2>2, <2>5, <2>7, <2>8
<1>13. Nat \subseteq H
  <2> HIDE DEF H
  <2> QED BY <1>11, <1>12, SetInduction
<1>14. Good(L, c[L])
  <2> HIDE DEF Good
  <2> QED BY <1>1, <1>13
<1>15. Of(L) = ToSet(s)
  <2>1. DOMAIN t = 1..L
    BY <1>1 DEF L
  <2>2. ToSet(t) = Of(L)
    BY <2>1 DEF ToSet
  <2> QED BY <2>2, <1>1
<1> QED BY <1>9, <1>14, <1>15

\* The second sort: the kept records in the order of their final ids.
LEMMA FinalIdFacts ==
  ASSUME NEW S \in SUBSET Messages, IsFiniteSet(S), OneEach(S)
  PROVE  /\ ByFinalId(S) \in Seq(Messages)
         /\ ToSet(ByFinalId(S)) = S
         /\ \A i, j \in DOMAIN ByFinalId(S) : i < j => ByFinalId(S)[i].u < ByFinalId(S)[j].u
<1> DEFINE n == Cardinality(S)
           R == {p \in S \X S : p[1].u < p[2].u}
           t == ByFinalId(S)
           Ahead(m) == {x \in S : x.u < m.u}
           at(k) == CHOOSE m \in S : Cardinality(Ahead(m)) = k - 1
<1>1. n \in Nat /\ \A m \in S : m.u \in Nat
  BY FS_CardinalityType, MessagesAssumption
<1>2. t = [k \in 1..n |-> at(k)]
  BY DEF ByFinalId
<1> HIDE DEF t, n
<1>3. R \in SUBSET (S \X S) /\ \A x, y \in S : <<x, y>> \in R <=> x.u < y.u
  OBVIOUS
<1> HIDE DEF R
<1>4. StrictOrder(S, R)
  BY <1>1, <1>3 DEF OneEach, StrictOrder
<1>5. /\ \A x \in S : \E k \in 1..n : PlaceIs(S, R, x, k)
      /\ \A k \in 1..n : \E x \in S : PlaceIs(S, R, x, k)
      /\ \A k, l \in 1..n : \A x, y \in S :
            PlaceIs(S, R, x, k) /\ PlaceIs(S, R, y, l) =>
               (<<x, y>> \in R <=> k < l) /\ (x = y <=> k = l)
  <2>1. Placed(S, R, n)
    BY <1>4, Places DEF n
  <2> QED BY <2>1 DEF Placed
<1>6. \A x \in S : \A k \in 1..n : PlaceIs(S, R, x, k) <=> Cardinality(Ahead(x)) = k - 1
  <2>1. \A x \in S : {y \in S : <<y, x>> \in R} = Ahead(x)
    BY <1>3
  <2> QED BY <2>1 DEF PlaceIs
<1> HIDE DEF Ahead
<1>7. ASSUME NEW k \in 1..n PROVE at(k) \in S /\ PlaceIs(S, R, at(k), k)
  <2>1. \E x \in S : Cardinality(Ahead(x)) = k - 1
    BY <1>5, <1>6
  <2>2. at(k) \in S /\ Cardinality(Ahead(at(k))) = k - 1
    BY <2>1
  <2> QED BY <2>2, <1>6
<1> HIDE DEF at
<1>8. t \in Seq(Messages) /\ DOMAIN t = 1..n
  <2>1. t \in [1..n -> Messages]
    BY <1>2, <1>7
  <2> QED BY <2>1, <1>1
<1>9. ToSet(t) = S
  <2>1. ToSet(t) = {at(k) : k \in 1..n}
    BY <1>2, <1>8 DEF ToSet
  <2>2. ASSUME NEW x \in S PROVE \E k \in 1..n : at(k) = x
    <3>1. PICK k \in 1..n : PlaceIs(S, R, x, k)
      BY <1>5
    <3>2. at(k) \in S /\ PlaceIs(S, R, at(k), k)
      BY <1>7
    <3>3. at(k) = x
      BY <3>1, <3>2, <1>5
    <3> QED BY <3>3
  <2> QED BY <2>1, <2>2, <1>7
<1>10. ASSUME NEW i \in 1..n, NEW j \in 1..n, i < j PROVE t[i].u < t[j].u
  <2>1. <<at(i), at(j)>> \in R /\ at(i) \in S /\ at(j) \in S
    BY <1>5, <1>7, <1>10
  <2> QED BY <2>1, <1>2, <1>3
<1> QED BY <1>8, <1>9, <1>10 DEF t

\* What an attach works on.
LEMMA NormalizeFacts ==
  ASSUME NEW s \in Seq(Messages)
  PROVE  LET out == Normalize(s)
         IN  /\ out \in Seq(Messages)
             /\ ToSet(out) \subseteq ToSet(s)
             /\ OneEach(ToSet(out)) /\ KeepsNewest(ToSet(out), ToSet(s))
             /\ \A i, j \in DOMAIN out : i < j => out[i].u < out[j].u
<1>1. /\ Dedup(s) \subseteq ToSet(s) /\ IsFiniteSet(Dedup(s))
      /\ OneEach(Dedup(s)) /\ KeepsNewest(Dedup(s), ToSet(s))
  BY DedupFacts
<1>2. ToSet(s) \subseteq Messages
  <2>1. \A i \in 1..Len(s) : s[i] \in Messages
    BY ElementOfSeq
  <2> QED BY <2>1 DEF ToSet
<1> DEFINE S == Dedup(s)
<1>3. S \in SUBSET Messages
  BY <1>1, <1>2
<1> HIDE DEF S
<1>4. /\ ByFinalId(S) \in Seq(Messages)
      /\ ToSet(ByFinalId(S)) = S
      /\ \A i, j \in DOMAIN ByFinalId(S) : i < j => ByFinalId(S)[i].u < ByFinalId(S)[j].u
  BY <1>1, <1>3, FinalIdFacts DEF S
<1> QED BY <1>1, <1>4 DEF Normalize, S

\* find_bridge returns the first message that bridges.
LEMMA BridgeFacts ==
  ASSUME NEW d \in Seq(Messages), NEW x
  PROVE  LET b == FindBridge(x, d)
         IN  /\ b \in 0..Len(d)
             /\ b = 0 => \A i \in 1..Len(d) : ~BridgesOnto(d[i], x)
             /\ b # 0 => /\ BridgesOnto(d[b], x)
                         /\ \A i \in 1..Len(d) : i < b => ~BridgesOnto(d[i], x)
<1> DEFINE I == {i \in 1..Len(d) : BridgesOnto(d[i], x)}
           b == FindBridge(x, d)
           least == CHOOSE i \in I : \A j \in I : i <= j
<1>1. b = IF I # {} THEN least ELSE 0
  BY DEF FindBridge, SelectInSeq, Min
<1>2. I \in SUBSET Nat /\ Len(d) \in Nat
  OBVIOUS
<1> HIDE DEF b
<1>3. CASE I = {}
  BY <1>1, <1>2, <1>3 DEF b
<1>4. CASE I # {}
  <2> HIDE DEF I
  <2>1. \E i \in I : \A j \in I : i <= j
    BY <1>2, <1>4, LeastOf
  <2>2. b \in I /\ \A j \in I : b <= j
    BY <1>1, <1>4, <2>1
  <2>3. b \in 1..Len(d) /\ BridgesOnto(d[b], x)
    BY <2>2 DEF I
  <2>4. \A i \in 1..Len(d) : i < b => ~BridgesOnto(d[i], x)
    BY <2>2, <2>3, <1>2 DEF I
  <2> QED BY <2>3, <2>4, <1>2 DEF b
<1> QED BY <1>3, <1>4

\* A chain is applied as a whole.
LEMMA PrefixFacts ==
  ASSUME NEW d \in Seq(Messages), Chained(d)
  PROVE  AppliedPrefix(d) = d
<1> DEFINE L == Len(d)
           Cut(k) == /\ Chained(SubSeq(d, 1, k))
                     /\ k < L => ~Chained(SubSeq(d, 1, k + 1))
           last == CHOOSE k \in 0..L : Cut(k)
<1>1. L \in Nat /\ SubSeq(d, 1, L) = d
  OBVIOUS
<1>2. ASSUME NEW k \in 0..L PROVE Chained(SubSeq(d, 1, k))
  <2> DEFINE q == SubSeq(d, 1, k)
  <2>1. Len(q) = k /\ \A i \in 1..k : q[i] = d[i]
    BY <1>1
  <2> HIDE DEF q
  <2>2. \A i \in 2..k : i \in 1..k /\ i - 1 \in 1..k /\ i \in 2..L
    BY <1>1
  <2>3. Chained(q)
    BY <2>1, <2>2 DEF Chained
  <2> QED BY <2>3 DEF q
<1>3. AppliedPrefix(d) = SubSeq(d, 1, last)
  BY DEF AppliedPrefix
<1>4. L \in 0..L /\ Cut(L)
  BY <1>1, <1>2
<1>5. last \in 0..L /\ Cut(last)
  <2> HIDE DEF Cut
  <2> QED BY <1>4
<1> HIDE DEF last
<1>6. last = L
  <2>1. last \in 0..L
    BY <1>5
  <2>2. ASSUME last < L PROVE FALSE
    <3>1. last + 1 \in 0..L
      BY <1>1, <2>1, <2>2
    <3>2. Chained(SubSeq(d, 1, last + 1))
      BY <3>1, <1>2
    <3>3. ~Chained(SubSeq(d, 1, last + 1))
      BY <1>5, <2>2
    <3> QED BY <3>2, <3>3
  <2> HIDE DEF L
  <2> QED BY <1>1, <2>1, <2>2
<1> QED BY <1>1, <1>3, <1>6

\* What the two rules say of a message that bridges, and of one that does not
\* although the snapshot stops before its end.
LEMMA RuleFacts ==
  ASSUME NEW m \in Messages, NEW x \in Nat
  PROVE  /\ BridgesOnto(m, x) => m.pu <= x /\ x < m.u
         /\ x < m.u /\ m.pu <= x => BridgesOnto(m, x)
<1>1. m.U \in Nat /\ m.u \in Nat /\ m.pu \in Nat /\ m.pu < m.U /\ m.U <= m.u
  BY MessagesAssumption
<1> QED BY <1>1 DEF BridgesOnto

\* The cases of an attach: when it goes live, and what it has applied then.
LEMMA LiveCase ==
  ASSUME NEW s \in Seq(Messages), NEW x \in Nat
  PROVE  LET d == Normalize(s)
             b == FindBridge(x, d)
             t == SubSeq(d, b, Len(d))
         IN  /\ Attach(x, s).outcome = "live" =>
                   b # 0 /\ Chained(t) /\ Attach(x, s).applied = AppliedPrefix(t)
             /\ s # <<>> /\ ~(x < d[1].pu) /\ b # 0 /\ Chained(t) =>
                   Attach(x, s).outcome = "live"
<1> DEFINE d == Normalize(s)
           b == FindBridge(x, d)
           t == SubSeq(d, b, Len(d))
           r == Attach(x, s)
           retry == [outcome |-> "retry", applied |-> <<>>]
           tried == [outcome |-> IF Chained(t) THEN "live" ELSE "retry",
                     applied |-> AppliedPrefix(t)]
<1>1. r = IF s = <<>> THEN retry
          ELSE IF x < d[1].pu THEN [retry EXCEPT !.outcome = "resnapshot"]
          ELSE IF b = 0 THEN retry
          ELSE tried
  BY DEF Attach
<1>2. /\ retry.outcome = "retry" /\ [retry EXCEPT !.outcome = "resnapshot"].outcome = "resnapshot"
      /\ tried.outcome = IF Chained(t) THEN "live" ELSE "retry"
      /\ tried.applied = AppliedPrefix(t)
  OBVIOUS
<1>3. /\ r.outcome = "live" => b # 0 /\ Chained(t) /\ r.applied = AppliedPrefix(t)
      /\ s # <<>> /\ ~(x < d[1].pu) /\ b # 0 /\ Chained(t) => r.outcome = "live"
  <2> HIDE DEF d, b, t, r, retry, tried
  <2>1. CASE s = <<>>
    BY <1>1, <1>2, <2>1
  <2>2. CASE s # <<>> /\ x < d[1].pu
    BY <1>1, <1>2, <2>2
  <2>3. CASE s # <<>> /\ ~(x < d[1].pu) /\ b = 0
    BY <1>1, <1>2, <2>3
  <2>4. CASE s # <<>> /\ ~(x < d[1].pu) /\ b # 0
    <3>1. r = tried
      BY <1>1, <2>4
    <3>2. r.applied = AppliedPrefix(t)
      BY <3>1, <1>2
    <3>3. r.outcome = IF Chained(t) THEN "live" ELSE "retry"
      BY <3>1, <1>2
    <3> QED BY <3>2, <3>3, <2>4
  <2> QED BY <2>1, <2>2, <2>3, <2>4
<1> QED BY <1>3

\* The diffs from the bridge on.
LEMMA TailFacts ==
  ASSUME NEW d \in Seq(Messages), NEW b \in 1..Len(d), NEW t, t = SubSeq(d, b, Len(d))
  PROVE  /\ t \in Seq(Messages) /\ Len(t) = Len(d) - b + 1
         /\ \A i \in 1..Len(t) : b + i - 1 \in 1..Len(d) /\ t[i] = d[b + i - 1]
         /\ \A i \in b..Len(d) : i - b + 1 \in 1..Len(t) /\ t[i - b + 1] = d[i]
<1>1. Len(d) \in Nat /\ b \in Nat /\ Len(d) \in 1..Len(d)
  OBVIOUS
<1>2. /\ t \in Seq(Messages) /\ Len(t) = Len(d) - b + 1
      /\ \A i \in 1..Len(d) - b + 1 : t[i] = d[b + i - 1]
  BY <1>1
<1>3. \A i \in b..Len(d) : i - b + 1 \in 1..Len(d) - b + 1 /\ b + (i - b + 1) - 1 = i
  BY <1>1
<1>4. \A i \in b..Len(d) : t[i - b + 1] = d[i]
  BY <1>2, <1>3
<1>5. \A i \in 1..Len(d) - b + 1 : b + i - 1 \in 1..Len(d)
  BY <1>1
<1> QED BY <1>2, <1>3, <1>4, <1>5

\* The final ids of a sequence.
LEMMA IdsOf ==
  ASSUME NEW d \in Seq(Messages)
  PROVE  /\ ToSet(d) = {d[i] : i \in 1..Len(d)}
         /\ \A i \in 1..Len(d) : d[i] \in Messages
         /\ d # <<>> <=> Len(d) >= 1
<1>1. \A i \in 1..Len(d) : d[i] \in Messages
  BY ElementOfSeq
<1>2. Len(d) \in Nat /\ (d # <<>> <=> Len(d) # 0)
  BY EmptySeq
<1> QED BY <1>1, <1>2 DEF ToSet

\* Whatever the buffer, an attach works on the newest record of each update.
LEMMA KeepsNewestHolds ==
  ASSUME buffered \in Seq(Messages)
  PROVE  NormalizeKeepsNewest
<1> DEFINE out == Normalize(buffered)
<1>1. /\ out \in Seq(Messages) /\ ToSet(out) \subseteq ToSet(buffered)
      /\ OneEach(ToSet(out)) /\ KeepsNewest(ToSet(out), ToSet(buffered))
      /\ \A i, j \in DOMAIN out : i < j => out[i].u < out[j].u
  BY NormalizeFacts
<1> HIDE DEF out
<1>2. {m.u : m \in ToSet(out)} = {m.u : m \in ToSet(buffered)}
  BY <1>1 DEF KeepsNewest
<1>3. \A m \in ToSet(out) : \A n \in ToSet(buffered) : n.u = m.u => n.E <= m.E
  BY <1>1 DEF KeepsNewest, OneEach
<1> QED BY <1>1, <1>2, <1>3 DEF NormalizeKeepsNewest, out

\* A book that goes live has exactly the snapshot and every diff beyond it:
\* what is before the bridge ends where the bridge's predecessor does at the
\* latest, and the snapshot covers that.
LEMMA ExactHolds ==
  ASSUME buffered \in Seq(Messages), snapshotU \in SnapshotIds
  PROVE  LiveIsExact
<1> DEFINE x == snapshotU
           d == Normalize(buffered)
           b == FindBridge(x, d)
           t == SubSeq(d, b, Len(d))
           a == Result.applied
           ids == {n.u : n \in ToSet(buffered)}
<1>1. x \in Nat
  BY MessagesAssumption
<1>2. /\ d \in Seq(Messages)
      /\ \A i, j \in DOMAIN d : i < j => d[i].u < d[j].u
  BY NormalizeFacts
<1>3. {m.u : m \in ToSet(d)} = ids
  BY KeepsNewestHolds DEF NormalizeKeepsNewest
<1>4. /\ b \in 0..Len(d)
      /\ b # 0 => BridgesOnto(d[b], x)
  <2> HIDE DEF d
  <2> QED BY <1>2, BridgeFacts
<1>5. Result.outcome = "live" => b # 0 /\ Chained(t) /\ a = AppliedPrefix(t)
  <2>1. Attach(x, buffered).outcome = "live" =>
            b # 0 /\ Chained(t) /\ Attach(x, buffered).applied = AppliedPrefix(t)
    BY <1>1, LiveCase
  <2>2. Result = Attach(x, buffered)
    BY DEF Result
  <2> QED BY <2>1, <2>2
<1> SUFFICES ASSUME Result.outcome = "live"
             PROVE  /\ a # <<>>
                    /\ a[1].pu <= x /\ x < a[1].u
                    /\ \A i \in 2..Len(a) : a[i].pu = a[i - 1].u
                    /\ {m.u : m \in ToSet(a)} = {u \in ids : u > x}
  BY DEF LiveIsExact
<1> HIDE DEF d
<1>6. Len(d) \in Nat /\ DOMAIN d = 1..Len(d)
  BY <1>2
<1>7. b \in 1..Len(d) /\ BridgesOnto(d[b], x)
  BY <1>4, <1>5, <1>6
<1> HIDE DEF b
<1>8. /\ t \in Seq(Messages) /\ Len(t) = Len(d) - b + 1
      /\ \A i \in 1..Len(t) : b + i - 1 \in 1..Len(d) /\ t[i] = d[b + i - 1]
      /\ \A i \in b..Len(d) : i - b + 1 \in 1..Len(t) /\ t[i - b + 1] = d[i]
  BY <1>2, <1>7, TailFacts
<1> HIDE DEF t
<1>9. a = t /\ Chained(a)
  BY <1>5, <1>8, PrefixFacts
<1> HIDE DEF a
<1>10. /\ \A i \in 1..Len(d) : d[i] \in Messages
       /\ ToSet(d) = {d[i] : i \in 1..Len(d)}
       /\ ToSet(a) = {a[i] : i \in 1..Len(a)}
  BY <1>2, <1>8, <1>9, IdsOf
<1>11. Len(a) >= 1 /\ a[1] = d[b]
  <2>1. b \in b..Len(d) /\ b - b + 1 = 1
    BY <1>6, <1>7
  <2>2. 1 \in 1..Len(t) /\ t[1] = d[b]
    BY <1>8, <2>1
  <2> QED BY <1>9, <2>2
<1>12. d[b].pu <= x /\ x < d[b].u
  BY <1>1, <1>7, <1>10, RuleFacts
<1>13. \A i \in 1..Len(d) : d[i].u \in Nat /\ d[i].pu \in Nat
  BY <1>10, MessagesAssumption
<1>14. ASSUME NEW i \in b..Len(d) PROVE d[i].u > x
  <2>1. i \in 1..Len(d) /\ b <= i
    BY <1>6, <1>7
  <2>2. i = b \/ d[b].u < d[i].u
    BY <1>2, <1>6, <1>7, <2>1
  <2> QED BY <1>1, <1>7, <1>12, <1>13, <2>1, <2>2
<1>15. ASSUME NEW i \in 1..Len(d), d[i].u > x PROVE i \in b..Len(d)
  <2>1. ASSUME i < b PROVE FALSE
    <3>1. d[i].u < d[b].u
      BY <1>2, <1>6, <1>7, <2>1
    <3>2. d[i].u <= d[b].pu
      BY <3>1, <1>7, <1>10, MessagesAssumption
    <3> QED BY <3>2, <1>1, <1>7, <1>12, <1>13, <1>15
  <2> QED BY <2>1, <1>6, <1>7
<1>16. {m.u : m \in ToSet(a)} = {u \in ids : u > x}
  <2>1. ids = {d[i].u : i \in 1..Len(d)}
    BY <1>3, <1>10
  <2>2. {m.u : m \in ToSet(a)} = {d[i].u : i \in b..Len(d)}
    <3>1. {m.u : m \in ToSet(a)} = {a[i].u : i \in 1..Len(a)}
      BY <1>10
    <3>2. \A i \in 1..Len(a) : b + i - 1 \in b..Len(d) /\ a[i] = d[b + i - 1]
      BY <1>6, <1>7, <1>8, <1>9
    <3>3. \A i \in b..Len(d) : i - b + 1 \in 1..Len(a) /\ a[i - b + 1] = d[i]
      BY <1>8, <1>9
    <3>4. \A i \in 1..Len(a) : \E j \in b..Len(d) : a[i].u = d[j].u
      BY <3>2
    <3>5. \A j \in b..Len(d) : \E i \in 1..Len(a) : a[i].u = d[j].u
      BY <3>3
    <3> DEFINE P == {a[i].u : i \in 1..Len(a)}
               Q == {d[i].u : i \in b..Len(d)}
    <3>6. \A v \in P : v \in Q
      BY <3>4
    <3>7. \A v \in Q : v \in P
      BY <3>5
    <3> QED BY <3>1, <3>6, <3>7
  <2>3. b..Len(d) \subseteq 1..Len(d)
    BY <1>6, <1>7
  <2> HIDE DEF ids
  <2> QED BY <2>1, <2>2, <2>3, <1>14, <1>15
<1>17. a # <<>>
  BY <1>8, <1>9, <1>11
<1>18. a[1].pu <= x /\ x < a[1].u
  BY <1>11, <1>12
<1>19. \A i \in 2..Len(a) : a[i].pu = a[i - 1].u
  BY <1>9 DEF Chained
<1> QED BY <1>16, <1>17, <1>18, <1>19

\* A snapshot inside an unbroken stretch finds its bridge: the first diff that
\* ends beyond it, since the one before that diff does not.
LEMMA UnbrokenHolds ==
  ASSUME buffered \in Seq(Messages), snapshotU \in SnapshotIds
  PROVE  UnbrokenAttaches
<1> DEFINE x == snapshotU
           d == Normalize(buffered)
           b == FindBridge(x, d)
           t == SubSeq(d, b, Len(d))
           Beyond == {i \in 1..Len(d) : x < d[i].u}
<1>1. x \in Nat
  BY MessagesAssumption
<1>2. d \in Seq(Messages) /\ ToSet(d) \subseteq ToSet(buffered)
  BY NormalizeFacts
<1>3. buffered # <<>> /\ ~(x < d[1].pu) /\ b # 0 /\ Chained(t) => Result.outcome = "live"
  BY <1>1, LiveCase DEF Result
<1> SUFFICES ASSUME d # <<>>, \A i \in 2..Len(d) : d[i].pu = d[i - 1].u,
                    d[1].pu <= x, x < Last(d).u
             PROVE  Result.outcome = "live"
  BY DEF UnbrokenAttaches
<1> HIDE DEF d
<1>4. /\ b \in 0..Len(d)
      /\ b = 0 => \A i \in 1..Len(d) : ~BridgesOnto(d[i], x)
  BY <1>2, BridgeFacts
<1>5. /\ \A i \in 1..Len(d) : d[i] \in Messages
      /\ ToSet(d) = {d[i] : i \in 1..Len(d)}
      /\ Len(d) \in Nat /\ Len(d) >= 1
  BY <1>2, IdsOf
<1>6. \A i \in 1..Len(d) : d[i].u \in Nat /\ d[i].pu \in Nat
  BY <1>5, MessagesAssumption
<1>7. PICK i \in Beyond : \A j \in Beyond : i <= j
  <2>1. Len(d) \in Beyond
    BY <1>5 DEF Last
  <2>2. Beyond \in SUBSET Nat
    OBVIOUS
  <2> HIDE DEF Beyond
  <2> QED BY <2>1, <2>2, LeastOf
<1>8. d[i].pu <= x
  <2>1. CASE i = 1
    BY <2>1
  <2>2. CASE i # 1
    <3>1. i \in 2..Len(d) /\ i - 1 \in 1..Len(d) /\ ~(i <= i - 1)
      BY <1>5, <2>2
    <3>2. i - 1 \notin Beyond
      BY <1>7, <3>1
    <3>3. d[i - 1].u <= x
      BY <1>1, <1>6, <3>1, <3>2
    <3> QED BY <3>1, <3>3
  <2> QED BY <2>1, <2>2
<1>9. BridgesOnto(d[i], x)
  BY <1>1, <1>5, <1>8, RuleFacts
<1>10. b \in 1..Len(d)
  BY <1>4, <1>5, <1>9
<1> HIDE DEF b
<1>11. /\ t \in Seq(Messages) /\ Len(t) = Len(d) - b + 1
       /\ \A k \in 1..Len(t) : b + k - 1 \in 1..Len(d) /\ t[k] = d[b + k - 1]
  BY <1>2, <1>10, TailFacts
<1> HIDE DEF t
<1>12. Chained(t)
  <2>1. ASSUME NEW k \in 2..Len(t) PROVE t[k].pu = t[k - 1].u
    <3>1. k \in 1..Len(t) /\ k - 1 \in 1..Len(t)
      BY <1>5, <1>10, <1>11
    <3>2. t[k] = d[b + k - 1] /\ t[k - 1] = d[b + (k - 1) - 1]
      BY <1>11, <3>1
    <3>3. b + k - 1 \in 2..Len(d) /\ b + (k - 1) - 1 = (b + k - 1) - 1
      BY <1>5, <1>10, <1>11
    <3> HIDE DEF b
    <3>4. d[b + k - 1].pu = d[(b + k - 1) - 1].u
      BY <3>3
    <3> QED BY <3>2, <3>3, <3>4
  <2> QED BY <2>1 DEF Chained
<1>13. buffered # <<>>
  <2>1. d[1] \in ToSet(buffered)
    BY <1>2, <1>5
  <2> QED BY <2>1 DEF ToSet
<1>14. ~(x < d[1].pu)
  BY <1>1, <1>5, <1>6
<1> QED BY <1>3, <1>10, <1>12, <1>13, <1>14

\* Every attach is right, whatever the updates, the snapshots and the length of
\* the buffer: duplicates, disorder and missing updates included.
THEOREM AttachSoundAlways == BufferSpec => []AttachSound
<1> DEFINE Inv == buffered \in Seq(Messages) /\ snapshotU \in SnapshotIds
<1>1. BufferInit => Inv
  BY DEF BufferInit
<1>2. Inv /\ [BufferNext]_bufferVars => Inv'
  BY DEF BufferNext, Receive, bufferVars
<1>3. Inv => AttachSound
  BY KeepsNewestHolds, ExactHolds, UnbrokenHolds DEF AttachSound
<1> QED BY <1>1, <1>2, <1>3, PTL DEF BufferSpec

-----------------------------------------------------------------------------
(*****************************************************************************)
(* Replayed trades (TradeDedup).                                             *)
(*****************************************************************************)

Distinct(s) == \A i, j \in DOMAIN s : s[i] = s[j] => i = j

\* The window is the last ids taken, each once; the set answers for the queue;
\* each id in it has met its fate, or is the one in hand.
DedupInv ==
    /\ DedupTypeOK
    /\ accepted = order
    /\ seen = ToSet(order)
    /\ Distinct(order)
    /\ seen \subseteq written \union unwritten \union {trade}
    /\ step = "idle" => seen \subseteq written \union unwritten
    /\ step # "idle" => trade \in Ids

\* An id that is not in a queue, put at its end.
LEMMA AppendDistinct ==
  ASSUME NEW S, NEW s \in Seq(S), NEW x \in S, Distinct(s), x \notin ToSet(s)
  PROVE  /\ Append(s, x) \in Seq(S) /\ Len(Append(s, x)) = Len(s) + 1
         /\ ToSet(Append(s, x)) = ToSet(s) \union {x}
         /\ Distinct(Append(s, x))
         /\ s # <<>> => Head(Append(s, x)) = Head(s)
<1> DEFINE t == Append(s, x)
<1>1. /\ t \in Seq(S) /\ Len(t) = Len(s) + 1 /\ DOMAIN t = 1..(Len(s) + 1)
      /\ DOMAIN s = 1..Len(s) /\ Len(s) \in Nat
      /\ \A i \in 1..Len(s) : t[i] = s[i]
      /\ t[Len(s) + 1] = x
  OBVIOUS
<1>2. s # <<>> => Head(t) = Head(s)
  OBVIOUS
<1> HIDE DEF t
<1>3. \A i \in 1..(Len(s) + 1) : i = Len(s) + 1 \/ i \in 1..Len(s)
  BY <1>1
<1>4. \A i \in 1..Len(s) : i \in 1..(Len(s) + 1) /\ Len(s) + 1 \in 1..(Len(s) + 1)
  BY <1>1
<1>5. Len(s) + 1 \in 1..(Len(s) + 1)
  BY <1>1
<1>6. ToSet(t) = ToSet(s) \union {x}
  <2>1. ASSUME NEW y \in ToSet(t) PROVE y \in ToSet(s) \union {x}
    BY <1>1, <1>3 DEF ToSet
  <2>2. \A i \in 1..Len(s) : s[i] \in ToSet(t)
    BY <1>1, <1>4 DEF ToSet
  <2>3. x \in ToSet(t)
    BY <1>1, <1>5 DEF ToSet
  <2> QED BY <2>1, <2>2, <2>3, <1>1 DEF ToSet
<1>7. Distinct(t)
  <2>1. \A i \in 1..Len(s) : s[i] # x
    BY <1>1 DEF ToSet
  <2> QED BY <2>1, <1>1, <1>3 DEF Distinct
<1> QED BY <1>1, <1>2, <1>6, <1>7 DEF t

\* The queue without its front: the front id is gone from its set.
LEMMA TailDistinct ==
  ASSUME NEW S, NEW s \in Seq(S), s # <<>>, Distinct(s)
  PROVE  /\ Tail(s) \in Seq(S) /\ Len(Tail(s)) = Len(s) - 1
         /\ ToSet(Tail(s)) = ToSet(s) \ {Head(s)}
         /\ Distinct(Tail(s))
<1> DEFINE t == Tail(s)
           n == Len(s)
<1>1. /\ t \in Seq(S) /\ Len(t) = n - 1 /\ DOMAIN t = 1..(n - 1)
      /\ DOMAIN s = 1..n /\ n \in Nat \ {0}
      /\ \A i \in 1..(n - 1) : t[i] = s[i + 1]
      /\ Head(s) = s[1]
  OBVIOUS
<1> HIDE DEF t, n
<1>2. /\ \A i \in 1..(n - 1) : i + 1 \in 1..n /\ i + 1 # 1
      /\ \A i \in 1..n : i = 1 \/ (i - 1 \in 1..(n - 1) /\ (i - 1) + 1 = i)
      /\ 1 \in 1..n
  BY <1>1
<1>3. ToSet(t) = ToSet(s) \ {Head(s)}
  <2>1. ASSUME NEW i \in 1..(n - 1) PROVE t[i] \in ToSet(s) /\ t[i] # Head(s)
    <3>1. i + 1 \in DOMAIN s /\ 1 \in DOMAIN s /\ i + 1 # 1 /\ t[i] = s[i + 1]
      BY <1>1, <1>2
    <3>2. s[i + 1] # s[1]
      BY <3>1 DEF Distinct
    <3> QED BY <3>1, <3>2, <1>1 DEF ToSet
  <2>2. ASSUME NEW i \in 1..n, s[i] # Head(s) PROVE s[i] \in ToSet(t)
    <3>1. i - 1 \in 1..(n - 1) /\ t[i - 1] = s[i]
      BY <2>2, <1>1, <1>2
    <3> QED BY <3>1, <1>1 DEF ToSet
  <2>3. ToSet(t) \subseteq ToSet(s) \ {Head(s)}
    BY <2>1, <1>1 DEF ToSet
  <2>4. ToSet(s) \ {Head(s)} \subseteq ToSet(t)
    BY <2>2, <1>1 DEF ToSet
  <2> QED BY <2>3, <2>4
<1>4. Distinct(t)
  <2> SUFFICES ASSUME NEW i \in 1..(n - 1), NEW j \in 1..(n - 1), t[i] = t[j] PROVE i = j
    BY <1>1 DEF Distinct
  <2>1. i + 1 = j + 1
    BY <1>1, <1>2 DEF Distinct
  <2> QED BY <2>1
<1> QED BY <1>1, <1>3, <1>4 DEF t, n

\* Nothing is in the window before the first trade.
LEMMA DedupStart == DedupInit => DedupInv
<1> SUFFICES ASSUME DedupInit PROVE DedupInv
  OBVIOUS
<1>1. ToSet(<<>>) = {} /\ Distinct(<<>>)
  BY DEF ToSet, Distinct
<1>2. order \in Seq(Ids) /\ Len(order) = 0 /\ accepted \in Seq(Ids)
  BY DEF DedupInit
<1> QED BY <1>1, <1>2, TradeDedupAssumption DEF DedupInit, DedupInv, DedupTypeOK

\* What insert makes of the window.
LEMMA RecordKeeps ==
  ASSUME DedupInv, NEW id \in Ids, Record(id)
  PROVE  /\ order' \in Seq(Ids) /\ Len(order') <= Window
         /\ seen' = ToSet(order')
         /\ seen' \subseteq seen \union {id}
         /\ Distinct(order')
<1> DEFINE t == Append(order, id)
<1>1. /\ order \in Seq(Ids) /\ Len(order) \in Nat /\ Len(order) <= Window
      /\ seen = ToSet(order) /\ Distinct(order) /\ id \notin ToSet(order)
      /\ Window \in Nat \ {0}
  BY TradeDedupAssumption DEF DedupInv, DedupTypeOK, Record, IsNew
<1>2. /\ t \in Seq(Ids) /\ Len(t) = Len(order) + 1 /\ ToSet(t) = seen \union {id}
      /\ Distinct(t) /\ (order # <<>> => Head(t) = Head(order))
  BY <1>1, AppendDistinct
<1>3. order' = LastOf(t) /\ seen' = SeenWith(id)
  BY DEF Record
<1> HIDE DEF t
<1>4. CASE Len(order) = Window
  <2>1. order # <<>> /\ t # <<>> /\ order' = Tail(t) /\ seen' = (seen \union {id}) \ {Head(order)}
    BY <1>4, <1>1, <1>2, <1>3 DEF LastOf, SeenWith
  <2> QED BY <2>1, <1>1, <1>2, <1>4, TailDistinct
<1>5. CASE Len(order) # Window
  <2>1. order' = t /\ seen' = seen \union {id}
    BY <1>5, <1>1, <1>2, <1>3 DEF LastOf, SeenWith
  <2> QED BY <2>1, <1>1, <1>2, <1>5
<1> QED BY <1>4, <1>5

\* Every step of process_trade and of the cleanup keeps the window right.
LEMMA DedupStep == DedupInv /\ [DedupNext]_dedupVars => DedupInv'
<1> SUFFICES ASSUME DedupInv, [DedupNext]_dedupVars PROVE DedupInv'
  OBVIOUS
<1> USE DEF DedupInv, DedupTypeOK
<1>1. ASSUME NEW id \in Ids, Record(id) PROVE DedupInv'
  <2>1. accepted' = order' /\ step' = "stamp" /\ trade' = id /\ step = "idle"
        /\ UNCHANGED <<lastSeen, cleaner, written, unwritten>>
    BY <1>1 DEF Record, rowVars
  <2>2. seen' \subseteq seen \union {id} /\ seen \subseteq written \union unwritten
    BY <1>1, <2>1, RecordKeeps
  <2> QED BY <1>1, <2>1, <2>2, RecordKeeps
<1>2. ASSUME NEW id \in Ids, Duplicate(id) PROVE DedupInv'
  BY <1>2 DEF Duplicate, dedupVars, windowVars, handlerVars, rowVars
<1>3. CASE Stamp
  BY <1>3 DEF Stamp, windowVars, rowVars
<1>4. CASE WriteTrade
  <2>1. /\ step' = "idle" /\ trade' = 0
        /\ UNCHANGED <<seen, order, lastSeen, cleaner, accepted>>
    BY <1>4 DEF WriteTrade, windowVars
  <2>2. trade \in Ids
    BY <1>4 DEF WriteTrade
  <2>3. CASE written' = written \union {trade} /\ UNCHANGED unwritten
    BY <1>4, <2>1, <2>2, <2>3 DEF WriteTrade
  <2>4. CASE unwritten' = unwritten \union {trade} /\ UNCHANGED written
    BY <1>4, <2>1, <2>2, <2>4 DEF WriteTrade
  <2> QED BY <1>4, <2>3, <2>4 DEF WriteTrade
<1>5. CASE HourPasses
  BY <1>5 DEF HourPasses, windowVars, handlerVars, rowVars
<1>6. CASE ListStale
  BY <1>6 DEF ListStale, windowVars, handlerVars, rowVars
<1>7. CASE DropWindow
  <2>1. seen' = {} /\ order' = <<>> /\ accepted' = <<>> /\ cleaner' = "dropped"
        /\ UNCHANGED <<lastSeen, step, trade, written, unwritten>>
    BY <1>7 DEF DropWindow, handlerVars, rowVars
  <2>2. ToSet(<<>>) = {} /\ Distinct(<<>>)
    BY DEF ToSet, Distinct
  <2>3. order' \in Seq(Ids) /\ Len(order') <= Window
    BY <2>1, TradeDedupAssumption
  <2> QED BY <2>1, <2>2, <2>3
<1>8. CASE DropStamp
  BY <1>8 DEF DropStamp, windowVars, handlerVars, rowVars
<1>9. CASE UNCHANGED dedupVars
  BY <1>9 DEF dedupVars, windowVars, handlerVars, rowVars
<1> QED BY <1>1, <1>2, <1>3, <1>4, <1>5, <1>6, <1>7, <1>8, <1>9 DEF DedupNext

\* The window of a symbol is what DedupInv says in every reachable state:
\* the last ids taken, each once, none without a fate.
THEOREM DedupInvAlways == DedupSpec => []DedupInv
<1> QED BY DedupStart, DedupStep, PTL DEF DedupSpec

\* TradeDedupWindow::insert tells a replay from a new trade, for windows of any
\* size and ids in any order: no id of the window is taken again, and none is
\* passed over that did not get its row or its error.
THEOREM ReplayToldAlways == DedupSpec => ReplayTold
<1> DEFINE Told == \A id \in Ids :
               /\ Takes(id) => id \notin ToSet(accepted)
               /\ ~IsNew(id) => id \in written \union unwritten \union {trade}
<1>1. ASSUME DedupInv, [DedupNext]_dedupVars PROVE [Told]_dedupVars
  <2>1. ASSUME NEW id \in Ids, DedupNext, Takes(id) PROVE id \notin ToSet(accepted)
    <3>1. step = "idle" /\ step' = "stamp" /\ trade' = id
      BY <2>1 DEF Takes
    <3>2. PICK x \in Ids : Record(x)
      BY <2>1, <3>1 DEF DedupNext, Duplicate, Stamp, WriteTrade, HourPasses, ListStale,
           DropWindow, DropStamp, handlerVars, dedupVars
    <3> QED BY <3>1, <3>2, <1>1 DEF Record, IsNew, DedupInv
  <2>2. ASSUME NEW id \in Ids, ~IsNew(id) PROVE id \in written \union unwritten \union {trade}
    BY <2>2, <1>1 DEF IsNew, DedupInv
  <2> QED BY <2>1, <2>2, <1>1
<1> QED BY <1>1, DedupInvAlways, PTL DEF DedupSpec, ReplayTold

-----------------------------------------------------------------------------
(*****************************************************************************)
(* The rows of a file (CsvFile).                                             *)
(*****************************************************************************)

Once(s) == \A i, j \in DOMAIN s : s[i] = s[j] /\ s[i] # Header => i = j

\* Two sequences without repetitions and without a common row, one after the
\* other, repeat no row.
LEMMA ConcatFacts ==
  ASSUME NEW S, NEW s \in Seq(S), NEW t \in Seq(S)
  PROVE  /\ s \o t \in Seq(S)
         /\ ToSet(s \o t) = ToSet(s) \cup ToSet(t)
         /\ Once(s) /\ Once(t) /\ ToSet(s) \cap ToSet(t) \subseteq {Header} => Once(s \o t)
<1>1. s \o t \in Seq(S) /\ Len(s \o t) = Len(s) + Len(t)
  OBVIOUS
<1> DEFINE st == s \o t
<1>0. /\ DOMAIN s = 1..Len(s) /\ DOMAIN t = 1..Len(t) /\ DOMAIN st = 1..(Len(s) + Len(t))
      /\ Len(s) \in Nat /\ Len(t) \in Nat
      /\ \A i \in 1..Len(s) : st[i] = s[i]
      /\ \A i \in 1..Len(t) : st[i + Len(s)] = t[i]
      /\ \A i \in 1..(Len(s) + Len(t)) : i > Len(s) => i - Len(s) \in 1..Len(t) /\ st[i] = t[i - Len(s)]
  BY <1>1
<1> HIDE DEF st
<1>2. ToSet(st) = ToSet(s) \cup ToSet(t)
  <2>1. ASSUME NEW x \in ToSet(st) PROVE x \in ToSet(s) \cup ToSet(t)
    <3>1. PICK i \in 1..(Len(s) + Len(t)) : x = st[i]
      BY <1>0 DEF ToSet
    <3>2. i \in 1..Len(s) \/ i > Len(s)
      BY <1>0
    <3> QED BY <3>1, <3>2, <1>0 DEF ToSet
  <2>2. ASSUME NEW i \in 1..Len(t) PROVE t[i] \in ToSet(st)
    <3>1. i + Len(s) \in 1..(Len(s) + Len(t))
      BY <1>0
    <3> QED BY <3>1, <1>0 DEF ToSet
  <2>3. ASSUME NEW i \in 1..Len(s) PROVE s[i] \in ToSet(st)
    <3>1. i \in 1..(Len(s) + Len(t))
      BY <1>0
    <3> QED BY <3>1, <1>0 DEF ToSet
  <2>4. ToSet(s) \cup ToSet(t) \subseteq ToSet(st)
    BY <2>2, <2>3, <1>0 DEF ToSet
  <2> QED BY <2>1, <2>4
<1>3. ASSUME Once(s), Once(t), ToSet(s) \cap ToSet(t) \subseteq {Header},
             NEW i \in DOMAIN st, NEW j \in DOMAIN st, st[i] = st[j], st[i] # Header
      PROVE  i = j
  <2>1. ASSUME NEW m \in 1..Len(s), NEW n \in 1..Len(t) PROVE s[m] = t[n] => s[m] = Header
    BY <1>3, <1>0 DEF ToSet
  <2>2. i \in 1..Len(s) \/ (i - Len(s) \in 1..Len(t) /\ st[i] = t[i - Len(s)] /\ i > Len(s))
    BY <1>0
  <2>3. j \in 1..Len(s) \/ (j - Len(s) \in 1..Len(t) /\ st[j] = t[j - Len(s)] /\ j > Len(s))
    BY <1>0
  <2>4. CASE i \in 1..Len(s) /\ j \in 1..Len(s)
    BY <2>4, <1>3, <1>0 DEF Once
  <2>5. CASE i > Len(s) /\ j > Len(s)
    <3>1. i - Len(s) = j - Len(s)
      BY <2>5, <2>2, <2>3, <1>3, <1>0 DEF Once
    <3> QED BY <3>1, <1>0
  <2> QED BY <2>1, <2>2, <2>3, <2>4, <2>5, <1>0, <1>3
<1> QED BY <1>1, <1>2, <1>3 DEF st, Once

\* What two parts of a sequence have of it.
LEMMA SplitFacts ==
  ASSUME NEW S, NEW s \in Seq(S), NEW k \in 0..Len(s)
  PROVE  LET a == SubSeq(s, 1, k)
             b == SubSeq(s, k + 1, Len(s))
         IN  /\ a \in Seq(S) /\ b \in Seq(S)
             /\ ToSet(s) = ToSet(a) \cup ToSet(b)
             /\ Once(s) => /\ Once(a) /\ Once(b)
                           /\ ToSet(a) \cap ToSet(b) \subseteq {Header}
<1> DEFINE a == SubSeq(s, 1, k)
           b == SubSeq(s, k + 1, Len(s))
<1>1. /\ a \in Seq(S) /\ Len(a) = k /\ \A i \in 1..k : a[i] = s[i]
      /\ b \in Seq(S) /\ Len(b) = Len(s) - k /\ \A i \in 1..(Len(s) - k) : b[i] = s[i + k]
  OBVIOUS
<1> HIDE DEF a, b
<1>2. DOMAIN s = 1..Len(s) /\ DOMAIN a = 1..k /\ DOMAIN b = 1..(Len(s) - k) /\ Len(s) \in Nat
  BY <1>1
<1>3. ASSUME NEW x \in ToSet(s) PROVE x \in ToSet(a) \cup ToSet(b)
  <2>1. PICK i \in 1..Len(s) : x = s[i]
    BY <1>2 DEF ToSet
  <2>2. CASE i <= k
    <3>1. i \in 1..k /\ a[i] = s[i]
      BY <2>2, <1>1, <1>2
    <3> QED BY <3>1, <2>1, <1>2 DEF ToSet
  <2>3. CASE i > k
    <3>1. i - k \in 1..(Len(s) - k) /\ b[i - k] = s[i]
      BY <2>3, <2>1, <1>1, <1>2
    <3> QED BY <3>1, <2>1, <1>2 DEF ToSet
  <2> QED BY <2>1, <2>2, <2>3
<1>4. ToSet(a) \subseteq ToSet(s) /\ ToSet(b) \subseteq ToSet(s)
  <2>1. ASSUME NEW i \in 1..k PROVE a[i] \in ToSet(s)
    <3>1. i \in 1..Len(s)
      BY <1>2
    <3> QED BY <3>1, <1>1, <1>2 DEF ToSet
  <2>2. ASSUME NEW i \in 1..(Len(s) - k) PROVE b[i] \in ToSet(s)
    <3>1. i + k \in 1..Len(s)
      BY <1>2
    <3> QED BY <3>1, <1>1, <1>2 DEF ToSet
  <2> QED BY <2>1, <2>2, <1>2 DEF ToSet
<1>5. ASSUME Once(s) PROVE Once(a) /\ Once(b) /\ ToSet(a) \cap ToSet(b) \subseteq {Header}
  <2>1. Once(a)
    BY <1>1, <1>2, <1>5 DEF Once
  <2>2. ASSUME NEW i \in 1..(Len(s) - k), NEW j \in 1..(Len(s) - k), b[i] = b[j], b[i] # Header
        PROVE  i = j
    <3>1. i + k \in DOMAIN s /\ j + k \in DOMAIN s /\ s[i + k] = s[j + k] /\ s[i + k] # Header
      BY <2>2, <1>1, <1>2
    <3>2. i + k = j + k
      BY <3>1, <1>5 DEF Once
    <3> QED BY <3>2, <1>2
  <2>3. ASSUME NEW i \in 1..k, NEW j \in 1..(Len(s) - k), a[i] = b[j]
        PROVE  a[i] = Header
    <3>1. i \in DOMAIN s /\ j + k \in DOMAIN s /\ s[i] = s[j + k] /\ i # j + k
      BY <2>3, <1>1, <1>2
    <3> QED BY <3>1, <1>5, <1>1 DEF Once
  <2>4. ToSet(a) \cap ToSet(b) \subseteq {Header}
    BY <2>3, <1>2 DEF ToSet
  <2> QED BY <2>1, <2>2, <2>4, <1>2 DEF Once
<1> QED BY <1>1, <1>3, <1>4, <1>5 DEF a, b

Orders(S) == {s \in [1..Cardinality(S) -> S] : \A i, j \in DOMAIN s : i < j => s[i] < s[j]}

\* A finite set of numbers can be listed in rising order.
LEMMA OrderExists ==
  ASSUME NEW S \in SUBSET Nat, IsFiniteSet(S)
  PROVE  Orders(S) # {}
<1> DEFINE G == {n \in Nat : \A T \in SUBSET Nat :
                    IsFiniteSet(T) /\ Cardinality(T) = n => Orders(T) # {}}
<1>1. 0 \in G
  <2>1. ASSUME NEW T \in SUBSET Nat, IsFiniteSet(T), Cardinality(T) = 0 PROVE Orders(T) # {}
    <3>1. T = {}
      BY <2>1, FS_EmptySet
    <3>2. [i \in 1..0 |-> 0] \in Orders(T)
      BY <3>1, <2>1 DEF Orders
    <3> QED BY <3>2
  <2> QED BY <2>1
<1>2. ASSUME NEW n \in Nat, n \in G PROVE n + 1 \in G
  <2> SUFFICES ASSUME NEW T \in SUBSET Nat, IsFiniteSet(T), Cardinality(T) = n + 1
               PROVE  Orders(T) # {}
    OBVIOUS
  <2>1. T # {}
    BY FS_EmptySet
  <2>2. PICK m \in T : \A x \in T : m <= x
    BY <2>1, LeastOf
  <2> DEFINE U == T \ {m}
  <2>3. IsFiniteSet(U) /\ Cardinality(U) = n /\ U \in SUBSET Nat
    <3>1. Cardinality(U) = Cardinality(T) - 1 /\ IsFiniteSet(U)
      BY FS_RemoveElement
    <3> QED BY <3>1
  <2>4. PICK s \in [1..n -> U] : \A i, j \in 1..n : i < j => s[i] < s[j]
    <3>1. Orders(U) # {}
      BY <2>3, <1>2
    <3> QED BY <3>1, <2>3 DEF Orders
  <2> DEFINE t == [i \in 1..(n + 1) |-> IF i = 1 THEN m ELSE s[i - 1]]
  <2>5. \A i \in 1..(n + 1) : i # 1 => i - 1 \in 1..n /\ s[i - 1] \in U
    BY <2>4
  <2>6. t \in [1..(n + 1) -> T]
    BY <2>5
  <2>7. ASSUME NEW i \in 1..(n + 1), NEW j \in 1..(n + 1), i < j PROVE t[i] < t[j]
    <3>1. j # 1 /\ t[j] = s[j - 1]
      BY <2>7
    <3>2. CASE i = 1
      <4>1. t[j] \in T /\ t[j] # m
        BY <3>1, <2>5
      <4>2. m <= t[j] /\ t[j] \in Nat /\ m \in Nat
        BY <4>1, <2>2
      <4> QED BY <4>1, <4>2, <3>2
    <3>3. CASE i # 1
      BY <3>1, <3>3, <2>4, <2>5, <2>7
    <3> QED BY <3>2, <3>3
  <2>8. t \in Orders(T)
    BY <2>6, <2>7 DEF Orders
  <2> QED BY <2>8
<1>3. Nat \subseteq G
  BY <1>1, <1>2, SetInduction
<1>4. Cardinality(S) \in Nat
  BY FS_CardinalityType
<1> QED BY <1>3, <1>4

\* The sorted rows (flush_locked) are the rows, each once.
LEMMA InOrderFacts ==
  ASSUME NEW S \in SUBSET Nat, IsFiniteSet(S), Header \notin S
  PROVE  /\ InOrder(S) \in Seq(S)
         /\ ToSet(InOrder(S)) = S
         /\ Once(InOrder(S))
<1> DEFINE n == Cardinality(S)
           s == InOrder(S)
<1>1. n \in Nat
  BY FS_CardinalityType
<1>2. s \in [1..n -> S] /\ \A i, j \in 1..n : i < j => s[i] < s[j]
  BY OrderExists DEF InOrder, Orders
<1> HIDE DEF s
<1>3. \A i, j \in 1..n : s[i] = s[j] => i = j
  <2> SUFFICES ASSUME NEW i \in 1..n, NEW j \in 1..n, s[i] = s[j], i # j PROVE FALSE
    OBVIOUS
  <2>1. i < j \/ j < i
    BY <1>1
  <2>2. s[i] \in S /\ s[j] \in S /\ S \subseteq Nat
    BY <1>2
  <2>3. s[i] \in Nat /\ s[j] \in Nat /\ (s[i] < s[j] \/ s[j] < s[i])
    BY <2>1, <2>2, <1>2
  <2> QED BY <2>3
<1>4. s \in Injection(1..n, S)
  BY <1>2, <1>3 DEF Injection, IsInjective
<1>5. Cardinality(1..n) = n
  BY <1>1, FS_Interval
<1>6. s \in Surjection(1..n, S)
  BY <1>4, <1>5, FS_Injection
<1>7. ToSet(s) = S
  BY <1>2, <1>6 DEF ToSet, Surjection
<1>8. Once(s)
  BY <1>2, <1>3 DEF Once
<1> QED BY <1>1, <1>2, <1>7, <1>8 DEF s

-----------------------------------------------------------------------------
Carries(w) == pc[w] \in {"open", "header", "insert", "push"}
Held(h) == rows[h] \cup ToSet(pipe[h])

\* Who holds a buffer, by where it is; a buffer nobody holds is empty, and so
\* is one its opener has not yet put into the map.
HoldInv ==
    /\ \A a \in Actors :
          /\ pc[a] \in {"idle", "open"} => ref[a] = 0
          /\ pc[a] \notin {"idle", "open"} => ref[a] \in Handles
          /\ Carries(a) => a \in Writers
          /\ pc[a] \in {"header", "insert"} =>
                /\ cached # ref[a]
                /\ \A b \in Actors \ {a} : ref[b] # ref[a]
                /\ rows[ref[a]] = {} /\ pipe[ref[a]] = <<>>
    /\ \A h \in Handles : Free(h) => rows[h] = {} /\ pipe[h] = <<>>

\* Each row handed over is somewhere, and nowhere twice.
Accounted ==
    /\ \A r \in 1..handed : \/ \E w \in Writers : Carries(w) /\ row[w] = r
                            \/ \E h \in Handles : r \in Held(h)
                            \/ r \in ToSet(file)
                            \/ r \in gone
    /\ \A w \in Writers : Carries(w) =>
          /\ row[w] \in 1..handed
          /\ row[w] \notin ToSet(file)
          /\ \A h \in Handles : row[w] \notin Held(h)
          /\ \A v \in Writers \ {w} : Carries(v) => row[v] # row[w]
    /\ \A h \in Handles :
          /\ Held(h) \subseteq 1..handed
          /\ Held(h) \cap ToSet(file) = {}
          /\ rows[h] \cap ToSet(pipe[h]) = {}
          /\ Once(pipe[h])
          /\ \A g \in Handles \ {h} : Held(g) \cap Held(h) = {}
    /\ ToSet(file) \subseteq 0..handed
    /\ Once(file)

RowInv == TypeOK /\ HoldInv /\ Accounted

HeaderFirst == \A i \in DOMAIN file : (file[i] = Header) <=> i = 1

\* A depth file begins with its header; while it is empty nobody but the one
\* task that will write it is at work on it.
HeadInv ==
    depth =>
        /\ HeaderFirst
        /\ file = <<>> => cached = 0 /\ \A a \in Actors : pc[a] \in {"idle", "open", "header"}
        /\ \A w \in Writers : pc[w] = "header" => file = <<>>
        /\ \A w \in Writers \ {Handler} : ~Carries(w)

\* What the proofs use of the constants.
LEMMA CsvConstants ==
  /\ Handler \in Writers /\ Writers \subseteq Actors /\ Flusher \in Actors /\ Evictors \subseteq Actors
  /\ MaxRows \in Nat /\ MaxDepthRows \in Nat /\ MaxFaults \in Nat /\ MaxCrashes \in Nat
  /\ 0 \notin Handles
<1>1. Cardinality(Actors) \in Nat
  BY CsvFileAssumption, FS_CardinalityType DEF Actors
<1>2. 0 \notin Handles
  BY <1>1 DEF Handles
<1> QED BY <1>2, CsvFileAssumption DEF Actors

-----------------------------------------------------------------------------
\* The disk takes the rows of S, in some order and after what it has.
FileGains(S) ==
    \E s \in Seq(1..MaxRows) : file' = file \o s /\ ToSet(s) = S /\ Once(s)

\* Afterwards h holds the rows of S, the other buffers what they held.
BufferKeeps(h, S) ==
    \E R \in SUBSET (1..MaxRows), p \in Seq(1..MaxRows) :
        /\ rows' = [rows EXCEPT ![h] = R]
        /\ pipe' = [pipe EXCEPT ![h] = p]
        /\ R \cup ToSet(p) = S /\ R \cap ToSet(p) = {} /\ Once(p)

\* A disk that gains rows it did not have keeps its header and repeats nothing.
LEMMA FileTyped ==
  ASSUME TypeOK, NEW S, FileGains(S), S \cap ToSet(file) = {}, Once(file)
  PROVE  /\ file' \in Seq(Line) /\ ToSet(file') = ToSet(file) \cup S /\ Once(file')
         /\ file # <<>> => file' # <<>> /\ (HeaderFirst => HeaderFirst')
<1>1. PICK s \in Seq(1..MaxRows) : file' = file \o s /\ ToSet(s) = S /\ Once(s)
  BY DEF FileGains
<1>2. s \in Seq(Line) /\ file \in Seq(Line)
  <2>1. 1..MaxRows \subseteq Line
    BY CsvConstants DEF Line
  <2> QED BY <2>1, SeqMonotonic DEF TypeOK
<1>3. file' \in Seq(Line) /\ ToSet(file') = ToSet(file) \cup S /\ Once(file')
  BY <1>1, <1>2, ConcatFacts
<1>4. ASSUME file # <<>>, \A i \in DOMAIN file : (file[i] = Header) <=> i = 1,
             NEW i \in DOMAIN file'
      PROVE  (file'[i] = Header) <=> i = 1
  <2>1. /\ DOMAIN file = 1..Len(file) /\ Len(file) \in Nat \ {0}
        /\ DOMAIN file' = 1..(Len(file) + Len(s)) /\ Len(s) \in Nat
    BY <1>1, <1>2, <1>4
  <2>2. CASE i <= Len(file)
    BY <2>1, <2>2, <1>1, <1>2, <1>4
  <2>3. CASE i > Len(file)
    <3>1. file'[i] = s[i - Len(file)] /\ i - Len(file) \in 1..Len(s) /\ i # 1
      BY <2>1, <2>3, <1>1, <1>2, <1>4
    <3>2. s[i - Len(file)] \in 1..MaxRows
      BY <3>1, <1>1, ElementOfSeq
    <3> QED BY <3>1, <3>2, CsvConstants DEF Header
  <2> QED BY <2>1, <2>2, <2>3, <1>4
<1>5. file # <<>> => file' # <<>>
  BY <1>1, <1>2
<1>6. file # <<>> => (HeaderFirst => HeaderFirst')
  BY <1>4 DEF HeaderFirst
<1> QED BY <1>3, <1>5, <1>6

\* A queue of rows of which the disk takes the first k.
LEMMA DrainFacts ==
  ASSUME NEW s \in Seq(1..MaxRows), Once(s), NEW k \in 0..Len(s),
         file' = file \o SubSeq(s, 1, k)
  PROVE  LET b == SubSeq(s, k + 1, Len(s))
         IN  /\ FileGains(ToSet(s) \ ToSet(b))
             /\ b \in Seq(1..MaxRows) /\ Once(b)
             /\ ToSet(b) \subseteq ToSet(s)
<1> DEFINE a == SubSeq(s, 1, k)
           b == SubSeq(s, k + 1, Len(s))
<1>1. /\ a \in Seq(1..MaxRows) /\ b \in Seq(1..MaxRows)
      /\ ToSet(s) = ToSet(a) \cup ToSet(b)
      /\ Once(a) /\ Once(b) /\ ToSet(a) \cap ToSet(b) \subseteq {Header}
  BY SplitFacts
<1>2. ToSet(a) = ToSet(s) \ ToSet(b)
  <2>1. \A x \in ToSet(a) : x # Header
    <3> SUFFICES ASSUME NEW i \in DOMAIN a PROVE a[i] # Header
      BY DEF ToSet
    <3> HIDE DEF a
    <3>1. DOMAIN a = 1..Len(a)
      BY <1>1, LenProperties
    <3>2. a[i] \in 1..MaxRows
      BY <1>1, <3>1, ElementOfSeq
    <3> QED BY <3>2, CsvConstants DEF Header
  <2> QED BY <2>1, <1>1
<1>3. FileGains(ToSet(s) \ ToSet(b))
  BY <1>1, <1>2 DEF FileGains
<1> QED BY <1>1, <1>3

\* What a buffer holds is made of rows.
LEMMA RowsOf ==
  ASSUME TypeOK, NEW h \in Handles
  PROVE  /\ rows[h] \in SUBSET (1..MaxRows) /\ rows[h] \in SUBSET Nat /\ IsFiniteSet(rows[h])
         /\ Header \notin rows[h]
         /\ pipe[h] \in Seq(1..MaxRows) /\ ToSet(pipe[h]) \subseteq 1..MaxRows
         /\ InOrder(rows[h]) \in Seq(1..MaxRows)
         /\ ToSet(InOrder(rows[h])) = rows[h] /\ Once(InOrder(rows[h]))
<1>1. rows[h] \in SUBSET (1..MaxRows) /\ pipe[h] \in Seq(1..MaxRows)
  BY DEF TypeOK
<1>2. rows[h] \in SUBSET Nat /\ Header \notin rows[h]
  BY <1>1, CsvConstants DEF Header
<1>3. IsFiniteSet(rows[h])
  <2>1. IsFiniteSet(1..MaxRows)
    BY CsvConstants, FS_Interval
  <2> QED BY <2>1, <1>1, FS_Subset
<1>4. InOrder(rows[h]) \in Seq(rows[h]) /\ ToSet(InOrder(rows[h])) = rows[h] /\ Once(InOrder(rows[h]))
  BY <1>2, <1>3, InOrderFacts
<1>5. InOrder(rows[h]) \in Seq(1..MaxRows)
  BY <1>1, <1>4, SeqMonotonic
<1>6. ToSet(pipe[h]) \subseteq 1..MaxRows
  <2>1. DOMAIN pipe[h] = 1..Len(pipe[h])
    BY <1>1, LenProperties
  <2>2. \A i \in 1..Len(pipe[h]) : pipe[h][i] \in 1..MaxRows
    BY <1>1, ElementOfSeq
  <2> QED BY <2>1, <2>2 DEF ToSet
<1> QED BY <1>1, <1>2, <1>3, <1>4, <1>5, <1>6

\* The empty sequence.
LEMMA EmptyFacts == ToSet(<<>>) = {} /\ Once(<<>>)
BY DEF ToSet, Once

\* What a flush of h would write.
LEMMA WaitingFacts ==
  ASSUME TypeOK, Accounted, NEW h \in Handles
  PROVE  Waiting(h) \in Seq(1..MaxRows) /\ ToSet(Waiting(h)) = Held(h) /\ Once(Waiting(h))
<1>1. pipe[h] \in Seq(1..MaxRows) /\ InOrder(rows[h]) \in Seq(1..MaxRows)
      /\ ToSet(InOrder(rows[h])) = rows[h] /\ Once(InOrder(rows[h]))
  BY RowsOf
<1>2. Once(pipe[h]) /\ rows[h] \cap ToSet(pipe[h]) = {}
  BY DEF Accounted
<1> QED BY <1>1, <1>2, ConcatFacts DEF Waiting, Held

\* A flush, failing or not, moves rows of h to the disk and keeps the others.
LEMMA FlushMoves ==
  ASSUME TypeOK, Accounted, NEW h \in Handles, Flush(h)
  PROVE  \E keep \in SUBSET Held(h) : FileGains(Held(h) \ keep) /\ BufferKeeps(h, keep)
<1>1. CASE Flushed(h)
  <2>1. FileGains(Held(h))
    BY <1>1, WaitingFacts DEF Flushed, FileGains
  <2>2. BufferKeeps(h, {})
    <3>1. rows' = [rows EXCEPT ![h] = {}] /\ pipe' = [pipe EXCEPT ![h] = <<>>]
      BY <1>1 DEF Flushed
    <3>2. <<>> \in Seq(1..MaxRows)
      OBVIOUS
    <3> QED BY <3>1, <3>2, EmptyFacts DEF BufferKeeps
  <2> QED BY <2>1, <2>2
<1>2. CASE FlushFails(h)
  <2> DEFINE all == InOrder(rows[h])
  <2>1. PICK n \in 0..Len(all) : \E k \in 0..Len(pipe[h] \o SubSeq(all, 1, n)) :
           LET queue == pipe[h] \o SubSeq(all, 1, n)
           IN  /\ file' = file \o SubSeq(queue, 1, k)
               /\ pipe' = [pipe EXCEPT ![h] = SubSeq(queue, k + 1, Len(queue))]
               /\ rows' = [rows EXCEPT ![h] = ToSet(SubSeq(all, n + 1, Len(all)))]
    BY <1>2 DEF FlushFails
  <2> DEFINE taken == SubSeq(all, 1, n)
             rest == SubSeq(all, n + 1, Len(all))
             queue == pipe[h] \o taken
  <2>2. PICK k \in 0..Len(queue) :
               /\ file' = file \o SubSeq(queue, 1, k)
               /\ pipe' = [pipe EXCEPT ![h] = SubSeq(queue, k + 1, Len(queue))]
               /\ rows' = [rows EXCEPT ![h] = ToSet(rest)]
    BY <2>1
  <2>3. /\ pipe[h] \in Seq(1..MaxRows) /\ all \in Seq(1..MaxRows)
        /\ ToSet(all) = rows[h] /\ Once(all)
        /\ rows[h] \subseteq 1..MaxRows /\ Header \notin rows[h]
    BY RowsOf
  <2> HIDE DEF all
  <2>4. /\ taken \in Seq(1..MaxRows) /\ rest \in Seq(1..MaxRows)
        /\ rows[h] = ToSet(taken) \cup ToSet(rest)
        /\ Once(taken) /\ ToSet(taken) \cap ToSet(rest) = {}
    <3>1. /\ taken \in Seq(1..MaxRows) /\ rest \in Seq(1..MaxRows)
          /\ ToSet(all) = ToSet(taken) \cup ToSet(rest)
          /\ Once(taken) /\ ToSet(taken) \cap ToSet(rest) \subseteq {Header}
      BY <2>3, SplitFacts
    <3> QED BY <3>1, <2>3
  <2> HIDE DEF taken, rest
  <2>5. Once(pipe[h]) /\ rows[h] \cap ToSet(pipe[h]) = {}
    BY DEF Accounted
  <2>6. queue \in Seq(1..MaxRows) /\ ToSet(queue) = ToSet(pipe[h]) \cup ToSet(taken) /\ Once(queue)
    BY <2>3, <2>4, <2>5, ConcatFacts
  <2> HIDE DEF queue
  <2> DEFINE b == SubSeq(queue, k + 1, Len(queue))
  <2>7. /\ FileGains(ToSet(queue) \ ToSet(b))
        /\ b \in Seq(1..MaxRows) /\ Once(b) /\ ToSet(b) \subseteq ToSet(queue)
    BY <2>2, <2>6, DrainFacts
  <2> HIDE DEF b
  <2> DEFINE keep == ToSet(rest) \cup ToSet(b)
  <2>8. keep \in SUBSET Held(h) /\ Held(h) \ keep = ToSet(queue) \ ToSet(b)
        /\ ToSet(rest) \cap ToSet(b) = {} /\ ToSet(rest) \in SUBSET (1..MaxRows)
    BY <2>3, <2>4, <2>5, <2>6, <2>7 DEF Held
  <2>9. BufferKeeps(h, keep)
    BY <2>2, <2>7, <2>8 DEF BufferKeeps, b
  <2> QED BY <2>7, <2>8, <2>9
<1> QED BY <1>1, <1>2 DEF Flush

\* Rows move between their task, one buffer, the disk and the lost ones, L: what
\* h held and the row X brought end in exactly one place each.
LEMMA Transfer ==
  ASSUME TypeOK, Accounted, NEW h \in Handles, NEW X, NEW keep, NEW out, NEW L,
         FileGains(out), BufferKeeps(h, keep), gone \cup L \subseteq gone',
         out \cup keep \cup L = Held(h) \cup X, out \cap keep = {},
         handed' = handed, row' = row,
         \A x \in X : \E w \in Writers : Carries(w) /\ row[w] = x,
         \A w \in Writers : Carries(w)' <=> Carries(w) /\ row[w] \notin X
  PROVE  Accounted'
<1>1. PICK R \in SUBSET (1..MaxRows), p \in Seq(1..MaxRows) :
        /\ rows' = [rows EXCEPT ![h] = R]
        /\ pipe' = [pipe EXCEPT ![h] = p]
        /\ R \cup ToSet(p) = keep /\ R \cap ToSet(p) = {} /\ Once(p)
  BY DEF BufferKeeps
<1>2. /\ rows'[h] = R /\ pipe'[h] = p /\ Held(h)' = keep
      /\ \A g \in Handles \ {h} : rows'[g] = rows[g] /\ pipe'[g] = pipe[g] /\ Held(g)' = Held(g)
  BY <1>1 DEF TypeOK, Held
<1>3. out \cap ToSet(file) = {} /\ keep \cap ToSet(file) = {}
  BY DEF Accounted
<1>4. Once(file) /\ ToSet(file) \subseteq 0..handed
  BY DEF Accounted
<1>5. ToSet(file)' = ToSet(file) \cup out /\ Once(file')
  BY <1>3, <1>4, FileTyped
<1>6. out \cup keep \subseteq 1..handed
  BY DEF Accounted
<1>7. \A g \in Handles \ {h} : Held(g) \cap (Held(h) \cup X) = {}
  BY DEF Accounted
<1>8. \A w \in Writers : Carries(w)' => Carries(w) /\ row[w] \notin out \cup keep
  BY DEF Accounted
<1>9. ASSUME NEW r \in 1..handed'
      PROVE  \/ \E w \in Writers : Carries(w)' /\ row'[w] = r
             \/ \E g \in Handles : r \in Held(g)'
             \/ r \in ToSet(file)'
             \/ r \in gone'
  <2>0. r \in 1..handed
    OBVIOUS
  <2>1. CASE \E w \in Writers : Carries(w) /\ row[w] = r
    BY <2>1, <1>2, <1>5
  <2>2. CASE \E g \in Handles : r \in Held(g)
    BY <2>2, <1>2, <1>5
  <2> QED BY <2>0, <2>1, <2>2, <1>5 DEF Accounted
<1>10. ASSUME NEW w \in Writers, Carries(w)'
      PROVE /\ row'[w] \in 1..handed'
            /\ row'[w] \notin ToSet(file)'
            /\ \A g \in Handles : row'[w] \notin Held(g)'
            /\ \A v \in Writers \ {w} : Carries(v)' => row'[v] # row'[w]
  BY <1>10, <1>2, <1>5, <1>8 DEF Accounted
<1>11. ASSUME NEW g \in Handles
       PROVE  /\ Held(g)' \subseteq 1..handed'
              /\ Held(g)' \cap ToSet(file)' = {}
              /\ rows'[g] \cap ToSet(pipe[g])' = {}
              /\ Once(pipe[g])'
  <2>1. CASE g = h
    BY <2>1, <1>1, <1>2, <1>3, <1>5, <1>6
  <2>2. CASE g # h
    BY <2>2, <1>2, <1>5, <1>7 DEF Accounted
  <2> QED BY <2>1, <2>2
<1>12. ASSUME NEW g \in Handles, NEW f \in Handles \ {g} PROVE Held(f)' \cap Held(g)' = {}
  BY <1>2, <1>7 DEF Accounted
<1>13. ToSet(file)' \subseteq 0..handed'
  BY <1>4, <1>5, <1>6
<1> QED BY <1>5, <1>9, <1>10, <1>11, <1>12, <1>13 DEF Accounted

\* The disk and h share out what h held and the rows X, but for L, the lost.
Moves(h, X, L) ==
    \E out, keep :
        /\ FileGains(out) /\ BufferKeeps(h, keep)
        /\ out \cup keep \cup L = Held(h) \cup X
        /\ out \cap keep = {}

\* A move keeps every row accounted for and touches no other buffer.
LEMMA MoveFacts ==
  ASSUME TypeOK, Accounted, NEW h \in Handles, NEW X, NEW L,
         Moves(h, X, L), gone \cup L \subseteq gone',
         handed' = handed, row' = row,
         \A x \in X : \E w \in Writers : Carries(w) /\ row[w] = x,
         \A w \in Writers : Carries(w)' <=> Carries(w) /\ row[w] \notin X
  PROVE  /\ Accounted'
         /\ file' \in Seq(Line)
         /\ rows' \in [Handles -> SUBSET (1..MaxRows)]
         /\ pipe' \in [Handles -> Seq(1..MaxRows)]
         /\ \A g \in Handles \ {h} : rows'[g] = rows[g] /\ pipe'[g] = pipe[g]
         /\ file # <<>> => file' # <<>> /\ (HeaderFirst => HeaderFirst')
<1>1. PICK out, keep : /\ FileGains(out) /\ BufferKeeps(h, keep)
                       /\ out \cup keep \cup L = Held(h) \cup X
                       /\ out \cap keep = {}
  BY DEF Moves
<1>2. Accounted'
  BY <1>1, Transfer
<1>3. out \cap ToSet(file) = {} /\ Once(file)
  BY <1>1 DEF Accounted
<1>4. /\ rows' \in [Handles -> SUBSET (1..MaxRows)]
      /\ pipe' \in [Handles -> Seq(1..MaxRows)]
      /\ \A g \in Handles \ {h} : rows'[g] = rows[g] /\ pipe'[g] = pipe[g]
  BY <1>1 DEF BufferKeeps, TypeOK
<1>5. /\ file' \in Seq(Line)
      /\ file # <<>> => file' # <<>> /\ (HeaderFirst => HeaderFirst')
  BY <1>1, <1>3, FileTyped
<1> QED BY <1>2, <1>4, <1>5

\* A disk that stays as it is gains nothing.
LEMMA NoGain == ASSUME TypeOK, file' = file PROVE FileGains({})
<1>1. file' = file \o <<>> /\ <<>> \in Seq(1..MaxRows)
  BY DEF TypeOK
<1> QED BY <1>1, EmptyFacts DEF FileGains

\* One more row at the end of a queue.
LEMMA AppendFacts ==
  ASSUME NEW S, NEW s \in Seq(S), NEW x \in S
  PROVE  /\ Append(s, x) \in Seq(S)
         /\ ToSet(Append(s, x)) = ToSet(s) \cup {x}
         /\ Once(s) /\ x \notin ToSet(s) => Once(Append(s, x))
<1>1. <<x>> \in Seq(S) /\ Append(s, x) = s \o <<x>>
  BY AppendIsConcat
<1>2. DOMAIN <<x>> = {1} /\ <<x>>[1] = x
  OBVIOUS
<1>3. ToSet(<<x>>) = {x} /\ Once(<<x>>)
  BY <1>2 DEF ToSet, Once
<1>4. ToSet(s) \cap {x} \subseteq {Header} <=> x \notin ToSet(s) \/ x = Header
  OBVIOUS
<1> HIDE DEF Once
<1> DEFINE t == <<x>>
<1>5. t \in Seq(S) /\ ToSet(t) = {x} /\ Once(t)
  BY <1>1, <1>3
<1> HIDE DEF t
<1>6. /\ s \o t \in Seq(S) /\ ToSet(s \o t) = ToSet(s) \cup {x}
      /\ Once(s) /\ x \notin ToSet(s) => Once(s \o t)
  BY <1>5, <1>4, ConcatFacts
<1> QED BY <1>1, <1>6 DEF t

Push(w) == PushDepth(w) \/ PushRow(w) \/ PushRowDue(w) \/ PushRowFails(w)

\* A push moves the row from its task to the buffer, to the disk, or to the
\* rows an error took (write_depth_update, write_trade).
LEMMA PushMoves ==
  ASSUME RowInv, NEW w \in Writers, Push(w)
  PROVE  \E L \in SUBSET (1..MaxRows) :
            Moves(ref[w], {row[w]}, L) /\ gone' = gone \cup L
<1> DEFINE h == ref[w]
           r == row[w]
<1>1. /\ TypeOK /\ Accounted /\ h \in Handles /\ Carries(w)
      /\ r \in 1..MaxRows /\ r \notin Held(h) /\ r # Header
  <2>1. pc[w] = "push" /\ w \in Actors /\ handed \in 0..MaxRows
    BY CsvConstants DEF Push, PushDepth, PushRow, PushRowDue, PushRowFails, RowInv, TypeOK, Line
  <2>2. h \in Handles /\ Carries(w)
    BY <2>1 DEF RowInv, HoldInv, Carries
  <2>3. r \in 1..handed /\ r \notin Held(h)
    BY <2>2 DEF RowInv, Accounted
  <2> QED BY <2>1, <2>2, <2>3, CsvConstants DEF RowInv, Header
<1>2. /\ rows[h] \in SUBSET (1..MaxRows) /\ pipe[h] \in Seq(1..MaxRows) /\ Once(pipe[h])
      /\ ToSet(pipe[h]) \subseteq 1..MaxRows /\ rows[h] \cap ToSet(pipe[h]) = {}
  BY <1>1, RowsOf DEF Accounted
<1>3. /\ Append(pipe[h], r) \in Seq(1..MaxRows) /\ Once(Append(pipe[h], r))
      /\ ToSet(Append(pipe[h], r)) = ToSet(pipe[h]) \cup {r}
  <2>1. r \notin ToSet(pipe[h])
    BY <1>1 DEF Held
  <2> HIDE DEF h, r
  <2> QED BY <1>1, <1>2, <2>1, AppendFacts
<1> HIDE DEF h, r
<1>4. CASE PushDepth(w)
  <2>1. rows' = [rows EXCEPT ![h] = rows[h] \cup {r}] /\ pipe' = [pipe EXCEPT ![h] = pipe[h]]
        /\ gone' = gone \cup {} /\ file' = file
    BY <1>4, <1>1 DEF PushDepth, h, r, TypeOK
  <2>2. BufferKeeps(h, Held(h) \cup {r})
    BY <2>1, <1>1, <1>2 DEF BufferKeeps, Held
  <2>3. FileGains({})
    BY <2>1, <1>1, NoGain
  <2>4. Moves(h, {r}, {})
    BY <2>2, <2>3 DEF Moves
  <2> QED BY <2>1, <2>4 DEF h, r
<1>5. CASE PushRow(w)
  <2>1. rows' = [rows EXCEPT ![h] = rows[h]] /\ pipe' = [pipe EXCEPT ![h] = Append(pipe[h], r)]
        /\ gone' = gone \cup {} /\ file' = file
    BY <1>5, <1>1 DEF PushRow, h, r, TypeOK
  <2>2. BufferKeeps(h, Held(h) \cup {r})
    BY <2>1, <1>1, <1>2, <1>3 DEF BufferKeeps, Held
  <2>3. FileGains({})
    BY <2>1, <1>1, NoGain
  <2>4. Moves(h, {r}, {})
    BY <2>2, <2>3 DEF Moves
  <2> QED BY <2>1, <2>4 DEF h, r
<1>6. CASE PushRowDue(w)
  <2>1. rows' = [rows EXCEPT ![h] = rows[h]] /\ pipe' = [pipe EXCEPT ![h] = <<>>]
        /\ gone' = gone \cup {} /\ file' = file \o Append(pipe[h], r)
    BY <1>6, <1>1 DEF PushRowDue, h, r, TypeOK
  <2>2. BufferKeeps(h, rows[h])
    <3>1. <<>> \in Seq(1..MaxRows)
      OBVIOUS
    <3> QED BY <3>1, <2>1, <1>2, EmptyFacts DEF BufferKeeps
  <2>3. FileGains(ToSet(pipe[h]) \cup {r})
    BY <2>1, <1>3 DEF FileGains
  <2>4. Moves(h, {r}, {})
    BY <2>2, <2>3, <1>1, <1>2 DEF Moves, Held
  <2> QED BY <2>1, <2>4 DEF h, r
<1>7. CASE PushRowFails(w)
  <2>1. PICK kept \in BOOLEAN :
          LET queue == IF kept THEN Append(pipe[h], r) ELSE pipe[h]
          IN  /\ \E k \in 0..Len(queue) :
                    /\ file' = file \o SubSeq(queue, 1, k)
                    /\ pipe' = [pipe EXCEPT ![h] = SubSeq(queue, k + 1, Len(queue))]
              /\ gone' = IF kept THEN gone ELSE gone \cup {r}
    BY <1>7 DEF PushRowFails, h, r
  <2> DEFINE queue == IF kept THEN Append(pipe[h], r) ELSE pipe[h]
             L == IF kept THEN {} ELSE {r}
  <2>2. gone' = gone \cup L
    BY <2>1
  <2>3. PICK k \in 0..Len(queue) :
                    /\ file' = file \o SubSeq(queue, 1, k)
                    /\ pipe' = [pipe EXCEPT ![h] = SubSeq(queue, k + 1, Len(queue))]
    BY <2>1
  <2>4. /\ queue \in Seq(1..MaxRows) /\ Once(queue)
        /\ ToSet(queue) \cup L = ToSet(pipe[h]) \cup {r}
        /\ ToSet(queue) \subseteq ToSet(pipe[h]) \cup {r}
        /\ L \in SUBSET (1..MaxRows)
    BY <1>1, <1>2, <1>3
  <2> HIDE DEF queue, L
  <2> DEFINE b == SubSeq(queue, k + 1, Len(queue))
  <2>5. /\ FileGains(ToSet(queue) \ ToSet(b))
        /\ b \in Seq(1..MaxRows) /\ Once(b) /\ ToSet(b) \subseteq ToSet(queue)
    BY <2>3, <2>4, DrainFacts
  <2>6. rows' = [rows EXCEPT ![h] = rows[h]] /\ pipe' = [pipe EXCEPT ![h] = b]
    BY <2>3, <1>7, <1>1 DEF PushRowFails, TypeOK
  <2> HIDE DEF b
  <2>7. rows[h] \cap ToSet(queue) = {}
    BY <2>4, <1>1, <1>2 DEF Held
  <2>8. BufferKeeps(h, rows[h] \cup ToSet(b))
    BY <2>5, <2>6, <2>7, <1>2 DEF BufferKeeps
  <2> DEFINE out == ToSet(queue) \ ToSet(b)
             keep == rows[h] \cup ToSet(b)
  <2>9. out \cup keep \cup L = Held(h) \cup {r} /\ out \cap keep = {}
    BY <2>4, <2>5, <2>7 DEF Held
  <2>10. Moves(h, {r}, L)
    BY <2>5, <2>8, <2>9 DEF Moves
  <2> QED BY <2>2, <2>4, <2>10 DEF h, r
<1> QED BY <1>4, <1>5, <1>6, <1>7 DEF Push

\* A flush, failing or not, moves rows from the buffer to the disk and loses
\* none (flush_locked).
LEMMA FlushBufferMoves ==
  ASSUME RowInv, NEW a \in Actors, FlushBuffer(a)
  PROVE  ref[a] \in Handles /\ Moves(ref[a], {}, {})
<1>1. TypeOK /\ Accounted /\ ref[a] \in Handles /\ Flush(ref[a])
  BY DEF FlushBuffer, RowInv, HoldInv
<1>2. PICK keep \in SUBSET Held(ref[a]) :
         FileGains(Held(ref[a]) \ keep) /\ BufferKeeps(ref[a], keep)
  BY <1>1, FlushMoves
<1>3. Moves(ref[a], {}, {})
  <2> DEFINE out == Held(ref[a]) \ keep
  <2>1. out \cup keep \cup {} = Held(ref[a]) \cup {} /\ out \cap keep = {}
    OBVIOUS
  <2> QED BY <1>2, <2>1 DEF Moves
<1> QED BY <1>1, <1>3

\* The last Arc to go drains its buffer, the others leave everything alone.
LEMMA ReleaseMoves ==
  ASSUME RowInv, NEW a \in Actors, Release(a)
  PROVE  /\ ref[a] \in Handles
         /\ ref' = [ref EXCEPT ![a] = 0]
         /\ \/ /\ cached = ref[a] \/ \E b \in Actors \ {a} : ref[b] = ref[a]
               /\ UNCHANGED <<file, rows, pipe, gone, faults>>
            \/ /\ faults' \in 0..MaxFaults
               /\ rows' = [rows EXCEPT ![ref[a]] = {}]
               /\ pipe' = [pipe EXCEPT ![ref[a]] = <<>>]
               /\ \E L \in SUBSET (1..MaxRows) :
                     Moves(ref[a], {}, L) /\ gone' = gone \cup L
<1> DEFINE h == ref[a]
<1>1. TypeOK /\ Accounted /\ h \in Handles /\ LetGo(a) /\ h # 0
  BY CsvConstants DEF Release, RowInv, HoldInv
<1>2. ref' = [ref EXCEPT ![a] = 0]
  BY <1>1 DEF LetGo
<1>3. CASE cached = h \/ \E b \in Actors \ {a} : ref[b] = h
  BY <1>1, <1>2, <1>3 DEF LetGo
<1>4. CASE ~(cached = h \/ \E b \in Actors \ {a} : ref[b] = h)
  <2> HIDE DEF h
  <2>1. /\ Waiting(h) \in Seq(1..MaxRows) /\ ToSet(Waiting(h)) = Held(h) /\ Once(Waiting(h))
        /\ Held(h) \subseteq 1..MaxRows
    <3>1. Held(h) \subseteq 1..MaxRows
      BY <1>1, RowsOf DEF Held
    <3> QED BY <3>1, <1>1, WaitingFacts
  <2>2. rows' = [rows EXCEPT ![h] = {}] /\ pipe' = [pipe EXCEPT ![h] = <<>>]
    BY <1>1, <1>4 DEF LetGo, Flushed, h
  <2>3. BufferKeeps(h, {})
    <3>1. <<>> \in Seq(1..MaxRows)
      OBVIOUS
    <3> QED BY <2>2, <3>1, EmptyFacts DEF BufferKeeps
  <2>4. CASE file' = file \o Waiting(h) /\ UNCHANGED <<faults, gone>>
    <3>1. FileGains(Held(h))
      BY <2>4, <2>1 DEF FileGains
    <3>2. Moves(h, {}, {}) /\ gone' = gone \cup {}
      BY <3>1, <2>3, <2>4 DEF Moves
    <3>3. faults' \in 0..MaxFaults
      BY <2>4, <1>1 DEF TypeOK
    <3> QED BY <3>2, <3>3, <2>2, <1>1, <1>2 DEF h
  <2>5. CASE /\ faults < MaxFaults /\ faults' = faults + 1
             /\ \E k \in 0..Len(Waiting(h)) :
                         /\ file' = file \o SubSeq(Waiting(h), 1, k)
                         /\ gone' = gone \cup
                               ToSet(SubSeq(Waiting(h), k + 1, Len(Waiting(h))))
    <3>1. PICK k \in 0..Len(Waiting(h)) :
                         /\ file' = file \o SubSeq(Waiting(h), 1, k)
                         /\ gone' = gone \cup
                               ToSet(SubSeq(Waiting(h), k + 1, Len(Waiting(h))))
      BY <2>5
    <3> DEFINE b == SubSeq(Waiting(h), k + 1, Len(Waiting(h)))
    <3>2. FileGains(Held(h) \ ToSet(b)) /\ ToSet(b) \subseteq Held(h)
      <4> DEFINE q == Waiting(h)
      <4>1. q \in Seq(1..MaxRows) /\ Once(q) /\ k \in 0..Len(q) /\ file' = file \o SubSeq(q, 1, k)
        BY <3>1, <2>1
      <4> HIDE DEF q
      <4>2. FileGains(ToSet(q) \ ToSet(SubSeq(q, k + 1, Len(q))))
            /\ ToSet(SubSeq(q, k + 1, Len(q))) \subseteq ToSet(q)
        BY <4>1, DrainFacts
      <4> QED BY <4>2, <2>1 DEF q
    <3>3. gone' = gone \cup ToSet(b)
      BY <3>1
    <3> HIDE DEF b
    <3> DEFINE out == Held(h) \ ToSet(b)
    <3>4. out \cup {} \cup ToSet(b) = Held(h) \cup {} /\ out \cap {} = {}
      BY <3>2
    <3>5. Moves(h, {}, ToSet(b))
      BY <3>2, <3>4, <2>3 DEF Moves
    <3>6. faults' \in 0..MaxFaults
      BY <2>5, <1>1, CsvConstants DEF TypeOK
    <3> QED BY <3>2, <3>3, <3>5, <3>6, <2>1, <2>2, <1>1, <1>2 DEF h
  <2> QED BY <2>4, <2>5, <1>1, <1>4 DEF LetGo, Flushed, h
<1> QED BY <1>3, <1>4

\* The part of the next state a move leaves in order.
MoveDone ==
    /\ Accounted'
    /\ file' \in Seq(Line)
    /\ rows' \in [Handles -> SUBSET (1..MaxRows)]
    /\ pipe' \in [Handles -> Seq(1..MaxRows)]
    /\ gone' \subseteq Line
    /\ file # <<>> => file' # <<>> /\ (HeaderFirst => HeaderFirst')

\* A push as the invariant sees it.
LEMMA PushDone ==
  ASSUME RowInv, NEW w \in Writers, Push(w)
  PROVE  /\ MoveDone
         /\ \A g \in Handles \ {ref[w]} : rows'[g] = rows[g] /\ pipe'[g] = pipe[g]
         /\ pc[w] = "push" /\ ref[w] \in Handles
         /\ pc' = [pc EXCEPT ![w] = "flush"] \/ pc' = [pc EXCEPT ![w] = "release"]
         /\ UNCHANGED <<depth, cached, ref, row, handed, crashes>>
         /\ faults' \in 0..MaxFaults
<1>1. /\ pc[w] = "push" /\ w \in Actors
      /\ pc' = [pc EXCEPT ![w] = "flush"] \/ pc' = [pc EXCEPT ![w] = "release"]
      /\ UNCHANGED <<depth, cached, ref, row, handed, crashes>>
      /\ faults' = faults \/ (faults < MaxFaults /\ faults' = faults + 1)
  <2>1. pc' = [pc EXCEPT ![w] = "flush"] \/ pc' = [pc EXCEPT ![w] = "release"]
    <3>1. CASE PushDepth(w)
      BY <3>1 DEF PushDepth
    <3>2. CASE PushRow(w) \/ PushRowDue(w) \/ PushRowFails(w)
      BY <3>2 DEF PushRow, PushRowDue, PushRowFails
    <3> QED BY <3>1, <3>2 DEF Push
  <2> QED BY <2>1, CsvConstants DEF Push, PushDepth, PushRow, PushRowDue, PushRowFails
<1>2. PICK L \in SUBSET (1..MaxRows) :
            Moves(ref[w], {row[w]}, L) /\ gone' = gone \cup L
  BY PushMoves
<1>3. TypeOK /\ Accounted /\ HoldInv
  BY DEF RowInv
<1>4. ref[w] \in Handles /\ Carries(w)
  BY <1>1, <1>3 DEF HoldInv, Carries
<1>5. \A v \in Writers : Carries(v)' <=> Carries(v) /\ row[v] \notin {row[w]}
  <2>1. \A v \in Writers \ {w} : (Carries(v)' <=> Carries(v)) /\ (Carries(v) => row[v] # row[w])
    BY <1>1, <1>3, <1>4, CsvConstants DEF Accounted, Carries, TypeOK
  <2>2. ~Carries(w)'
    BY <1>1, <1>3 DEF Carries, TypeOK
  <2> QED BY <2>1, <2>2
<1>6. /\ Accounted'
      /\ file' \in Seq(Line)
      /\ rows' \in [Handles -> SUBSET (1..MaxRows)]
      /\ pipe' \in [Handles -> Seq(1..MaxRows)]
      /\ \A g \in Handles \ {ref[w]} : rows'[g] = rows[g] /\ pipe'[g] = pipe[g]
      /\ file # <<>> => file' # <<>> /\ (HeaderFirst => HeaderFirst')
  <2> DEFINE X == {row[w]}
  <2>1. /\ Moves(ref[w], X, L) /\ gone \cup L \subseteq gone'
        /\ handed' = handed /\ row' = row
        /\ \A x \in X : \E v \in Writers : Carries(v) /\ row[v] = x
        /\ \A v \in Writers : Carries(v)' <=> Carries(v) /\ row[v] \notin X
    BY <1>1, <1>2, <1>4, <1>5
  <2> HIDE DEF X
  <2> QED BY <2>1, <1>3, <1>4, MoveFacts
<1>7. gone' \subseteq Line /\ faults' \in 0..MaxFaults
  BY <1>1, <1>2, <1>3, CsvConstants DEF TypeOK, Line
<1> QED BY <1>1, <1>4, <1>6, <1>7 DEF MoveDone

\* A flush as the invariant sees it.
LEMMA FlushBufferDone ==
  ASSUME RowInv, NEW a \in Actors, FlushBuffer(a)
  PROVE  /\ MoveDone
         /\ \A g \in Handles \ {ref[a]} : rows'[g] = rows[g] /\ pipe'[g] = pipe[g]
         /\ ref[a] \in Handles
         /\ faults' \in 0..MaxFaults
<1>1. TypeOK /\ Accounted
  BY DEF RowInv
<1>2. ref[a] \in Handles /\ Moves(ref[a], {}, {})
  BY FlushBufferMoves
<1>3. \A v \in Writers : Carries(v)' <=> Carries(v) /\ row[v] \notin {}
  BY <1>1, CsvConstants DEF FlushBuffer, Carries, TypeOK
<1>4. /\ gone \cup {} \subseteq gone' /\ gone' \subseteq Line
      /\ handed' = handed /\ row' = row
      /\ \A x \in {} : \E v \in Writers : Carries(v) /\ row[v] = x
  BY <1>1 DEF FlushBuffer, TypeOK
<1>5. /\ Accounted'
      /\ file' \in Seq(Line)
      /\ rows' \in [Handles -> SUBSET (1..MaxRows)]
      /\ pipe' \in [Handles -> Seq(1..MaxRows)]
      /\ \A g \in Handles \ {ref[a]} : rows'[g] = rows[g] /\ pipe'[g] = pipe[g]
      /\ file # <<>> => file' # <<>> /\ (HeaderFirst => HeaderFirst')
  BY <1>1, <1>2, <1>3, <1>4, MoveFacts
<1>6. faults' \in 0..MaxFaults
  <2>1. CASE Flushed(ref[a])
    BY <2>1, <1>1 DEF Flushed, TypeOK
  <2>2. CASE FlushFails(ref[a])
    <3>1. faults < MaxFaults /\ faults' = faults + 1
      BY <2>2 DEF FlushFails
    <3> QED BY <3>1, <1>1, CsvConstants DEF TypeOK
  <2> QED BY <2>1, <2>2 DEF FlushBuffer, Flush
<1> QED BY <1>2, <1>4, <1>5, <1>6 DEF MoveDone

\* Letting a buffer go as the invariant sees it (Drop of FileBuffer).
LEMMA ReleaseDone ==
  ASSUME RowInv, NEW a \in Actors, Release(a)
  PROVE  /\ MoveDone
         /\ \A g \in Handles \ {ref[a]} : rows'[g] = rows[g] /\ pipe'[g] = pipe[g]
         /\ ref[a] \in Handles
         /\ ref' = [ref EXCEPT ![a] = 0]
         /\ \/ cached = ref[a] \/ \E b \in Actors \ {a} : ref[b] = ref[a]
            \/ rows'[ref[a]] = {} /\ pipe'[ref[a]] = <<>>
         /\ faults' \in 0..MaxFaults
<1>1. TypeOK /\ Accounted /\ ref[a] \in Handles /\ ref' = [ref EXCEPT ![a] = 0]
  BY ReleaseMoves DEF RowInv
<1>2. \A v \in Writers : Carries(v)' <=> Carries(v) /\ row[v] \notin {}
  BY <1>1, CsvConstants DEF Release, Carries, TypeOK
<1>3. handed' = handed /\ row' = row
      /\ \A x \in {} : \E v \in Writers : Carries(v) /\ row[v] = x
  BY DEF Release
<1>4. CASE /\ cached = ref[a] \/ \E b \in Actors \ {a} : ref[b] = ref[a]
           /\ UNCHANGED <<file, rows, pipe, gone, faults>>
  <2>1. Accounted'
    BY <1>1, <1>2, <1>3, <1>4 DEF Accounted, Held
  <2>2. HeaderFirst => HeaderFirst'
    BY <1>4 DEF HeaderFirst
  <2> QED BY <2>1, <2>2, <1>1, <1>4 DEF MoveDone, TypeOK
<1>5. ASSUME faults' \in 0..MaxFaults,
             rows' = [rows EXCEPT ![ref[a]] = {}],
             pipe' = [pipe EXCEPT ![ref[a]] = <<>>],
             NEW L \in SUBSET (1..MaxRows),
             Moves(ref[a], {}, L), gone' = gone \cup L
      PROVE  /\ MoveDone
             /\ \A g \in Handles \ {ref[a]} : rows'[g] = rows[g] /\ pipe'[g] = pipe[g]
             /\ rows'[ref[a]] = {} /\ pipe'[ref[a]] = <<>>
  <2>1. gone \cup L \subseteq gone'
    BY <1>5
  <2>2. /\ Accounted'
        /\ file' \in Seq(Line)
        /\ rows' \in [Handles -> SUBSET (1..MaxRows)]
        /\ pipe' \in [Handles -> Seq(1..MaxRows)]
        /\ \A g \in Handles \ {ref[a]} : rows'[g] = rows[g] /\ pipe'[g] = pipe[g]
        /\ file # <<>> => file' # <<>> /\ (HeaderFirst => HeaderFirst')
    BY <1>1, <1>2, <1>3, <1>5, <2>1, MoveFacts
  <2>3. gone' \subseteq Line
    BY <1>1, <1>5, CsvConstants DEF TypeOK, Line
  <2> QED BY <1>1, <1>5, <2>2, <2>3 DEF MoveDone, TypeOK
<1> QED
  <2>1. \/ /\ cached = ref[a] \/ \E b \in Actors \ {a} : ref[b] = ref[a]
           /\ UNCHANGED <<file, rows, pipe, gone, faults>>
        \/ /\ faults' \in 0..MaxFaults
           /\ rows' = [rows EXCEPT ![ref[a]] = {}]
           /\ pipe' = [pipe EXCEPT ![ref[a]] = <<>>]
           /\ \E L \in SUBSET (1..MaxRows) :
                 Moves(ref[a], {}, L) /\ gone' = gone \cup L
    BY ReleaseMoves
  <2>2. CASE UNCHANGED <<file, rows, pipe, gone, faults>>
    BY <2>2, <1>4, <1>1, <2>1, <1>5 DEF TypeOK
  <2> QED BY <2>1, <1>4, <1>5, <1>1 DEF TypeOK

\* A header more changes nothing for the rows.
LEMMA HeaderAdds ==
  ASSUME TypeOK, file' = Append(file, Header), Once(file)
  PROVE  ToSet(file') = ToSet(file) \cup {Header} /\ Once(file')
<1>1. file \in Seq(Line) /\ Header \in Line /\ <<Header>> \in Seq(Line)
  BY CsvConstants DEF TypeOK, Header, Line
<1>2. ToSet(file') = ToSet(file) \cup {Header}
  BY <1>1, AppendFacts
<1>3. file' = file \o <<Header>>
  BY <1>1, AppendIsConcat
<1>4. ToSet(<<Header>>) = {Header} /\ Once(<<Header>>)
  BY DEF ToSet, Once
<1>5. ToSet(file) \cap ToSet(<<Header>>) \subseteq {Header}
  BY <1>4
<1> QED BY <1>1, <1>2, <1>3, <1>4, <1>5, ConcatFacts

-----------------------------------------------------------------------------
\* The actions with the helpers they share unfolded, for the steps below.
Steps ==
    \/ \E w \in Writers : StartRow(w) \/ Open(w) \/ WriteHeader(w) \/ OpenFails(w)
                          \/ Insert(w) \/ Push(w)
    \/ ListForFlush
    \/ \E a \in Actors : FlushBuffer(a) \/ Release(a)
    \/ \E e \in Evictors : Evict(e)
    \/ Crash

\* The next-state relation with the four ways to push a row taken together.
LEMMA NextIsSteps == Next => Steps
BY DEF Next, Write, Push, Steps

\* Every step keeps the types.
LEMMA TypeStep == RowInv /\ [Next]_vars => TypeOK'
<1> SUFFICES ASSUME RowInv, [Next]_vars PROVE TypeOK'
  OBVIOUS
<1>0. TypeOK
  BY DEF RowInv
<1>1. ASSUME NEW w \in Writers, StartRow(w) PROVE TypeOK'
  <2>1. handed + 1 \in Line
    BY <1>1, <1>0, CsvConstants DEF StartRow, TypeOK, Line
  <2> QED BY <2>1, <1>0, <1>1 DEF StartRow, memVars, TypeOK
<1>2. ASSUME NEW w \in Writers, Open(w) PROVE TypeOK'
  BY <1>0, <1>2 DEF Open, memVars, TypeOK
<1>3. ASSUME NEW w \in Writers, WriteHeader(w) PROVE TypeOK'
  <2>1. Append(file, Header) \in Seq(Line)
    BY <1>0, CsvConstants DEF TypeOK, Header, Line
  <2> QED BY <2>1, <1>0, <1>3 DEF WriteHeader, memVars, TypeOK
<1>4. ASSUME NEW w \in Writers, OpenFails(w) PROVE TypeOK'
  <2>1. Append(file, Header) \in Seq(Line)
    BY <1>0, CsvConstants DEF TypeOK, Header, Line
  <2>2. faults' \in 0..MaxFaults
    BY <1>0, <1>4, CsvConstants DEF OpenFails, TypeOK
  <2>3. file' \in Seq(Line)
    BY <2>1, <1>0, <1>4 DEF OpenFails, TypeOK
  <2>4. gone' \subseteq Line
    BY <1>0, <1>4 DEF OpenFails, TypeOK
  <2> QED BY <2>2, <2>3, <2>4, <1>0, <1>4 DEF OpenFails, memVars, TypeOK
<1>5. ASSUME NEW w \in Writers, Insert(w) PROVE TypeOK'
  <2>1. w \in Actors /\ ref[w] \in {0} \cup Handles
    BY <1>0, CsvConstants DEF TypeOK
  <2>2. cached' \in {0} \cup Handles /\ ref' \in [Actors -> {0} \cup Handles]
    <3>1. CASE cached = 0
      BY <3>1, <2>1, <1>0, <1>5 DEF Insert, TypeOK
    <3>2. CASE cached # 0
      BY <3>2, <2>1, <1>0, <1>5 DEF Insert, TypeOK
    <3> QED BY <3>1, <3>2
  <2>3. pc' = [pc EXCEPT ![w] = "push"]
    BY <1>5 DEF Insert
  <2> QED BY <2>2, <2>3, <1>0, <1>5 DEF Insert, memVars, TypeOK
<1>6. ASSUME NEW w \in Writers, Push(w) PROVE TypeOK'
  BY <1>0, <1>6, PushDone, CsvConstants DEF MoveDone, TypeOK
<1>7. CASE ListForFlush
  BY <1>0, <1>7 DEF ListForFlush, memVars, TypeOK
<1>8. ASSUME NEW a \in Actors, FlushBuffer(a) PROVE TypeOK'
  BY <1>0, <1>8, FlushBufferDone DEF FlushBuffer, MoveDone, TypeOK
<1>9. ASSUME NEW a \in Actors, Release(a) PROVE TypeOK'
  BY <1>0, <1>9, ReleaseDone DEF Release, MoveDone, TypeOK
<1>10. ASSUME NEW e \in Evictors, Evict(e) PROVE TypeOK'
  BY <1>0, <1>10 DEF Evict, memVars, TypeOK
<1>11. CASE Crash
  <2>1. gone' \subseteq Line
    <3>1. {row[w] : w \in {v \in Writers : pc[v] \in {"open", "header", "insert", "push"}}} \subseteq Line
      BY <1>0 DEF TypeOK
    <3>2. InMemory \subseteq Line
      <4>1. ASSUME NEW h \in Handles PROVE rows[h] \cup ToSet(pipe[h]) \subseteq Line
        <5>1. rows[h] \subseteq 1..MaxRows /\ ToSet(pipe[h]) \subseteq 1..MaxRows
          BY <1>0, RowsOf
        <5>2. 1..MaxRows \subseteq Line
          BY CsvConstants DEF Line
        <5> QED BY <5>1, <5>2
      <4> QED BY <4>1 DEF InMemory
    <3> QED BY <3>1, <3>2, <1>0, <1>11 DEF Crash, TypeOK
  <2>2. crashes' \in 0..MaxCrashes
    BY <1>0, <1>11, CsvConstants DEF Crash, TypeOK
  <2>3. /\ rows' \in [Handles -> SUBSET (1..MaxRows)]
        /\ pipe' \in [Handles -> Seq(1..MaxRows)]
    BY <1>11 DEF Crash
  <2> QED BY <2>1, <2>2, <2>3, <1>0, <1>11 DEF Crash, TypeOK
<1>12. CASE UNCHANGED vars
  BY <1>0, <1>12 DEF vars, memVars, TypeOK
<1> QED
  BY NextIsSteps, <1>1, <1>2, <1>3, <1>4, <1>5, <1>6, <1>7, <1>8, <1>9, <1>10, <1>11, <1>12 DEF Steps

\* A step of a at its own buffer, which is not a new one, disturbs no hold.
LEMMA HoldKept ==
  ASSUME TypeOK, HoldInv, NEW a \in Actors, NEW x \in {"flush", "release"},
         pc[a] \in {"push", "flush"}, pc' = [pc EXCEPT ![a] = x], UNCHANGED <<ref, cached>>,
         \A g \in Handles \ {ref[a]} : rows'[g] = rows[g] /\ pipe'[g] = pipe[g]
  PROVE  HoldInv'
<1>1. /\ pc'[a] = x /\ \A b \in Actors \ {a} : pc'[b] = pc[b]
      /\ ref[a] \in Handles /\ ~Free(ref[a])
  BY CsvConstants DEF TypeOK, HoldInv, Free
<1>2. ASSUME NEW h \in Handles, Free(h)' PROVE rows'[h] = {} /\ pipe'[h] = <<>>
  <2>1. Free(h) /\ h # ref[a]
    BY <1>1, <1>2 DEF Free
  <2> QED BY <2>1 DEF HoldInv
<1>3. ASSUME NEW b \in Actors
      PROVE  /\ pc'[b] \in {"idle", "open"} => ref'[b] = 0
             /\ pc'[b] \notin {"idle", "open"} => ref'[b] \in Handles
             /\ Carries(b)' => b \in Writers
             /\ pc'[b] \in {"header", "insert"} =>
                   /\ cached' # ref'[b]
                   /\ \A c \in Actors \ {b} : ref'[c] # ref'[b]
                   /\ rows'[ref'[b]] = {} /\ pipe'[ref'[b]] = <<>>
  <2>1. CASE b = a
    BY <2>1, <1>1 DEF HoldInv, Carries
  <2>2. CASE b # a /\ pc[b] \in {"header", "insert"}
    <3>1. ref[b] \in Handles \ {ref[a]}
      BY <2>2 DEF HoldInv
    <3> QED BY <3>1, <2>2, <1>1 DEF HoldInv, Carries
  <2>3. CASE b # a /\ pc[b] \notin {"header", "insert"}
    BY <2>3, <1>1 DEF HoldInv, Carries
  <2> QED BY <2>1, <2>2, <2>3
<1> QED BY <1>2, <1>3 DEF HoldInv

\* Every step leaves a buffer nobody holds empty.
LEMMA HoldStep == RowInv /\ [Next]_vars => HoldInv'
<1> SUFFICES ASSUME RowInv, [Next]_vars PROVE HoldInv'
  OBVIOUS
<1>0. TypeOK /\ HoldInv /\ 0 \notin Handles /\ Writers \subseteq Actors
  BY CsvConstants DEF RowInv
<1> USE DEF HoldInv, Carries, Free, TypeOK
<1>1. ASSUME NEW w \in Writers, StartRow(w) PROVE HoldInv'
  BY <1>0, <1>1 DEF StartRow, memVars
<1>2. ASSUME NEW w \in Writers, Open(w) PROVE HoldInv'
  BY <1>0, <1>2 DEF Open, memVars
<1>3. ASSUME NEW w \in Writers, WriteHeader(w) PROVE HoldInv'
  BY <1>0, <1>3 DEF WriteHeader, memVars
<1>4. ASSUME NEW w \in Writers, OpenFails(w) PROVE HoldInv'
  BY <1>0, <1>4 DEF OpenFails, memVars
<1>5. ASSUME NEW w \in Writers, Insert(w) PROVE HoldInv'
  BY <1>0, <1>5 DEF Insert, memVars
<1>6. ASSUME NEW w \in Writers, Push(w) PROVE HoldInv'
  <2>1. w \in Actors
    BY <1>0
  <2> QED BY <2>1, <1>0, <1>6, PushDone, HoldKept
<1>7. CASE ListForFlush
  BY <1>0, <1>7, CsvConstants DEF ListForFlush, memVars
<1>8. ASSUME NEW a \in Actors, FlushBuffer(a) PROVE HoldInv'
  <2>1. pc[a] = "flush" /\ pc' = [pc EXCEPT ![a] = "release"] /\ UNCHANGED <<ref, cached>>
    BY <1>8 DEF FlushBuffer
  <2> QED BY <2>1, <1>0, <1>8, FlushBufferDone, HoldKept
<1>9. ASSUME NEW a \in Actors, Release(a) PROVE HoldInv'
  <2> DEFINE h == ref[a]
  <2>1. /\ pc[a] = "release" /\ pc' = [pc EXCEPT ![a] = "idle"] /\ cached' = cached
        /\ h \in Handles /\ ref' = [ref EXCEPT ![a] = 0]
        /\ \A g \in Handles \ {h} : rows'[g] = rows[g] /\ pipe'[g] = pipe[g]
        /\ \/ cached = h \/ \E b \in Actors \ {a} : ref[b] = h
           \/ rows'[h] = {} /\ pipe'[h] = <<>>
    BY <1>9, ReleaseDone DEF Release
  <2> HIDE DEF h
  <2>2. /\ pc'[a] = "idle" /\ ref'[a] = 0
        /\ \A b \in Actors \ {a} : pc'[b] = pc[b] /\ ref'[b] = ref[b]
    BY <2>1, <1>0
  <2>3. ASSUME NEW g \in Handles, Free(g)' PROVE rows'[g] = {} /\ pipe'[g] = <<>>
    <3>1. CASE g = h
      BY <3>1, <2>1, <2>2, <2>3
    <3>2. CASE g # h
      <4>1. Free(g)
        BY <3>2, <2>1, <2>2, <2>3 DEF h
      <4> QED BY <4>1, <3>2, <2>1, <1>0
    <3> QED BY <3>1, <3>2
  <2>4. ASSUME NEW b \in Actors
        PROVE  /\ pc'[b] \in {"idle", "open"} => ref'[b] = 0
               /\ pc'[b] \notin {"idle", "open"} => ref'[b] \in Handles
               /\ Carries(b)' => b \in Writers
               /\ pc'[b] \in {"header", "insert"} =>
                     /\ cached' # ref'[b]
                     /\ \A c \in Actors \ {b} : ref'[c] # ref'[b]
                     /\ rows'[ref'[b]] = {} /\ pipe'[ref'[b]] = <<>>
    <3>1. CASE b = a
      BY <3>1, <2>2
    <3>2. CASE b # a /\ pc[b] \in {"header", "insert"}
      <4>1. ref[b] \in Handles \ {h} /\ ref[b] # 0
        BY <3>2, <1>0 DEF h
      <4> QED BY <4>1, <3>2, <2>1, <2>2, <1>0
    <3>3. CASE b # a /\ pc[b] \notin {"header", "insert"}
      BY <3>3, <2>2, <1>0
    <3> QED BY <3>1, <3>2, <3>3
  <2> QED BY <2>3, <2>4
<1>10. ASSUME NEW e \in Evictors, Evict(e) PROVE HoldInv'
  BY <1>0, <1>10, CsvConstants DEF Evict, memVars
<1>11. CASE Crash
  BY <1>0, <1>11 DEF Crash
<1>12. CASE UNCHANGED vars
  BY <1>0, <1>12 DEF vars, memVars
<1> QED
  BY NextIsSteps, <1>1, <1>2, <1>3, <1>4, <1>5, <1>6, <1>7, <1>8, <1>9, <1>10, <1>11, <1>12 DEF Steps

\* Every step keeps the header of a depth file first and alone.
LEMMA HeadStep == RowInv /\ HeadInv /\ [Next]_vars => HeadInv'
<1> SUFFICES ASSUME RowInv, HeadInv, [Next]_vars PROVE HeadInv'
  OBVIOUS
<1>D. depth' = depth
  <2>1. ASSUME NEW w \in Writers, Push(w) PROVE depth' = depth
    BY <2>1, PushDone
  <2>2. ASSUME NEW w \in Writers,
               StartRow(w) \/ Open(w) \/ WriteHeader(w) \/ OpenFails(w) \/ Insert(w)
        PROVE  depth' = depth
    BY <2>2 DEF StartRow, Open, WriteHeader, OpenFails, Insert
  <2>3. ASSUME NEW a \in Actors, FlushBuffer(a) \/ Release(a) PROVE depth' = depth
    BY <2>3 DEF FlushBuffer, Release
  <2>4. ASSUME NEW e \in Evictors, Evict(e) PROVE depth' = depth
    BY <2>4 DEF Evict
  <2>5. CASE ListForFlush \/ Crash
    BY <2>5 DEF ListForFlush, Crash
  <2>6. CASE UNCHANGED vars
    BY <2>6 DEF vars
  <2> QED BY NextIsSteps, <2>1, <2>2, <2>3, <2>4, <2>5, <2>6 DEF Steps
<1> SUFFICES ASSUME depth PROVE HeadInv'
  BY <1>D DEF HeadInv
<1>0. TypeOK /\ HoldInv /\ 0 \notin Handles /\ Writers \subseteq Actors
  BY CsvConstants DEF RowInv
<1> USE DEF HeadInv, Carries, TypeOK
<1>1. ASSUME NEW w \in Writers, StartRow(w) PROVE HeadInv'
  BY <1>0, <1>1 DEF StartRow, memVars, HeaderFirst
<1>2. ASSUME NEW w \in Writers, Open(w) PROVE HeadInv'
  BY <1>0, <1>2 DEF Open, memVars, HeaderFirst
<1>13. ASSUME file = <<>>, file' = Append(file, Header) PROVE HeaderFirst' /\ file' # <<>>
  BY <1>13 DEF HeaderFirst
<1>3. ASSUME NEW w \in Writers, WriteHeader(w) PROVE HeadInv'
  BY <1>0, <1>3, <1>13 DEF WriteHeader, memVars
<1>4. ASSUME NEW w \in Writers, OpenFails(w) PROVE HeadInv'
  <2>1. HeaderFirst'
    BY <1>0, <1>4, <1>13 DEF OpenFails, HeaderFirst
  <2> QED BY <2>1, <1>0, <1>4, <1>13 DEF OpenFails, memVars
<1>5. ASSUME NEW w \in Writers, Insert(w) PROVE HeadInv'
  BY <1>0, <1>5 DEF Insert, memVars, HeaderFirst
<1>6. ASSUME NEW w \in Writers, Push(w) PROVE HeadInv'
  BY <1>0, <1>6, PushDone DEF MoveDone
<1>7. CASE ListForFlush
  BY <1>0, <1>7, CsvConstants DEF ListForFlush, memVars, HeaderFirst
<1>8. ASSUME NEW a \in Actors, FlushBuffer(a) PROVE HeadInv'
  BY <1>0, <1>8, FlushBufferDone DEF FlushBuffer, MoveDone
<1>9. ASSUME NEW a \in Actors, Release(a) PROVE HeadInv'
  BY <1>0, <1>9, ReleaseDone DEF Release, MoveDone
<1>10. ASSUME NEW e \in Evictors, Evict(e) PROVE HeadInv'
  BY <1>0, <1>10, CsvConstants DEF Evict, memVars, HeaderFirst
<1>11. CASE Crash
  BY <1>0, <1>11 DEF Crash, HeaderFirst
<1>12. CASE UNCHANGED vars
  BY <1>0, <1>12 DEF vars, memVars, HeaderFirst
<1> QED
  BY NextIsSteps, <1>1, <1>2, <1>3, <1>4, <1>5, <1>6, <1>7, <1>8, <1>9, <1>10, <1>11, <1>12 DEF Steps

\* The header is not a row.
LEMMA HeaderApart ==
  ASSUME TypeOK, Accounted
  PROVE  /\ Header \in 0..handed /\ Header \notin 1..handed
         /\ \A h \in Handles : Header \notin Held(h)
         /\ \A w \in Writers : Carries(w) => row[w] # Header
<1>1. Header \in 0..handed /\ Header \notin 1..handed
  BY CsvConstants DEF TypeOK, Line, Header
<1> QED BY <1>1 DEF Accounted

\* Every step keeps each row in exactly one place.
LEMMA AccountStep == RowInv /\ [Next]_vars => Accounted'
<1> SUFFICES ASSUME RowInv, [Next]_vars PROVE Accounted'
  OBVIOUS
<1>0. TypeOK /\ HoldInv /\ Accounted /\ Writers \subseteq Actors
  BY CsvConstants DEF RowInv
<1>1. ASSUME NEW w \in Writers, StartRow(w) PROVE Accounted'
  <2>1. /\ handed \in Nat /\ handed' = handed + 1 /\ row' = [row EXCEPT ![w] = handed + 1]
        /\ pc[w] = "idle" /\ Carries(w)' /\ \A v \in Writers \ {w} : Carries(v)' <=> Carries(v)
        /\ UNCHANGED <<rows, pipe, file, gone>>
    BY <1>0, <1>1, CsvConstants DEF StartRow, memVars, Carries, TypeOK, Line
  <2>2. row'[w] = handed + 1 /\ \A v \in Writers \ {w} : row'[v] = row[v]
    BY <2>1, <1>0 DEF TypeOK
  <2>3. 1..handed' = (1..handed) \cup {handed + 1} /\ 0..handed \subseteq 0..handed'
        /\ handed + 1 \notin 0..handed
    BY <2>1
  <2>4. \A h \in Handles : Held(h)' = Held(h)
    BY <2>1 DEF Held
  <2>5. ~Carries(w)
    BY <2>1 DEF Carries
  <2> QED BY <2>1, <2>2, <2>3, <2>4, <2>5, <1>0 DEF Accounted
<1>2. ASSUME NEW w \in Writers, Open(w) \/ Insert(w) PROVE Accounted'
  <2>1. /\ \A v \in Writers : Carries(v)' <=> Carries(v)
        /\ UNCHANGED <<rows, pipe, file, gone, row, handed>>
    BY <1>0, <1>2 DEF Open, Insert, memVars, Carries, TypeOK
  <2> QED BY <2>1, <1>0 DEF Accounted, Held
<1>3. ASSUME NEW w \in Writers, WriteHeader(w) PROVE Accounted'
  <2>1. /\ \A v \in Writers : Carries(v)' <=> Carries(v)
        /\ UNCHANGED <<rows, pipe, gone, row, handed>> /\ file' = Append(file, Header)
    BY <1>0, <1>3 DEF WriteHeader, memVars, Carries, TypeOK
  <2>2. ToSet(file') = ToSet(file) \cup {Header} /\ Once(file')
    BY <2>1, <1>0, HeaderAdds DEF Accounted
  <2>3. \A h \in Handles : Held(h)' = Held(h)
    BY <2>1 DEF Held
  <2> QED BY <2>1, <2>2, <2>3, <1>0, HeaderApart DEF Accounted
<1>4. ASSUME NEW w \in Writers, OpenFails(w) PROVE Accounted'
  <2>1. /\ Carries(w) /\ ~Carries(w)' /\ \A v \in Writers \ {w} : Carries(v)' <=> Carries(v)
        /\ UNCHANGED <<rows, pipe, row, handed>> /\ gone' = gone \cup {row[w]}
        /\ file' = file \/ file' = Append(file, Header)
    BY <1>0, <1>4 DEF OpenFails, memVars, Carries, TypeOK
  <2>2. ToSet(file) \subseteq ToSet(file') /\ ToSet(file') \subseteq ToSet(file) \cup {Header} /\ Once(file')
    BY <2>1, <1>0, HeaderAdds DEF Accounted
  <2>3. \A h \in Handles : Held(h)' = Held(h)
    BY <2>1 DEF Held
  <2>4. \A r \in 1..handed : (\E v \in Writers : Carries(v) /\ row[v] = r)
           => (\E v \in Writers : Carries(v)' /\ row'[v] = r) \/ r \in gone'
    BY <2>1
  <2> QED BY <2>1, <2>2, <2>3, <2>4, <1>0, HeaderApart DEF Accounted
<1>6. ASSUME NEW w \in Writers, Push(w) PROVE Accounted'
  BY <1>6, PushDone DEF MoveDone
<1>8. ASSUME NEW a \in Actors, FlushBuffer(a) PROVE Accounted'
  BY <1>8, FlushBufferDone DEF MoveDone
<1>9. ASSUME NEW a \in Actors, Release(a) PROVE Accounted'
  BY <1>9, ReleaseDone DEF MoveDone
<1>10. ASSUME ListForFlush \/ \E e \in Evictors : Evict(e) PROVE Accounted'
  <2>1. /\ \A v \in Writers : Carries(v)' <=> Carries(v)
        /\ UNCHANGED <<rows, pipe, file, gone, row, handed>>
    BY <1>0, <1>10, CsvConstants DEF ListForFlush, Evict, memVars, Carries, TypeOK
  <2> QED BY <2>1, <1>0 DEF Accounted, Held
<1>11. CASE Crash
  <2>1. /\ \A v \in Writers : ~Carries(v)'
        /\ \A h \in Handles : rows'[h] = {} /\ pipe'[h] = <<>>
        /\ UNCHANGED <<file, row, handed>> /\ gone \subseteq gone'
        /\ InMemory \ {Header} \subseteq gone'
        /\ \A v \in Writers : Carries(v) => row[v] \in gone'
    BY <1>0, <1>11 DEF Crash, Carries
  <2>2. \A h \in Handles : Held(h) \subseteq gone'
    <3>1. \A h \in Handles : Held(h) \subseteq 1..handed
      BY <1>0 DEF Accounted
    <3>2. \A h \in Handles : Header \notin Held(h)
      BY <3>1, <1>0, CsvConstants DEF TypeOK, Line, Header
    <3> QED BY <3>2, <2>1 DEF InMemory, Held
  <2>3. \A h \in Handles : Held(h)' = {} /\ Once(pipe[h])' /\ ToSet(pipe[h])' = {}
    BY <2>1, EmptyFacts DEF Held
  <2> QED BY <2>1, <2>2, <2>3, <1>0 DEF Accounted
<1>12. CASE UNCHANGED vars
  BY <1>0, <1>12 DEF vars, memVars, Accounted, Held, Carries
<1> QED
  BY NextIsSteps, <1>1, <1>2, <1>3, <1>4, <1>6, <1>8, <1>9, <1>10, <1>11, <1>12 DEF Steps

\* Nothing is written at first.
LEMMA CsvStart == Init => RowInv /\ HeadInv
<1> SUFFICES ASSUME Init PROVE RowInv /\ HeadInv
  OBVIOUS
<1>1. TypeOK
  <2>1. 0 \in Line /\ {} \subseteq Line /\ 0 \in 0..MaxFaults /\ 0 \in 0..MaxCrashes
    BY CsvConstants DEF Line
  <2> QED BY <2>1 DEF Init, TypeOK
<1>2. HoldInv
  BY DEF Init, HoldInv, Carries
<1>3. Accounted
  <2>1. 1..0 = {} /\ \A w \in Writers : ~Carries(w)
    BY CsvConstants DEF Init, Carries
  <2>2. \A h \in Handles : Held(h) = {} /\ ToSet(pipe[h]) = {} /\ Once(pipe[h]) /\ rows[h] = {}
    BY EmptyFacts DEF Init, Held
  <2>3. ToSet(file) = {} /\ Once(file) /\ handed = 0
    BY EmptyFacts DEF Init
  <2> QED BY <2>1, <2>2, <2>3 DEF Accounted
<1>4. HeadInv
  BY CsvConstants DEF Init, HeadInv, HeaderFirst, Carries
<1> QED BY <1>1, <1>2, <1>3, <1>4 DEF RowInv

\* In every reachable state each row handed over is in exactly one place, and a
\* buffer nobody holds is empty.
THEOREM RowInvAlways == Spec => []RowInv
<1>1. Init => RowInv
  BY CsvStart
<1>2. RowInv /\ [Next]_vars => RowInv'
  BY TypeStep, HoldStep, AccountStep DEF RowInv
<1> QED BY <1>1, <1>2, PTL DEF Spec

\* Rotation, cleanup, failing flushes and crashes strand no row and repeat none
\* (get_or_create_buffer, flush_locked, Drop of FileBuffer), for any number of
\* tasks, rows, faults and crashes.
THEOREM RowsConservedAlways == Spec => []RowsConserved
<1>1. RowInv => RowsConserved
  <2> SUFFICES ASSUME RowInv PROVE RowsConserved
    OBVIOUS
  <2>1. 1..handed \subseteq Underway \cup InMemory \cup ToSet(file) \cup gone
    BY DEF RowInv, Accounted, Carries, Held, Underway, InMemory
  <2>2. \A h \in Handles : Free(h) => rows[h] = {} /\ pipe[h] = <<>>
    BY DEF RowInv, HoldInv
  <2>3. NoRowTwice
    BY DEF RowInv, Accounted, Once, NoRowTwice
  <2> QED BY <2>1, <2>2, <2>3 DEF RowsConserved, NoRowStranded
<1> QED BY <1>1, RowInvAlways, PTL

\* A depth file starts with its header and has no other, whatever was evicted,
\* failed or crashed in between (get_or_create_buffer).
THEOREM OneHeaderAlways == Spec => []OneHeader
<1>1. HeadInv => OneHeader
  BY DEF HeadInv, HeaderFirst, OneHeader
<1>2. Init => HeadInv
  BY CsvStart
<1>3. RowInv /\ HeadInv /\ [Next]_vars => HeadInv'
  BY HeadStep
<1> QED BY <1>1, <1>2, <1>3, RowInvAlways, PTL DEF Spec

=============================================================================
