------------------------- MODULE GapRegistryProofs -------------------------
(***************************************************************************)
(* What GapRegistry promises across crashes, failing saves and shutdown,   *)
(* proved for any number of events, faults and crashes.                    *)
(*                                                                         *)
(* The argument is about which events stand for which.  A list covers some *)
(* events if each is in it or Cap newer ones of the list displaced it.     *)
(* Covering is transitive, add_event's list covers the one it extends, and *)
(* from there the chain runs: the entry covers what a saver cloned, which  *)
(* covers what was saved before, and becomes the file.                     *)
(***************************************************************************)
EXTENDS GapRegistry, FiniteSetTheorems, SequenceTheorems, TLAPS

Covers(F, G) == \A e \in G : e \in F \/ Displaced(e, F)

\* The events of a registry entry, a clone of one, or a readable file: at
\* most Cap, in the order of their recording, none of them still to come.
Rising(s, n) ==
    /\ s \in Seq(1..n)
    /\ Len(s) <= Cap
    /\ \A i, j \in DOMAIN s : i < j => s[i] < s[j]

\* The newest event that can be in an entry or a file.
Known == IF adding \in {"load", "push"} THEN recorded - 1 ELSE recorded

AtWork(v) == pc[v] \notin {"idle", "done"}
Cloned(v) == pc[v] \in {"create", "write", "rename"}

Lists ==
    /\ adding # "idle" => recorded >= 1
    /\ Rising(events, Known)
    /\ \A v \in Savers : Rising(snap[v], Known)
    /\ \A i \in Inodes : content[i] = Torn \/ Rising(content[i], Known)

\* What is loaded when.
Loading ==
    /\ adding = "load" => ~loaded
    /\ ~loaded => events = <<>> /\ adding # "mark" /\ ~dirty /\ \A v \in Savers : ~AtWork(v)
    /\ adding = "mark" => events # <<>>
    /\ ~unread /\ ~overlap /\ adding = "push" => loaded

\* As long as no two savers met, the temporary file belongs to the one at
\* work, and is never the file under the registry's name.
Files ==
    /\ \A v \in Savers : pc[v] # "write" => handle[v] = None
    /\ ~overlap =>
        /\ ~(AtWork(Periodic) /\ AtWork(Shutdown))
        /\ disk # None => disk # tmp /\ content[disk] # Torn
        /\ \A v \in Savers :
              /\ pc[v] = "write" => tmp # None /\ handle[v] = tmp /\ content[tmp] = Torn
              /\ pc[v] = "rename" => tmp # None /\ content[tmp] = snap[v]

SavedCovered ==
    /\ \A v \in Savers : Cloned(v) => Covers(ToSet(events), ToSet(snap[v]))
    /\ ~overlap => OnDisk \subseteq saved
    /\ ~overlap /\ ~unread =>
        /\ Covers(OnDisk, saved)
        /\ loaded => Covers(ToSet(events), saved)
        /\ \A v \in Savers : Cloned(v) => Covers(ToSet(snap[v]), saved)

\* The entry without an event whose mark is still to come.
Marked == IF adding = "mark" THEN ToSet(Front(events)) ELSE ToSet(events)

OwedCovered ==
    /\ pc[Shutdown] # "idle" => Covers(ToSet(events), owed)
    /\ ~overlap /\ faults = 0 =>
        /\ pc[Shutdown] = "done" => Covers(OnDisk, owed)
        /\ \A v \in Savers : Cloned(v) /\ pc[Shutdown] # "idle" => Covers(ToSet(snap[v]), owed)
        /\ ~dirty /\ (\A v \in Savers : ~AtWork(v)) => Covers(OnDisk, Marked)
        /\ ~dirty => \A v \in Savers : Cloned(v) => Covers(ToSet(snap[v]), Marked)

GapInv == TypeOK /\ Lists /\ Loading /\ Files /\ SavedCovered /\ OwedCovered


-----------------------------------------------------------------------------
(***************************************************************************)
(* Lists and what they cover.                                              *)
(***************************************************************************)

\* What the proofs use of the constants.
LEMMA GapConstants ==
  /\ Cap \in Nat /\ Cap > 0 /\ MaxEvents \in Nat /\ MaxFaults \in Nat /\ MaxCrashes \in Nat
  /\ Periodic # Shutdown /\ Periodic \in Savers /\ Shutdown \in Savers
  /\ \A v \in Savers : v = Periodic \/ v = Shutdown
  /\ None \notin Inodes
BY GapRegistryAssumption DEF Savers, None, Inodes

\* A list of rising events is a sequence over their set.
LEMMA RisingSet ==
  ASSUME NEW n \in Nat, NEW s, Rising(s, n)
  PROVE  /\ ToSet(s) \subseteq 1..n /\ IsFiniteSet(ToSet(s)) /\ 0 \notin ToSet(s)
         /\ s # Torn /\ Cardinality(ToSet(s)) = Len(s)
         /\ ToSet(s) \ {0} = ToSet(s)
         /\ Len(s) \in Nat /\ DOMAIN s = 1..Len(s)
         /\ \A i \in 1..Len(s) : s[i] \in 1..n
<1>1. /\ Len(s) \in Nat /\ DOMAIN s = 1..Len(s) /\ s \in [1..Len(s) -> 1..n]
      /\ \A i \in 1..Len(s) : s[i] \in 1..n
  BY LenProperties, ElementOfSeq DEF Rising
<1>2. ToSet(s) \subseteq 1..n
  BY <1>1 DEF ToSet
<1>3. IsFiniteSet(ToSet(s))
  BY <1>2, FS_Interval, FS_Subset
<1>4. \A i, j \in 1..Len(s) : s[i] = s[j] => i = j
  <2> SUFFICES ASSUME NEW i \in 1..Len(s), NEW j \in 1..Len(s), s[i] = s[j], i < j PROVE FALSE
    BY <1>1
  <2> QED BY <1>1 DEF Rising
<1>5. s \in Injection(1..Len(s), ToSet(s)) /\ s \in Surjection(1..Len(s), ToSet(s))
  BY <1>1, <1>4 DEF Injection, IsInjective, Surjection, ToSet
<1>6. Cardinality(ToSet(s)) = Len(s)
  <2> DEFINE l == Len(s)
             S == ToSet(s)
  <2>1. l \in Nat /\ s \in Injection(1..l, S) /\ s \in Surjection(1..l, S)
    BY <1>1, <1>5
  <2> HIDE DEF l, S
  <2>2. IsFiniteSet(1..l) /\ Cardinality(1..l) = l
    BY <2>1, FS_Interval
  <2>3. Cardinality(1..l) = Cardinality(S)
    BY <2>1, <2>2, FS_Surjection
  <2> QED BY <2>2, <2>3 DEF l, S
<1>7. s # Torn
  <2>1. SUFFICES ASSUME s = Torn PROVE FALSE
    OBVIOUS
  <2>2. Len(Torn) = 1 /\ Torn[1] = 0
    BY DEF Torn
  <2> QED BY <2>1, <2>2, <1>1
<1> QED BY <1>1, <1>2, <1>3, <1>6, <1>7

\* A list of the first events is a list of the first and more.
LEMMA RisingMore ==
  ASSUME NEW n \in Nat, NEW m \in Nat, n <= m, NEW s, Rising(s, n)
  PROVE  Rising(s, m)
<1>1. 1..n \subseteq 1..m
  OBVIOUS
<1> QED BY <1>1, SeqMonotonic DEF Rising

\* An event that newer ones displaced stays displaced.
LEMMA DisplacedMore ==
  ASSUME NEW F, NEW G, IsFiniteSet(G), F \subseteq G, NEW e, F \subseteq Nat,
         Displaced(e, F)
  PROVE  Displaced(e, G)
<1> DEFINE A == {f \in F : f > e}
           B == {f \in G : f > e}
<1>1. A \subseteq B /\ IsFiniteSet(B)
  BY FS_Subset
<1>2. Cardinality(A) <= Cardinality(B) /\ Cardinality(A) \in Nat /\ Cardinality(B) \in Nat
  BY <1>1, FS_Subset, FS_CardinalityType
<1> HIDE DEF A, B
<1>3. Cardinality(A) >= Cap => Cardinality(B) >= Cap
  BY <1>2, GapConstants
<1> QED BY <1>3 DEF Displaced, A, B

\* Covering: what is in a set is covered by it, and covering is transitive.
LEMMA CoversFacts ==
  ASSUME NEW F, IsFiniteSet(F), F \subseteq Nat,
         NEW G, IsFiniteSet(G), G \subseteq Nat,
         NEW H, H \subseteq Nat
  PROVE  /\ G \subseteq F => Covers(F, G)
         /\ Covers(F, G) /\ Covers(G, H) => Covers(F, H)
         /\ Covers(F, H) /\ F \subseteq G => Covers(G, H)
         /\ Covers(F, {}) /\ (Covers({}, H) => H = {})
<1>1. ASSUME Covers(F, G), Covers(G, H), NEW e \in H, e \notin F PROVE Displaced(e, F)
  <2>1. CASE e \in G
    BY <2>1, <1>1 DEF Covers
  <2>2. CASE e \notin G
    <3> DEFINE newer == {f \in G : f > e}
    <3>1. Cardinality(newer) >= Cap
      BY <2>2, <1>1 DEF Covers, Displaced
    <3>2. CASE newer \subseteq F
      <4>1. Displaced(e, newer)
        <5>1. {f \in newer : f > e} = newer
          OBVIOUS
        <5> QED BY <5>1, <3>1 DEF Displaced
      <4> QED BY <3>2, <4>1, DisplacedMore
    <3>3. CASE ~(newer \subseteq F)
      <4>1. PICK f \in newer : f \notin F
        BY <3>3
      <4>2. Displaced(f, F) /\ f \in Nat /\ f > e /\ e \in Nat
        BY <4>1, <1>1 DEF Covers
      <4> DEFINE A == {g \in F : g > f}
                 B == {g \in F : g > e}
      <4>3. A \subseteq B /\ IsFiniteSet(B)
        <5>1. ASSUME NEW g \in F, g > f PROVE g > e
          <6>1. g \in Nat
            OBVIOUS
          <6> QED BY <6>1, <5>1, <4>2
        <5>2. B \subseteq F
          OBVIOUS
        <5>3. IsFiniteSet(B)
          <6> HIDE DEF B
          <6> QED BY <5>2, FS_Subset
        <5> QED BY <5>1, <5>3
      <4>4. Cardinality(A) <= Cardinality(B) /\ Cardinality(A) \in Nat /\ Cardinality(B) \in Nat
        BY <4>3, FS_Subset, FS_CardinalityType
      <4>5. Cardinality(A) >= Cap
        BY <4>2 DEF Displaced
      <4> HIDE DEF A, B
      <4>6. Cardinality(B) >= Cap
        BY <4>4, <4>5, GapConstants
      <4> QED BY <4>6 DEF Displaced, B
    <3> QED BY <3>2, <3>3
  <2> QED BY <2>1, <2>2
<1>2. Covers(F, H) /\ F \subseteq G => Covers(G, H)
  BY DisplacedMore DEF Covers
<1>3. Covers({}, H) => H = {}
  <2>1. \A e : ~Displaced(e, {})
    <3> SUFFICES ASSUME NEW e PROVE ~Displaced(e, {})
      OBVIOUS
    <3>1. {f \in {} : f > e} = {} /\ Cardinality({}) = 0
      BY FS_EmptySet
    <3> QED BY <3>1, GapConstants DEF Displaced
  <2> QED BY <2>1 DEF Covers
<1> QED BY <1>1, <1>2, <1>3 DEF Covers

\* What covers events covers each part of them.
LEMMA CoversPart ==
  ASSUME NEW F, NEW G, NEW H, Covers(F, G), H \subseteq G
  PROVE  Covers(F, H)
BY DEF Covers

\* add_event's list: the new event at the end, the oldest gone if there are
\* too many; it covers the list it extends.
LEMMA PushFacts ==
  ASSUME NEW n \in Nat, NEW s, Rising(s, n), NEW r \in Nat, r > n
  PROVE  LET t == Trim(Append(s, r))
         IN  /\ Rising(t, r)
             /\ t # <<>> /\ ToSet(Front(t)) \subseteq ToSet(s)
             /\ Covers(ToSet(t), ToSet(s))
<1> DEFINE l == Len(s)
           d == IF l + 1 > Cap THEN 1 ELSE 0
           t == Trim(Append(s, r))
<1>1. /\ l \in Nat /\ l <= Cap /\ DOMAIN s = 1..l /\ \A i \in 1..l : s[i] \in 1..n
      /\ \A i, j \in 1..l : i < j => s[i] < s[j]
  BY RisingSet DEF Rising
<1>2. /\ Append(s, r) \in Seq(1..r) /\ Len(Append(s, r)) = l + 1
      /\ \A i \in 1..(l + 1) : Append(s, r)[i] = IF i <= l THEN s[i] ELSE r
  <2>1. 1..n \subseteq 1..r /\ r \in 1..r
    OBVIOUS
  <2>2. s \in Seq(1..r)
    BY <2>1, SeqMonotonic DEF Rising
  <2> QED BY <2>1, <2>2
<1>0. Cap \in Nat /\ Cap > 0
  BY GapConstants
<1>3. t = SubSeq(Append(s, r), d + 1, l + 1) /\ d \in {0, 1} /\ (d = 1 => l = Cap)
  <2> DEFINE q == Append(s, r)
  <2>1. /\ l \in Nat /\ l <= Cap /\ Len(q) = l + 1
        /\ t = SubSeq(q, IF Len(q) > Cap THEN Len(q) - Cap + 1 ELSE 1, Len(q))
    BY <1>1, <1>2 DEF Trim
  <2> HIDE DEF q, l, t
  <2>2. CASE l + 1 > Cap
    <3>1. l = Cap
      BY <2>1, <2>2, <1>0
    <3> QED BY <2>1, <2>2, <3>1, <1>0 DEF q
  <2>3. CASE ~(l + 1 > Cap)
    BY <2>1, <2>3, <1>0 DEF q
  <2> QED BY <2>2, <2>3
<1> DEFINE a == Append(s, r)
<1> HIDE DEF a
<1>4. /\ t \in Seq(1..r) /\ Len(t) = l + 1 - d /\ Len(t) <= Cap
      /\ \A i \in 1..Len(t) : t[i] = a[i + d]
  <2>1. t = SubSeq(a, d + 1, l + 1) /\ a \in Seq(1..r) /\ Len(a) = l + 1
    BY <1>2, <1>3 DEF a
  <2>2. l + 1 - d <= Cap
    BY <1>1, GapConstants
  <2> HIDE DEF d, t, l
  <2>3. d + 1 \in Nat /\ l + 1 \in Nat
    BY <1>1, <1>3
  <2>7. \A i \in (d + 1)..(l + 1) : a[i] \in 1..r
    <3>1. \A i \in (d + 1)..(l + 1) : i \in 1..Len(a)
      BY <2>1, <1>1, <1>3
    <3> QED BY <3>1, <2>1, ElementOfSeq
  <2>4. t \in Seq(1..r)
    BY <2>7, <2>1, <2>3, <1>3, SubSeqProperties
  <2>5. Len(t) = l + 1 - d
    BY <2>1, <1>1, <1>3
  <2>6. \A i \in 1..(l + 1 - d) : t[i] = a[i + d]
    <3>1. \A i \in 1..((l + 1) - (d + 1) + 1) : t[i] = a[(d + 1) + i - 1]
      <4>1. \A i \in 1..((l + 1) - (d + 1) + 1) :
                SubSeq(a, d + 1, l + 1)[i] = a[(d + 1) + i - 1]
        BY <2>3, <2>7, SubSeqProperties
      <4> QED BY <4>1, <2>1
    <3>2. \A i \in Nat : (d + 1) + i - 1 = i + d
      BY <1>3
    <3>3. (l + 1) - (d + 1) + 1 = l + 1 - d
      BY <1>1, <1>3
    <3> QED BY <3>1, <3>2, <3>3, <1>1, <1>3
  <2> QED BY <2>2, <2>4, <2>5, <2>6
<1>5. \A i \in 1..(l + 1) : a[i] = IF i <= l THEN s[i] ELSE r
  BY <1>2 DEF a
<1> HIDE DEF t, l, d
<1>6. Rising(t, r)
  <2>0. DOMAIN t = 1..Len(t)
    BY <1>4
  <2> SUFFICES ASSUME NEW i \in 1..Len(t), NEW j \in 1..Len(t), i < j PROVE t[i] < t[j]
    BY <2>0, <1>4 DEF Rising
  <2>1. i + d \in 1..l /\ i + d \in 1..(l + 1) /\ j + d \in 1..(l + 1) /\ i + d < j + d
        /\ i + d <= l
    BY <1>1, <1>3, <1>4
  <2>2. a[i + d] = s[i + d] /\ a[j + d] = IF j + d <= l THEN s[j + d] ELSE r
    BY <2>1, <1>5
  <2>6. t[i] = s[i + d] /\ t[j] = IF j + d <= l THEN s[j + d] ELSE r
    BY <2>2, <1>4
  <2>3. s[i + d] \in 1..n
    BY <2>1, <1>1
  <2>4. CASE j + d <= l
    <3>1. j + d \in 1..l
      BY <2>1, <2>4, <1>1
    <3> QED BY <3>1, <2>1, <2>6, <2>4, <1>1
  <2>5. CASE ~(j + d <= l)
    BY <2>6, <2>3, <2>5
  <2> QED BY <2>4, <2>5
<1>7. t # <<>> /\ ToSet(Front(t)) \subseteq ToSet(s)
  <2>1. Len(t) \in Nat /\ Len(t) >= 1 /\ Len(t) - 1 \in Nat
    BY <1>1, <1>3, <1>4, GapConstants
  <2>2. Front(t) = SubSeq(t, 1, Len(t) - 1) /\ t # <<>>
    BY <2>1 DEF Front
  <2> DEFINE f == Front(t)
  <2>3. DOMAIN f = 1..(Len(t) - 1) /\ \A i \in 1..(Len(t) - 1) : f[i] = t[i]
    <3>1. Len(f) = Len(t) - 1 /\ f \in Seq(1..r)
      BY <2>1, <2>2, <1>4
    <3> QED BY <3>1, <2>1, <2>2, <1>4
  <2> HIDE DEF f
  <2>4. \A i \in 1..(Len(t) - 1) : f[i] \in ToSet(s)
    <3> SUFFICES ASSUME NEW i \in 1..(Len(t) - 1) PROVE f[i] \in ToSet(s)
      OBVIOUS
    <3>1. i \in 1..Len(t) /\ i + d \in 1..l /\ i + d \in 1..(l + 1) /\ i + d <= l
      BY <2>1, <1>1, <1>3, <1>4
    <3>3. a[i + d] = s[i + d]
      BY <3>1, <1>5
    <3>2. f[i] = s[i + d]
      BY <3>1, <3>3, <2>3, <1>4
    <3> QED BY <3>1, <3>2, <1>1 DEF ToSet
  <2>5. ToSet(f) \subseteq ToSet(s)
    BY <2>3, <2>4 DEF ToSet
  <2> QED BY <2>2, <2>5 DEF f
<1>8. Covers(ToSet(t), ToSet(s))
  <2> SUFFICES ASSUME NEW e \in ToSet(s), e \notin ToSet(t) PROVE Displaced(e, ToSet(t))
    BY DEF Covers
  <2>1. PICK k \in 1..l : e = s[k]
    BY <1>1 DEF ToSet
  <2>2. d = 1 /\ k = 1
    <3> SUFFICES ASSUME ~(d = 1 /\ k = 1) PROVE FALSE
      OBVIOUS
    <3>1. k - d \in 1..Len(t) /\ (k - d) + d = k /\ k \in 1..(l + 1) /\ k <= l
      BY <1>1, <1>3, <1>4
    <3> HIDE DEF d
    <3>4. a[k] = s[k]
      BY <3>1, <1>5
    <3>5. t[k - d] = a[(k - d) + d]
      BY <3>1, <1>4
    <3>2. t[k - d] = s[k]
      BY <3>1, <3>4, <3>5
    <3>3. DOMAIN t = 1..Len(t)
      BY <1>4, LenProperties
    <3> QED BY <3>1, <3>2, <3>3, <2>1 DEF ToSet
  <2>3. Len(t) = Cap
    BY <2>2, <1>0, <1>1, <1>3, <1>4
  <2>4. ASSUME NEW i \in 1..Len(t) PROVE t[i] > e
    <3>1. i + 1 \in 1..(l + 1) /\ t[i] = a[i + 1] /\ 1 < i + 1
      BY <2>2, <1>1, <1>4
    <3>2. t[i] = IF i + 1 <= l THEN s[i + 1] ELSE r
      BY <3>1, <1>5
    <3>3. s[1] \in 1..n /\ e = s[1]
      BY <2>1, <2>2, <1>1
    <3> QED BY <3>1, <3>2, <3>3, <2>2, <1>1
  <2>5. {f \in ToSet(t) : f > e} = ToSet(t)
    <3>1. DOMAIN t = 1..Len(t)
      BY <1>4, LenProperties
    <3> QED BY <3>1, <2>4 DEF ToSet
  <2>6. Cardinality(ToSet(t)) = Len(t)
    BY <1>6, RisingSet
  <2>7. Cardinality({f \in ToSet(t) : f > e}) = Cap
    BY <2>3, <2>5, <2>6
  <2> QED BY <2>7, <1>0 DEF Displaced
<1> QED BY <1>6, <1>7, <1>8 DEF t


-----------------------------------------------------------------------------
(***************************************************************************)
(* Every step keeps the invariant, part by part.                           *)
(***************************************************************************)

Steps ==
    \/ StartAdd \/ Load \/ LoadFails \/ Push \/ Mark
    \/ \E v \in Savers : Take(v) \/ Clone(v) \/ Create(v) \/ WriteTmp(v) \/ Rename(v) \/ SaveFails(v)
    \/ NothingDirty \/ Stop \/ (Gone /\ stopping' = FALSE /\ crashes' \in 0..MaxCrashes)

\* The next-state relation, with a crash and a restart taken as what they leave.
LEMMA NextSteps == TypeOK /\ Next => Steps
<1> SUFFICES ASSUME TypeOK, Next PROVE Steps
  OBVIOUS
<1>1. Crash => Gone /\ stopping' = FALSE /\ crashes' \in 0..MaxCrashes
  BY GapConstants DEF Crash, TypeOK
<1>2. Exit => Gone /\ stopping' = FALSE /\ crashes' \in 0..MaxCrashes
  BY DEF Exit, TypeOK
<1> QED BY <1>1, <1>2 DEF Next, Add, Save, Steps

\* The sets the argument is about are finite sets of numbers.
LEMMA SetsOf ==
  ASSUME TypeOK, Lists
  PROVE  /\ Known \in Nat /\ Known <= MaxEvents /\ recorded \in Nat
         /\ IsFiniteSet(ToSet(events)) /\ ToSet(events) \subseteq Nat
         /\ \A v \in Savers : IsFiniteSet(ToSet(snap[v])) /\ ToSet(snap[v]) \subseteq Nat
         /\ IsFiniteSet(OnDisk) /\ OnDisk \subseteq Nat
         /\ saved \subseteq Nat /\ owed \subseteq Nat
         /\ DiskEvents # Torn => Rising(DiskEvents, Known) /\ OnDisk = ToSet(DiskEvents)
         /\ \A n \in Nat : Rising(<<>>, n) /\ ToSet(<<>>) = {}
<1>1. Known \in Nat /\ Known <= MaxEvents /\ recorded \in Nat
  BY GapConstants DEF TypeOK, Lists, Known
<1>2. \A n \in Nat : Rising(<<>>, n) /\ ToSet(<<>>) = {}
  BY GapConstants DEF Rising, ToSet
<1>3. DiskEvents # Torn => Rising(DiskEvents, Known) /\ OnDisk = ToSet(DiskEvents)
  <2> SUFFICES ASSUME DiskEvents # Torn
               PROVE  Rising(DiskEvents, Known) /\ OnDisk = ToSet(DiskEvents)
    OBVIOUS
  <2>1. Rising(DiskEvents, Known)
    BY <1>1, <1>2 DEF DiskEvents, Lists, TypeOK
  <2> QED BY <1>1, <2>1, RisingSet DEF OnDisk
<1>4. DiskEvents = Torn => OnDisk = {}
  <2>1. DOMAIN Torn = {1} /\ Torn[1] = 0
    BY DEF Torn
  <2>2. ToSet(Torn) \ {0} = {}
    BY <2>1 DEF ToSet
  <2> QED BY <2>2 DEF OnDisk
<1>5. IsFiniteSet(OnDisk) /\ OnDisk \subseteq Nat
  BY <1>1, <1>3, <1>4, RisingSet, FS_EmptySet
<1>6. IsFiniteSet(ToSet(events)) /\ ToSet(events) \subseteq Nat
  BY <1>1, RisingSet DEF Lists
<1>7. \A v \in Savers : IsFiniteSet(ToSet(snap[v])) /\ ToSet(snap[v]) \subseteq Nat
  BY <1>1, RisingSet DEF Lists
<1>8. saved \subseteq Nat /\ owed \subseteq Nat
  BY DEF TypeOK
<1> QED BY <1>1, <1>2, <1>3, <1>5, <1>6, <1>7, <1>8

\* A file may be torn or empty.
LEMMA TornFile == Torn \in File /\ <<>> \in File
BY GapConstants DEF Torn, File

\* A rising list fits a file's type.
LEMMA RisingFile ==
  ASSUME NEW n \in Nat, n <= MaxEvents, NEW s, Rising(s, n)
  PROVE  s \in File /\ Len(s) <= Cap /\ ToSet(s) \subseteq 1..MaxEvents
<1>1. 1..n \subseteq 0..MaxEvents /\ 1..n \subseteq 1..MaxEvents
  BY GapConstants
<1> QED BY <1>1, SeqMonotonic, RisingSet DEF Rising, File

\* What add_event makes of the entry.
LEMMA PushGives ==
  ASSUME TypeOK, Lists, Push
  PROVE  /\ Rising(events', Known') /\ events' # <<>>
         /\ Marked' \subseteq ToSet(events)
         /\ Covers(ToSet(events'), ToSet(events))
         /\ adding = "push" /\ adding' = "mark" /\ loaded' = TRUE
         /\ Known < Known' /\ Known' \in Nat /\ Known' <= MaxEvents
         /\ UNCHANGED <<recorded, dirty, saveVars, fileVars, stopping, histVars, faults, crashes>>
<1>1. /\ adding = "push" /\ adding' = "mark" /\ loaded' = TRUE
      /\ events' = Trim(Append(events, recorded))
      /\ UNCHANGED <<recorded, dirty, saveVars, fileVars, stopping, histVars, faults, crashes>>
  BY DEF Push
<1>2. Known \in Nat /\ recorded \in Nat /\ Known = recorded - 1 /\ Known' = recorded
      /\ recorded <= MaxEvents
  BY <1>1, SetsOf, GapConstants DEF Known, TypeOK
<1>3. Rising(events, Known)
  BY DEF Lists
<1>4. /\ Rising(events', recorded) /\ events' # <<>>
      /\ ToSet(Front(events')) \subseteq ToSet(events)
      /\ Covers(ToSet(events'), ToSet(events))
  BY <1>1, <1>2, <1>3, PushFacts
<1> QED BY <1>1, <1>2, <1>4 DEF Marked

\* Every step keeps the lists rising and bounded.
LEMMA ListsStep == TypeOK /\ Lists /\ [Next]_vars => Lists'
<1> SUFFICES ASSUME TypeOK, Lists, [Next]_vars PROVE Lists'
  OBVIOUS
<1>0. Known \in Nat /\ recorded \in Nat /\ (DiskEvents # Torn => Rising(DiskEvents, Known))
      /\ \A n \in Nat : Rising(<<>>, n)
  BY SetsOf
<1>01. ASSUME NEW n \in Nat, Known <= n PROVE
         /\ Rising(events, n)
         /\ \A v \in Savers : Rising(snap[v], n)
         /\ \A i \in Inodes : content[i] = Torn \/ Rising(content[i], n)
  BY <1>0, <1>01, RisingMore DEF Lists
<1>1. CASE StartAdd
  <2>1. Known' = Known /\ recorded' >= 1
    BY <1>0, <1>1 DEF StartAdd, Known
  <2> QED BY <2>1, <1>1 DEF StartAdd, Lists, memVars, saveVars, fileVars
<1>2. CASE Load
  <2>1. Known' = Known
    BY <1>2 DEF Load, Known
  <2> QED BY <2>1, <1>0, <1>2 DEF Load, Lists, saveVars, fileVars
<1>3. CASE LoadFails
  <2>1. Known' = Known
    BY <1>3 DEF LoadFails, Known
  <2> QED BY <2>1, <1>0, <1>3 DEF LoadFails, Lists, memVars, saveVars, fileVars
<1>4. CASE Push
  <2>1. Rising(events', Known') /\ Known < Known' /\ Known' \in Nat
        /\ UNCHANGED <<recorded, saveVars, fileVars>> /\ adding = "push"
    BY <1>4, PushGives DEF Push
  <2>2. /\ \A v \in Savers : Rising(snap[v], Known')
        /\ \A i \in Inodes : content[i] = Torn \/ Rising(content[i], Known')
    BY <2>1, <1>0, <1>01
  <2> QED BY <2>1, <2>2 DEF Lists, saveVars, fileVars
<1>5. CASE Mark
  <2>1. Known' = Known
    BY <1>5 DEF Mark, Known
  <2> QED BY <2>1, <1>5 DEF Mark, Lists, saveVars, fileVars
<1>6. ASSUME NEW v \in Savers, Take(v) \/ Clone(v) \/ Create(v) \/ WriteTmp(v) \/ Rename(v) \/ SaveFails(v)
      PROVE  Lists'
  <2>1. Known' = Known /\ events' = events /\ adding' = adding /\ recorded' = recorded
    BY <1>6 DEF Take, Clone, Create, WriteTmp, Rename, SaveFails, addVars, memVars, Known
  <2>2. \A u \in Savers : snap'[u] = snap[u] \/ snap'[u] = events
    BY <1>6 DEF Take, Clone, Create, WriteTmp, Rename, SaveFails, TypeOK
  <2>3. \A i \in Inodes : content'[i] \in {content[i], Torn, snap[v]}
    <3>1. CASE Create(v)
      BY <3>1 DEF Create, TypeOK
    <3>2. CASE WriteTmp(v)
      BY <3>2 DEF WriteTmp, TypeOK
    <3>3. CASE ~Create(v) /\ ~WriteTmp(v)
      BY <3>3, <1>6 DEF Take, Clone, Rename, SaveFails, fileVars
    <3> QED BY <3>1, <3>2, <3>3
  <2> QED BY <2>1, <2>2, <2>3 DEF Lists
<1>7. CASE NothingDirty
  <2>1. Known' = Known
    BY <1>7 DEF NothingDirty, addVars, Known
  <2> QED BY <2>1, <1>7 DEF NothingDirty, addVars, memVars, fileVars, Lists
<1>8. CASE Stop
  <2>1. Known' = Known
    BY <1>8 DEF Stop, addVars, Known
  <2> QED BY <2>1, <1>8 DEF Stop, addVars, memVars, saveVars, fileVars, Lists
<1>9. CASE Gone
  <2>1. Known' = recorded /\ Known <= recorded
    BY <1>0, <1>9 DEF Gone, Known
  <2>2. \A i \in Inodes : content[i] = Torn \/ Rising(content[i], recorded)
    BY <2>1, <1>0, <1>01
  <2> QED BY <2>1, <2>2, <1>0, <1>9 DEF Gone, fileVars, Lists
<1>10. CASE UNCHANGED vars
  <2>1. Known' = Known
    BY <1>10 DEF vars, addVars, Known
  <2> QED BY <2>1, <1>10 DEF vars, addVars, memVars, saveVars, fileVars, Lists
<1> QED BY NextSteps, <1>1, <1>2, <1>3, <1>4, <1>5, <1>6, <1>7, <1>8, <1>9, <1>10 DEF Steps

\* Every step keeps what add_event has under way.
LEMMA LoadingStep == TypeOK /\ Lists /\ Loading /\ Files /\ [Next]_vars => Loading'
<1> SUFFICES ASSUME TypeOK, Lists, Loading, Files, [Next]_vars PROVE Loading'
  OBVIOUS
<1> USE DEF Loading, AtWork, TypeOK
<1>1. CASE StartAdd
  BY <1>1 DEF StartAdd, memVars, saveVars, histVars
<1>2. CASE Load
  BY <1>2 DEF Load, saveVars, histVars
<1>3. CASE LoadFails
  <2>1. unread' \/ DiskEvents = Torn
    BY <1>3 DEF LoadFails
  <2>2. ~unread' => overlap
    BY <2>1, <1>3 DEF Files, DiskEvents, LoadFails
  <2> QED BY <2>2, <1>3 DEF LoadFails, memVars, saveVars
<1>4. CASE Push
  <2>1. events' # <<>> /\ adding' = "mark" /\ loaded' = TRUE
    BY <1>4, PushGives
  <2> QED BY <2>1
<1>5. CASE Mark
  BY <1>5 DEF Mark, saveVars
<1>6. ASSUME NEW v \in Savers, Take(v) PROVE Loading'
  BY <1>6 DEF Take, addVars
<1>7. ASSUME NEW v \in Savers, Clone(v) \/ Create(v) \/ WriteTmp(v) \/ Rename(v) \/ SaveFails(v)
      PROVE  Loading'
  <2>1. UNCHANGED <<addVars, memVars, unread, overlap>> /\ AtWork(v)
    BY <1>7 DEF Clone, Create, WriteTmp, Rename, SaveFails, histVars
  <2> QED BY <2>1 DEF addVars, memVars
<1>8. CASE NothingDirty
  BY <1>8, GapConstants DEF NothingDirty, Finished, MayStart, addVars, memVars
<1>9. CASE Stop
  BY <1>9 DEF Stop, addVars, memVars, saveVars, histVars
<1>10. CASE Gone
  BY <1>10 DEF Gone
<1>11. CASE UNCHANGED vars
  BY <1>11 DEF vars, addVars, memVars, saveVars, histVars
<1> QED BY NextSteps, <1>1, <1>2, <1>3, <1>4, <1>5, <1>6, <1>7, <1>8, <1>9, <1>10, <1>11 DEF Steps


\* The marked events are events of the entry.
LEMMA MarkedIn ==
  ASSUME TypeOK, Lists, Loading
  PROVE  Marked \subseteq ToSet(events) /\ IsFiniteSet(Marked) /\ Marked \subseteq Nat
<1>1. ASSUME adding = "mark" PROVE ToSet(Front(events)) \subseteq ToSet(events)
  <2> DEFINE s == events
             l == Len(s)
             f == Front(s)
  <2>1. s \in Seq(1..Known) /\ s # <<>>
    BY <1>1 DEF Lists, Rising, Loading
  <2>2. l \in Nat /\ l >= 1 /\ DOMAIN s = 1..l /\ l - 1 \in Nat
    <3>1. l \in Nat /\ DOMAIN s = 1..l /\ (l = 0 <=> s = <<>>)
      BY <2>1, LenProperties, EmptySeq
    <3> QED BY <3>1, <2>1
  <2>3. f = SubSeq(s, 1, l - 1)
    BY <2>1 DEF Front
  <2>4. DOMAIN f = 1..(l - 1) /\ \A i \in 1..(l - 1) : f[i] = s[i]
    <3> HIDE DEF l, f, s
    <3>1. \A i \in 1..(l - 1) : s[i] \in 1..Known
      <4>1. \A i \in 1..(l - 1) : i \in 1..Len(s)
        BY <2>2 DEF l
      <4> QED BY <4>1, <2>1, ElementOfSeq
    <3>2. Len(f) = l - 1 /\ f \in Seq(1..Known) /\ \A i \in 1..(l - 1) : f[i] = s[i]
      <4>1. /\ Len(f) = IF 1 <= l - 1 THEN (l - 1) - 1 + 1 ELSE 0
            /\ f \in Seq(1..Known)
            /\ \A i \in 1..((l - 1) - 1 + 1) : f[i] = s[1 + i - 1]
        BY <3>1, <2>2, <2>3, SubSeqProperties
      <4>2. (l - 1) - 1 + 1 = l - 1 /\ \A i \in 1..(l - 1) : 1 + i - 1 = i
        BY <2>2
      <4> QED BY <4>1, <4>2, <2>2
    <3>3. DOMAIN f = 1..(l - 1)
      BY <3>2, LenProperties
    <3> QED BY <3>2, <3>3
  <2> HIDE DEF f, l, s
  <2>5. \A i \in 1..(l - 1) : i \in 1..l
    BY <2>2
  <2>6. ToSet(f) \subseteq ToSet(s)
    BY <2>2, <2>4, <2>5 DEF ToSet
  <2> QED BY <2>6 DEF f, s
<1>2. Marked \subseteq ToSet(events)
  BY <1>1 DEF Marked
<1> QED BY <1>2, SetsOf, FS_Subset

\* Every step keeps the types.
LEMMA TypeStep == TypeOK /\ Lists /\ Loading /\ [Next]_vars => TypeOK'
<1> SUFFICES ASSUME TypeOK, Lists, Loading, [Next]_vars PROVE TypeOK'
  OBVIOUS
<1>0. /\ Lists' /\ Known \in Nat /\ Known <= MaxEvents
      /\ Torn \in File /\ <<>> \in File
      /\ ToSet(events) \subseteq 1..MaxEvents /\ Marked \subseteq 1..MaxEvents
  <2>1. Known \in Nat /\ Known <= MaxEvents
    BY SetsOf
  <2>2. ToSet(events) \subseteq 1..MaxEvents
    BY <2>1, RisingFile DEF Lists
  <2> QED BY <2>1, <2>2, ListsStep, MarkedIn, TornFile
<1>1. CASE StartAdd
  <2>1. recorded' \in 0..MaxEvents
    BY <1>1, GapConstants DEF StartAdd, TypeOK
  <2> QED BY <2>1, <1>1 DEF StartAdd, memVars, saveVars, fileVars, histVars, TypeOK
<1>2. CASE Load
  <2>1. Rising(DiskEvents, Known)
    BY <1>2, SetsOf DEF Load
  <2>2. DiskEvents \in File /\ Len(DiskEvents) <= Cap
    BY <2>1, <1>0, RisingFile
  <2> QED BY <2>2, <1>2 DEF Load, saveVars, fileVars, histVars, TypeOK
<1>3. CASE LoadFails
  <2>1. faults' \in 0..MaxFaults /\ unread' \in BOOLEAN
    <3>1. CASE DiskEvents = Torn
      BY <3>1, <1>3 DEF LoadFails, TypeOK
    <3>2. CASE DiskEvents # Torn
      BY <3>2, <1>3, GapConstants DEF LoadFails, TypeOK
    <3> QED BY <3>1, <3>2
  <2> QED BY <2>1, <1>3 DEF LoadFails, memVars, saveVars, fileVars, TypeOK
<1>4. CASE Push
  <2>1. /\ Rising(events', Known') /\ Known' \in Nat /\ Known' <= MaxEvents
        /\ adding' = "mark" /\ loaded' = TRUE
        /\ UNCHANGED <<recorded, dirty, saveVars, fileVars, stopping, histVars, faults, crashes>>
    BY <1>4, PushGives
  <2>2. events' \in File /\ Len(events') <= Cap
    BY <2>1, RisingFile
  <2> QED BY <2>1, <2>2 DEF saveVars, fileVars, histVars, TypeOK
<1>5. CASE Mark
  BY <1>5 DEF Mark, saveVars, fileVars, TypeOK
<1>6. ASSUME NEW v \in Savers, Take(v) PROVE TypeOK'
  BY <1>6, <1>0 DEF Take, addVars, fileVars, TypeOK
<1>7. ASSUME NEW v \in Savers, Clone(v) PROVE TypeOK'
  BY <1>7 DEF Clone, addVars, memVars, fileVars, histVars, TypeOK
<1>8. ASSUME NEW v \in Savers, Create(v) PROVE TypeOK'
  BY <1>8, <1>0 DEF Create, addVars, memVars, histVars, TypeOK
<1>9. ASSUME NEW v \in Savers, WriteTmp(v) PROVE TypeOK'
  <2>1. content' \in [Inodes -> File]
    <3>1. snap[v] \in File
      BY DEF TypeOK
    <3>2. content' = [content EXCEPT ![handle[v]] = Torn] \/ content' = [content EXCEPT ![handle[v]] = snap[v]]
      BY <1>9 DEF WriteTmp
    <3> QED BY <3>1, <3>2, <1>0 DEF TypeOK
  <2> QED BY <2>1, <1>9 DEF WriteTmp, addVars, memVars, histVars, TypeOK
<1>10. ASSUME NEW v \in Savers, Rename(v) PROVE TypeOK'
  <2>1. tmp \in Inodes
    BY <1>10 DEF Rename, TypeOK
  <2>2. ToSet(content[tmp]) \ {0} \subseteq 1..MaxEvents
    <3>1. CASE content[tmp] = Torn
      <4>1. DOMAIN Torn = {1} /\ Torn[1] = 0
        BY DEF Torn
      <4> QED BY <4>1, <3>1 DEF ToSet
    <3>2. CASE Rising(content[tmp], Known)
      BY <3>2, <1>0, RisingFile
    <3> QED BY <3>1, <3>2, <2>1 DEF Lists
  <2>3. pc' \in [Savers -> {"idle", "clone", "create", "write", "rename", "done"}]
    BY <1>10 DEF Rename, Finished, TypeOK
  <2> QED BY <2>1, <2>2, <2>3, <1>10 DEF Rename, addVars, memVars, TypeOK
<1>11. ASSUME NEW v \in Savers, SaveFails(v) PROVE TypeOK'
  <2>1. faults' \in 0..MaxFaults /\ skipped' \in BOOLEAN
    BY <1>11, GapConstants DEF SaveFails, TypeOK
  <2>2. pc' \in [Savers -> {"idle", "clone", "create", "write", "rename", "done"}]
    BY <1>11 DEF SaveFails, Finished, TypeOK
  <2> QED BY <2>1, <2>2, <1>11 DEF SaveFails, addVars, memVars, fileVars, TypeOK
<1>12. CASE NothingDirty
  <2>1. owed' \subseteq 1..MaxEvents
    BY <1>12, <1>0 DEF NothingDirty, Marked
  <2>2. pc' \in [Savers -> {"idle", "clone", "create", "write", "rename", "done"}]
    BY <1>12 DEF NothingDirty, Finished, TypeOK
  <2> QED BY <2>1, <2>2, <1>12 DEF NothingDirty, addVars, memVars, fileVars, TypeOK
<1>13. CASE Stop
  BY <1>13 DEF Stop, addVars, memVars, saveVars, fileVars, histVars, TypeOK
<1>14. CASE Gone /\ stopping' = FALSE /\ crashes' \in 0..MaxCrashes
  <2>1. Len(<<>>) <= Cap
    BY GapConstants
  <2> QED BY <2>1, <1>14, <1>0 DEF Gone, fileVars, TypeOK
<1>15. CASE UNCHANGED vars
  BY <1>15 DEF vars, addVars, memVars, saveVars, fileVars, histVars, TypeOK
<1> QED BY NextSteps, <1>1, <1>2, <1>3, <1>4, <1>5, <1>6, <1>7, <1>8, <1>9, <1>10, <1>11, <1>12,
           <1>13, <1>14, <1>15 DEF Steps

\* Two savers hold two inodes at most and the file is a third: a new
\* temporary file finds a fourth.
LEMMA UnusedExists ==
  ASSUME TypeOK, tmp = None
  PROVE  \E j \in Inodes : Unused(j)
<1>1. Inodes = {1, 2, 3, 4}
  BY DEF Inodes
<1>2. \A j \in Inodes : j \notin {disk, handle[Periodic], handle[Shutdown]} => Unused(j)
  BY GapConstants DEF Unused
<1>3. \A a, b, c : \E j \in {1, 2, 3, 4} : j \notin {a, b, c}
  OBVIOUS
<1> QED BY <1>1, <1>2, <1>3

\* Every step keeps the files whole but for the one being written.
LEMMA FilesStep == TypeOK /\ Lists /\ Files /\ [Next]_vars => Files'
<1> SUFFICES ASSUME TypeOK, Lists, Files, [Next]_vars PROVE Files'
  OBVIOUS
<1>1. CASE StartAdd \/ Load \/ LoadFails \/ Push \/ Mark \/ Stop \/ UNCHANGED vars
  <2>1. UNCHANGED <<saveVars, fileVars, overlap>>
    BY <1>1 DEF StartAdd, Load, LoadFails, Push, Mark, Stop, histVars, vars
  <2> QED BY <2>1 DEF Files, AtWork, saveVars, fileVars
<1>2. ASSUME NEW v \in Savers, Take(v) PROVE Files'
  <2>1. /\ pc[v] = "idle" /\ pc' = [pc EXCEPT ![v] = "clone"]
        /\ UNCHANGED <<handle, snap, fileVars>>
        /\ ~overlap' => ~overlap /\ \A u \in Savers \ {v} : ~AtWork(u)
    BY <1>2 DEF Take, MayStart, AtWork
  <2>2. ~overlap' => ~(AtWork(Periodic) /\ AtWork(Shutdown))'
    BY <2>1, GapConstants DEF AtWork, TypeOK
  <2> QED BY <2>1, <2>2 DEF Files, fileVars, TypeOK
<1>3. ASSUME NEW v \in Savers, Clone(v) PROVE Files'
  <2>1. /\ pc[v] = "clone" /\ pc' = [pc EXCEPT ![v] = "create"]
        /\ snap' = [snap EXCEPT ![v] = events]
        /\ UNCHANGED <<handle, fileVars, overlap>>
    BY <1>3 DEF Clone, histVars
  <2>2. \A u \in Savers \ {v} : pc'[u] = pc[u] /\ snap'[u] = snap[u]
    BY <2>1 DEF TypeOK
  <2>3. pc'[v] = "create"
    BY <2>1 DEF TypeOK
  <2>4. \A u \in Savers : AtWork(u)' => AtWork(u)
    BY <2>1, <2>2, <2>3 DEF AtWork
  <2> QED BY <2>1, <2>2, <2>3, <2>4, GapConstants DEF Files, fileVars
<1>4. ASSUME NEW v \in Savers, Create(v) PROVE Files'
  <2>1. PICK i \in Inodes :
          /\ IF tmp = None THEN i = (CHOOSE j \in Inodes : Unused(j)) ELSE i = tmp
          /\ handle' = [handle EXCEPT ![v] = i]
          /\ content' = [content EXCEPT ![i] = Torn]
          /\ tmp' = i
    BY <1>4 DEF Create
  <2>2. /\ pc[v] = "create" /\ pc' = [pc EXCEPT ![v] = "write"]
        /\ UNCHANGED <<snap, disk, overlap>>
    BY <1>4 DEF Create, histVars
  <2>3. ~overlap /\ disk # None => i # disk
    <3>1. CASE tmp = None
      <4>1. Unused(i)
        BY <3>1, <2>1, UnusedExists
      <4> QED BY <4>1 DEF Unused
    <3>2. CASE tmp # None
      BY <3>2, <2>1 DEF Files
    <3> QED BY <3>1, <3>2
  <2>4. /\ pc'[v] = "write" /\ handle'[v] = i /\ content'[i] = Torn /\ i # None
        /\ \A u \in Savers \ {v} : pc'[u] = pc[u] /\ handle'[u] = handle[u]
        /\ \A j \in Inodes \ {i} : content'[j] = content[j]
    BY <2>1, <2>2, GapConstants DEF TypeOK
  <2>5. \A u \in Savers : AtWork(u)' <=> AtWork(u)
    BY <2>2, <2>4 DEF AtWork
  <2>6. ~overlap => \A u \in Savers \ {v} : ~AtWork(u)
    BY <2>2, GapConstants DEF Files, AtWork
  <2>7. ~overlap' => (disk' # None => disk' # tmp' /\ content'[disk'] # Torn)
    BY <2>1, <2>2, <2>3, <2>4 DEF Files, TypeOK
  <2> QED BY <2>1, <2>2, <2>4, <2>5, <2>6, <2>7, GapConstants DEF Files, AtWork
<1>5. ASSUME NEW v \in Savers, WriteTmp(v) PROVE Files'
  <2>1. /\ pc[v] = "write" /\ pc' = [pc EXCEPT ![v] = "rename"]
        /\ handle' = [handle EXCEPT ![v] = None]
        /\ UNCHANGED <<snap, tmp, disk, overlap>>
        /\ content' = [content EXCEPT ![handle[v]] =
                          IF content[handle[v]] # Torn /\ Len(content[handle[v]]) > Len(snap[v])
                          THEN Torn ELSE snap[v]]
    BY <1>5 DEF WriteTmp, histVars
  <2>2. /\ pc'[v] = "rename" /\ handle'[v] = None
        /\ \A u \in Savers \ {v} : pc'[u] = pc[u] /\ handle'[u] = handle[u]
    BY <2>1 DEF TypeOK
  <2>3. ~overlap => /\ \A u \in Savers \ {v} : ~AtWork(u)
                    /\ tmp # None /\ handle[v] = tmp /\ content[tmp] = Torn
    BY <2>1, GapConstants DEF Files, AtWork
  <2>4. ~overlap => content' = [content EXCEPT ![tmp] = snap[v]] /\ tmp \in Inodes
    BY <2>1, <2>3 DEF TypeOK
  <2>5. ~overlap => content'[tmp] = snap[v] /\ \A j \in Inodes \ {tmp} : content'[j] = content[j]
    BY <2>4 DEF TypeOK
  <2>6. \A u \in Savers : AtWork(u)' <=> AtWork(u)
    BY <2>1, <2>2 DEF AtWork
  <2>7. ~overlap' => (disk' # None => disk' # tmp' /\ content'[disk'] # Torn)
    BY <2>1, <2>4, <2>5 DEF Files, TypeOK
  <2> QED BY <2>1, <2>2, <2>3, <2>5, <2>6, <2>7 DEF Files, AtWork
<1>6. ASSUME NEW v \in Savers, Rename(v) PROVE Files'
  <2>1. /\ pc[v] = "rename" /\ tmp # None /\ disk' = tmp /\ tmp' = None
        /\ UNCHANGED <<snap, handle, content, overlap>> /\ Finished(v)
    BY <1>6 DEF Rename
  <2>2. /\ pc'[v] \in {"idle", "done"} /\ \A u \in Savers \ {v} : pc'[u] = pc[u]
    BY <2>1 DEF Finished, TypeOK
  <2>3. ~overlap => /\ \A u \in Savers \ {v} : ~AtWork(u)
                    /\ content[tmp] = snap[v]
    BY <2>1, GapConstants DEF Files, AtWork
  <2>4. snap[v] # Torn
    BY SetsOf, RisingSet DEF Lists
  <2>5. \A u \in Savers : AtWork(u)' => AtWork(u)
    BY <2>1, <2>2 DEF AtWork
  <2> QED BY <2>1, <2>2, <2>3, <2>4, <2>5, GapConstants DEF Files, AtWork
<1>7. ASSUME NEW v \in Savers, SaveFails(v) PROVE Files'
  <2>1. /\ handle' = [handle EXCEPT ![v] = None]
        /\ UNCHANGED <<snap, fileVars, overlap>> /\ Finished(v)
    BY <1>7 DEF SaveFails
  <2>2. /\ pc'[v] \in {"idle", "done"} /\ handle'[v] = None
        /\ \A u \in Savers \ {v} : pc'[u] = pc[u] /\ handle'[u] = handle[u]
    BY <2>1 DEF Finished, TypeOK
  <2>5. \A u \in Savers : AtWork(u)' => AtWork(u)
    BY <2>1, <2>2 DEF AtWork
  <2> QED BY <2>1, <2>2, <2>5, GapConstants DEF Files, fileVars
<1>8. CASE NothingDirty
  <2>1. /\ pc[Shutdown] = "idle" /\ Finished(Shutdown)
        /\ UNCHANGED <<snap, handle, fileVars>>
        /\ ~overlap' => ~overlap
    BY <1>8 DEF NothingDirty, MayStart
  <2>2. /\ pc'[Shutdown] = "done" /\ \A u \in Savers \ {Shutdown} : pc'[u] = pc[u]
    BY <2>1, GapConstants DEF Finished, TypeOK
  <2>3. \A u \in Savers : AtWork(u)' => AtWork(u)
    BY <2>1, <2>2 DEF AtWork
  <2>4. \A u \in Savers : /\ pc'[u] \in {"write", "rename"} => pc[u] = pc'[u]
                          /\ pc[u] = "write" => pc'[u] = "write"
    BY <2>1, <2>2
  <2>5. Periodic \in Savers /\ Shutdown \in Savers
    BY GapConstants
  <2>6. content' = content /\ disk' = disk /\ tmp' = tmp /\ handle' = handle /\ snap' = snap
    BY <2>1 DEF fileVars
  <2>7. \A v \in Savers : pc'[v] # "write" => handle'[v] = None
    BY <2>4, <2>6 DEF Files
  <2>8. ASSUME ~overlap'
        PROVE  /\ ~(AtWork(Periodic)' /\ AtWork(Shutdown)')
               /\ disk # None => disk # tmp /\ content[disk] # Torn
               /\ \A v \in Savers :
                     /\ pc[v] = "write" => tmp # None /\ handle[v] = tmp /\ content[tmp] = Torn
                     /\ pc[v] = "rename" => tmp # None /\ content[tmp] = snap[v]
    BY <2>1, <2>3, <2>5, <2>8 DEF Files
  <2> QED BY <2>4, <2>6, <2>7, <2>8 DEF Files
<1>9. CASE Gone
  BY <1>9, GapConstants DEF Gone, Files, AtWork, fileVars
<1> QED BY NextSteps, <1>1, <1>2, <1>3, <1>4, <1>5, <1>6, <1>7, <1>8, <1>9 DEF Steps

\* Where no two savers met, one that creates and writes leaves the file alone.
LEMMA TouchesTmp ==
  ASSUME TypeOK, Lists, Files, NEW v \in Savers,
         Take(v) \/ Create(v) \/ WriteTmp(v) \/ SaveFails(v), ~overlap', disk # None
  PROVE  content'[disk] = content[disk]
<1>1. CASE Take(v) \/ SaveFails(v)
  BY <1>1 DEF Take, SaveFails, fileVars
<1>2. CASE Create(v)
  <2>1. PICK i \in Inodes :
          /\ IF tmp = None THEN i = (CHOOSE j \in Inodes : Unused(j)) ELSE i = tmp
          /\ content' = [content EXCEPT ![i] = Torn]
    BY <1>2 DEF Create
  <2>2. ~overlap
    BY <1>2 DEF Create, histVars
  <2>3. i # disk
    <3>1. CASE tmp = None
      <4>1. Unused(i)
        BY <3>1, <2>1, UnusedExists
      <4> QED BY <4>1 DEF Unused
    <3>2. CASE tmp # None
      BY <3>2, <2>1, <2>2 DEF Files
    <3> QED BY <3>1, <3>2
  <2> QED BY <2>1, <2>3 DEF TypeOK
<1>3. CASE WriteTmp(v)
  <2>1. ~overlap /\ pc[v] = "write"
    BY <1>3 DEF WriteTmp, histVars
  <2>2. handle[v] = tmp /\ tmp # disk
    BY <2>1 DEF Files
  <2> QED BY <2>2, <1>3 DEF WriteTmp, TypeOK
<1> QED BY <1>1, <1>2, <1>3

\* Every step keeps the saved events covered by the file (rename is the only
\* step that replaces it).
LEMMA SavedStep == GapInv /\ [Next]_vars => SavedCovered'
<1> SUFFICES ASSUME GapInv, [Next]_vars PROVE SavedCovered'
  OBVIOUS
<1>0. TypeOK /\ Lists /\ Loading /\ Files /\ SavedCovered
  BY DEF GapInv
<1>01. /\ IsFiniteSet(ToSet(events)) /\ ToSet(events) \subseteq Nat
       /\ \A v \in Savers : IsFiniteSet(ToSet(snap[v])) /\ ToSet(snap[v]) \subseteq Nat
       /\ IsFiniteSet(OnDisk) /\ OnDisk \subseteq Nat /\ saved \subseteq Nat
  BY <1>0, SetsOf
<1>1. CASE StartAdd \/ LoadFails \/ Mark \/ Stop \/ NothingDirty \/ UNCHANGED vars
  <2>1. /\ UNCHANGED <<events, loaded, snap, fileVars, saved>>
        /\ ~overlap' => ~overlap
        /\ ~unread' => ~unread
    <3>1. CASE LoadFails
      BY <3>1 DEF LoadFails, memVars, saveVars
    <3>2. CASE StartAdd \/ Stop \/ UNCHANGED vars
      BY <3>2 DEF StartAdd, Stop, memVars, saveVars, histVars, vars
    <3>3. CASE Mark
      BY <3>3 DEF Mark, saveVars
    <3>4. CASE NothingDirty
      BY <3>4 DEF NothingDirty, memVars
    <3> QED BY <1>1, <3>1, <3>2, <3>3, <3>4
  <2>2. \A v \in Savers : Cloned(v)' => Cloned(v)
    <3>1. CASE NothingDirty
      BY <3>1, <1>0 DEF NothingDirty, Finished, Cloned, TypeOK
    <3>2. CASE ~NothingDirty
      BY <3>2, <1>1 DEF StartAdd, LoadFails, Mark, Stop, saveVars, vars, Cloned
    <3> QED BY <3>1, <3>2
  <2>3. OnDisk' = OnDisk
    BY <2>1 DEF OnDisk, DiskEvents, fileVars
  <2> QED BY <2>1, <2>2, <2>3, <1>0 DEF SavedCovered
<1>2. CASE Load
  <2>1. /\ ~loaded /\ events' = DiskEvents /\ DiskEvents # Torn /\ OnDisk = ToSet(DiskEvents)
        /\ UNCHANGED <<saveVars, fileVars, saved, overlap, unread>>
    BY <1>2, <1>0, SetsOf DEF Load, Loading, histVars
  <2>2. \A v \in Savers : ~Cloned(v)'
    BY <2>1, <1>0 DEF Loading, AtWork, Cloned, saveVars
  <2>3. OnDisk' = OnDisk /\ ToSet(events') = OnDisk
    BY <2>1 DEF OnDisk, DiskEvents, fileVars
  <2> QED BY <2>1, <2>2, <2>3, <1>0 DEF SavedCovered
<1>3. CASE Push
  <2>1. /\ Covers(ToSet(events'), ToSet(events)) /\ adding = "push"
        /\ UNCHANGED <<saveVars, fileVars, saved, overlap, unread>>
    BY <1>3, <1>0, PushGives DEF histVars
  <2>2. IsFiniteSet(ToSet(events)') /\ ToSet(events)' \subseteq Nat
    <3>1. Rising(events', Known') /\ Known' \in Nat
      BY <1>0, <1>3, PushGives
    <3>2. IsFiniteSet(ToSet(events')) /\ ToSet(events') \subseteq 1..Known'
      BY <3>1, RisingSet
    <3> QED BY <3>1, <3>2
  <2>3. \A H \in SUBSET Nat : Covers(ToSet(events), H) => Covers(ToSet(events)', H)
    BY <2>1, <2>2, <1>01, CoversFacts
  <2>4. \A v \in Savers : /\ ToSet(snap[v])' = ToSet(snap[v]) /\ Cloned(v)' = Cloned(v)
                          /\ ToSet(snap[v]) \in SUBSET Nat
    BY <2>1, <1>01 DEF saveVars, Cloned
  <2>5. OnDisk' = OnDisk
    BY <2>1 DEF OnDisk, DiskEvents, fileVars
  <2>6. ~overlap /\ ~unread => Covers(ToSet(events), saved)
    BY <2>1, <1>0 DEF Loading, SavedCovered
  <2> QED BY <2>1, <2>3, <2>4, <2>5, <2>6, <1>0, <1>01 DEF SavedCovered
<1>4. ASSUME NEW v \in Savers, Take(v) \/ Create(v) \/ WriteTmp(v) \/ SaveFails(v)
      PROVE  SavedCovered'
  <2>1. /\ UNCHANGED <<events, loaded, snap, disk, saved, unread>>
        /\ ~overlap' => ~overlap
    <3>1. CASE Take(v)
      BY <3>1 DEF Take, fileVars
    <3>2. CASE Create(v) \/ WriteTmp(v)
      BY <3>2 DEF Create, WriteTmp, memVars, histVars
    <3>3. CASE SaveFails(v)
      BY <3>3 DEF SaveFails, memVars, fileVars
    <3> QED BY <1>4, <3>1, <3>2, <3>3
  <2>2. \A u \in Savers : Cloned(u)' => Cloned(u)
    <3>1. CASE SaveFails(v)
      BY <3>1, <1>0 DEF SaveFails, Finished, Cloned, TypeOK
    <3>2. CASE Take(v) \/ Create(v) \/ WriteTmp(v)
      BY <3>2, <1>0 DEF Take, Create, WriteTmp, Cloned, TypeOK
    <3> QED BY <1>4, <3>1, <3>2
  <2>3. ~overlap' => OnDisk' = OnDisk
    <3>1. ~overlap' /\ disk # None => content'[disk] = content[disk]
      BY <1>4, <1>0, TouchesTmp, <2>1
    <3> QED BY <3>1, <2>1 DEF OnDisk, DiskEvents
  <2> QED BY <2>1, <2>2, <2>3, <1>0 DEF SavedCovered
<1>5. ASSUME NEW v \in Savers, Clone(v) PROVE SavedCovered'
  <2>1. /\ UNCHANGED <<events, loaded, fileVars, saved, unread, overlap>>
        /\ pc[v] = "clone" /\ snap' = [snap EXCEPT ![v] = events]
        /\ pc' = [pc EXCEPT ![v] = "create"]
    BY <1>5 DEF Clone, memVars, histVars
  <2>2. /\ snap'[v] = events /\ \A u \in Savers \ {v} : snap'[u] = snap[u] /\ Cloned(u)' = Cloned(u)
    BY <2>1, <1>0 DEF TypeOK, Cloned
  <2>3. loaded
    BY <2>1, <1>0 DEF Loading, AtWork
  <2>4. Covers(ToSet(events), ToSet(events))
    BY DEF Covers
  <2>5. OnDisk' = OnDisk
    BY <2>1 DEF OnDisk, DiskEvents, fileVars
  <2> QED BY <2>1, <2>2, <2>3, <2>4, <2>5, <1>0 DEF SavedCovered
<1>6. ASSUME NEW v \in Savers, Rename(v) PROVE SavedCovered'
  <2>1. /\ UNCHANGED <<events, loaded, snap, content, unread, overlap>>
        /\ pc[v] = "rename" /\ tmp # None /\ disk' = tmp /\ Finished(v)
        /\ saved' = saved \cup (ToSet(content[tmp]) \ {0})
    BY <1>6 DEF Rename, memVars
  <2>2. \A u \in Savers : Cloned(u)' => Cloned(u)
    BY <2>1, <1>0 DEF Finished, Cloned, TypeOK
  <2>3. OnDisk' = ToSet(content[tmp]) \ {0}
    BY <2>1 DEF OnDisk, DiskEvents
  <2>4. ~overlap => /\ content[tmp] = snap[v] /\ \A u \in Savers \ {v} : ~Cloned(u)
    BY <2>1, <1>0, GapConstants DEF Files, AtWork, Cloned
  <2>5. ToSet(snap[v]) \ {0} = ToSet(snap[v])
    BY <1>0, SetsOf, RisingSet DEF Lists
  <2>6. Cloned(v)
    BY <2>1 DEF Cloned
  <2>7. ASSUME ~overlap, ~unread
        PROVE  Covers(OnDisk', saved') /\ Covers(ToSet(events), saved')
    <3>1. OnDisk' = ToSet(snap[v]) /\ saved' = saved \cup ToSet(snap[v])
      BY <2>1, <2>3, <2>4, <2>5, <2>7
    <3>2. Covers(ToSet(snap[v]), saved) /\ Covers(ToSet(events), ToSet(snap[v]))
          /\ Covers(ToSet(events), saved)
      <4>1. loaded
        BY <2>1, <1>0 DEF Loading, AtWork
      <4> QED BY <4>1, <2>6, <2>7, <1>0 DEF SavedCovered
    <3> QED BY <3>1, <3>2 DEF Covers
  <2>8. \A u \in Savers : ~overlap => ~Cloned(u)'
    BY <2>1, <2>2, <2>4, <1>0 DEF Finished, Cloned, TypeOK
  <2>9. \A u \in Savers : Cloned(u)' => Covers(ToSet(events), ToSet(snap[u]))
    BY <2>2, <1>0 DEF SavedCovered
  <2>10. OnDisk' \subseteq saved'
    BY <2>1, <2>3
  <2> QED BY <2>1, <2>7, <2>8, <2>9, <2>10 DEF SavedCovered
<1>7. CASE Gone
  <2>1. /\ ~loaded' /\ \A v \in Savers : ~Cloned(v)'
        /\ UNCHANGED <<fileVars, saved, unread, overlap>>
    BY <1>7 DEF Gone, Cloned
  <2>2. OnDisk' = OnDisk
    BY <2>1 DEF OnDisk, DiskEvents, fileVars
  <2> QED BY <2>1, <2>2, <1>0 DEF SavedCovered
<1> QED BY <1>0, NextSteps, <1>1, <1>2, <1>3, <1>4, <1>5, <1>6, <1>7 DEF Steps

\* Every step keeps what the shutdown save owes covered.
LEMMA OwedStep == GapInv /\ [Next]_vars => OwedCovered'
<1> SUFFICES ASSUME GapInv, [Next]_vars PROVE OwedCovered'
  OBVIOUS
<1>0. TypeOK /\ Lists /\ Loading /\ Files /\ OwedCovered
  BY DEF GapInv
<1>01. /\ IsFiniteSet(ToSet(events)) /\ ToSet(events) \subseteq Nat
       /\ \A v \in Savers : IsFiniteSet(ToSet(snap[v])) /\ ToSet(snap[v]) \subseteq Nat
       /\ IsFiniteSet(OnDisk) /\ OnDisk \subseteq Nat /\ owed \subseteq Nat
       /\ Marked \subseteq ToSet(events)
  BY <1>0, SetsOf, MarkedIn
<1>1. CASE StartAdd \/ LoadFails \/ Mark \/ Stop \/ UNCHANGED vars
  <2>1. /\ UNCHANGED <<events, saveVars, fileVars, owed, overlap>>
        /\ dirty' \/ dirty' = dirty
    <3>1. CASE LoadFails
      BY <3>1 DEF LoadFails, memVars
    <3>2. CASE StartAdd \/ Stop \/ UNCHANGED vars
      BY <3>2 DEF StartAdd, Stop, memVars, histVars, vars
    <3>3. CASE Mark
      BY <3>3 DEF Mark
    <3> QED BY <1>1, <3>1, <3>2, <3>3
  <2>2. faults' = 0 => faults = 0
    <3>1. CASE LoadFails
      <4>1. CASE DiskEvents = Torn
        BY <3>1, <4>1 DEF LoadFails
      <4>2. CASE DiskEvents # Torn
        BY <3>1, <4>2, <1>0 DEF LoadFails, TypeOK
      <4> QED BY <4>1, <4>2
    <3>2. CASE StartAdd \/ Stop \/ UNCHANGED vars \/ Mark
      BY <3>2 DEF StartAdd, Stop, Mark, vars
    <3> QED BY <1>1, <3>1, <3>2
  <2>3. ~dirty' => Marked' = Marked
    <3>1. CASE Mark
      BY <3>1 DEF Mark
    <3>2. CASE StartAdd \/ LoadFails
      BY <3>2, <2>1 DEF StartAdd, LoadFails, Marked
    <3>3. CASE Stop \/ UNCHANGED vars
      BY <3>3, <2>1 DEF Stop, addVars, vars, Marked
    <3> QED BY <1>1, <3>1, <3>2, <3>3
  <2>4. OnDisk' = OnDisk
    BY <2>1 DEF OnDisk, DiskEvents, fileVars
  <2> QED BY <2>1, <2>2, <2>3, <2>4, <1>0 DEF OwedCovered, saveVars, Cloned, AtWork
<1>2. CASE Load
  <2>1. /\ ~loaded /\ events = <<>> /\ events' = DiskEvents /\ DiskEvents # Torn
        /\ OnDisk = ToSet(DiskEvents) /\ adding' = "push"
        /\ UNCHANGED <<saveVars, fileVars, owed, overlap, faults>>
    BY <1>2, <1>0, SetsOf DEF Load, Loading, histVars
  <2>2. \A v \in Savers : ~Cloned(v)'
    BY <2>1, <1>0 DEF Loading, AtWork, Cloned, saveVars
  <2>3. OnDisk' = OnDisk /\ ToSet(events') = OnDisk /\ Marked' = OnDisk
    BY <2>1 DEF OnDisk, DiskEvents, fileVars, Marked
  <2>4. pc[Shutdown] # "idle" => owed = {}
    <3>1. ToSet(events) = {}
      BY <2>1, <1>0, SetsOf
    <3> QED BY <3>1, <1>0, <1>01, FS_EmptySet, CoversFacts DEF OwedCovered
  <2>5. Covers(OnDisk, {}) /\ Covers(OnDisk, OnDisk)
    BY DEF Covers
  <2> QED BY <2>1, <2>2, <2>3, <2>4, <2>5 DEF OwedCovered, saveVars
<1>3. CASE Push
  <2>1. /\ Covers(ToSet(events'), ToSet(events)) /\ adding = "push"
        /\ Marked' \subseteq ToSet(events)
        /\ UNCHANGED <<dirty, saveVars, fileVars, owed, overlap, faults>>
    BY <1>3, <1>0, PushGives DEF histVars
  <2>2. IsFiniteSet(ToSet(events)') /\ ToSet(events)' \subseteq Nat
    <3>1. Rising(events', Known') /\ Known' \in Nat
      BY <1>0, <1>3, PushGives
    <3>2. IsFiniteSet(ToSet(events')) /\ ToSet(events') \subseteq 1..Known'
      BY <3>1, RisingSet
    <3> QED BY <3>1, <3>2
  <2>3. Covers(ToSet(events), owed) => Covers(ToSet(events)', owed)
    BY <2>1, <2>2, <1>01, CoversFacts
  <2>4. Marked = ToSet(events)
    BY <2>1 DEF Marked
  <2>5. \A F : Covers(F, Marked) => Covers(F, Marked')
    BY <2>1, <2>4 DEF Covers
  <2>6. OnDisk' = OnDisk
    BY <2>1 DEF OnDisk, DiskEvents, fileVars
  <2>7. \A v \in Savers : /\ ToSet(snap[v])' = ToSet(snap[v]) /\ Cloned(v)' = Cloned(v)
                          /\ AtWork(v)' = AtWork(v)
    BY <2>1 DEF saveVars, Cloned, AtWork
  <2>8. pc' = pc
    BY <2>1 DEF saveVars
  <2> QED BY <2>1, <2>3, <2>5, <2>6, <2>7, <2>8, <1>0 DEF OwedCovered
<1>4. ASSUME NEW v \in Savers, Take(v) PROVE OwedCovered'
  <2>1. /\ pc[v] = "idle" /\ pc' = [pc EXCEPT ![v] = "clone"]
        /\ owed' = IF v = Shutdown THEN ToSet(events) ELSE owed
        /\ UNCHANGED <<adding, events, snap, fileVars, faults>>
        /\ ~overlap' => ~overlap /\ \A u \in Savers \ {v} : ~AtWork(u)
    BY <1>4 DEF Take, MayStart, AtWork, addVars
  <2>2. /\ pc'[v] = "clone" /\ AtWork(v)' /\ ~Cloned(v)'
        /\ \A u \in Savers \ {v} : pc'[u] = pc[u] /\ (~overlap' => ~Cloned(u)')
    BY <2>1, <1>0 DEF TypeOK, AtWork, Cloned
  <2>3. Covers(ToSet(events), ToSet(events))
    BY DEF Covers
  <2>4. OnDisk' = OnDisk /\ Marked' = Marked
    BY <2>1 DEF OnDisk, DiskEvents, fileVars, Marked
  <2>5. pc'[Shutdown] # "idle" => Covers(ToSet(events), owed')
    BY <2>1, <2>2, <2>3, <1>0, GapConstants DEF OwedCovered
  <2>6. ~overlap' /\ faults = 0 /\ pc'[Shutdown] = "done" => Covers(OnDisk, owed')
    BY <2>1, <2>2, <1>0, GapConstants DEF OwedCovered
  <2> QED BY <2>1, <2>2, <2>4, <2>5, <2>6 DEF OwedCovered
<1>5. ASSUME NEW v \in Savers, Clone(v) PROVE OwedCovered'
  <2>1. /\ UNCHANGED <<adding, events, dirty, fileVars, owed, overlap, faults>>
        /\ pc[v] = "clone" /\ snap' = [snap EXCEPT ![v] = events]
        /\ pc' = [pc EXCEPT ![v] = "create"]
    BY <1>5 DEF Clone, addVars, memVars, histVars
  <2>2. /\ snap'[v] = events /\ pc'[v] = "create"
        /\ \A u \in Savers \ {v} : pc'[u] = pc[u] /\ snap'[u] = snap[u]
    BY <2>1, <1>0 DEF TypeOK
  <2>3. Covers(ToSet(events), Marked)
    BY <1>01 DEF Covers
  <2>4. OnDisk' = OnDisk /\ Marked' = Marked
    BY <2>1 DEF OnDisk, DiskEvents, fileVars, Marked
  <2>5. pc'[Shutdown] # "idle" => pc[Shutdown] # "idle"
    BY <2>1, <2>2, GapConstants
  <2>6. pc'[Shutdown] = "done" => pc[Shutdown] = "done"
    BY <2>1, <2>2, GapConstants
  <2>7. AtWork(v)'
    BY <2>2 DEF AtWork
  <2>8. \A u \in Savers \ {v} : Cloned(u)' => Cloned(u)
    BY <2>2 DEF Cloned
  <2> QED BY <2>1, <2>2, <2>3, <2>4, <2>5, <2>6, <2>7, <2>8, <1>0 DEF OwedCovered
<1>6. ASSUME NEW v \in Savers, Create(v) \/ WriteTmp(v) PROVE OwedCovered'
  <2>1. /\ UNCHANGED <<adding, events, dirty, snap, disk, owed, overlap, faults>>
        /\ Cloned(v) /\ \E x \in {"write", "rename"} : pc' = [pc EXCEPT ![v] = x]
    BY <1>6 DEF Create, WriteTmp, addVars, memVars, histVars, Cloned
  <2>2. \A u \in Savers : /\ Cloned(u)' = Cloned(u) /\ AtWork(u)' = AtWork(u)
                          /\ pc'[u] = "idle" <=> pc[u] = "idle"
                          /\ pc'[u] = "done" <=> pc[u] = "done"
    BY <2>1, <1>0 DEF Cloned, AtWork, TypeOK
  <2>3. ~overlap' => OnDisk' = OnDisk
    <3>1. ~overlap' /\ disk # None => content'[disk] = content[disk]
      BY <1>6, <1>0, TouchesTmp
    <3> QED BY <3>1, <2>1 DEF OnDisk, DiskEvents
  <2>4. Marked' = Marked
    BY <2>1 DEF Marked
  <2> QED BY <2>1, <2>2, <2>3, <2>4, <1>0, GapConstants DEF OwedCovered
<1>7. ASSUME NEW v \in Savers, Rename(v) PROVE OwedCovered'
  <2>1. /\ UNCHANGED <<adding, events, dirty, snap, content, owed, overlap, faults>>
        /\ pc[v] = "rename" /\ tmp # None /\ disk' = tmp /\ Finished(v)
    BY <1>7 DEF Rename, addVars, memVars
  <2>2. /\ pc'[v] = IF v = Shutdown THEN "done" ELSE "idle"
        /\ \A u \in Savers \ {v} : pc'[u] = pc[u]
    BY <2>1, <1>0 DEF Finished, TypeOK
  <2>3. Cloned(v) /\ Marked' = Marked
    BY <2>1 DEF Cloned, Marked
  <2>4. ~overlap => /\ OnDisk' = ToSet(snap[v])
                    /\ \A u \in Savers \ {v} : ~AtWork(u)
    <3>1. ToSet(snap[v]) \ {0} = ToSet(snap[v])
      BY <1>0, SetsOf, RisingSet DEF Lists
    <3>2. ~overlap => content[tmp] = snap[v]
      BY <2>1, <1>0 DEF Files
    <3>3. ~overlap => \A u \in Savers \ {v} : ~AtWork(u)
      BY <2>1, <1>0, GapConstants DEF Files, AtWork
    <3> QED BY <3>1, <3>2, <3>3, <2>1 DEF OnDisk, DiskEvents
  <2>5. pc'[Shutdown] # "idle" => pc[Shutdown] # "idle"
    BY <2>1, <2>2, GapConstants
  <2>6. ~overlap => \A u \in Savers : ~Cloned(u)'
    BY <2>2, <2>4 DEF Cloned, AtWork
  <2>7. ~overlap /\ faults = 0 /\ pc'[Shutdown] # "idle" => Covers(OnDisk', owed)
    BY <2>3, <2>4, <2>5, <1>0 DEF OwedCovered
  <2>8. ~overlap /\ faults = 0 /\ ~dirty => Covers(OnDisk', Marked)
    BY <2>3, <2>4, <1>0 DEF OwedCovered
  <2>9. pc'[Shutdown] # "idle" => Covers(ToSet(events), owed)
    BY <2>5, <1>0 DEF OwedCovered
  <2> QED BY <2>1, <2>3, <2>6, <2>7, <2>8, <2>9 DEF OwedCovered
<1>8. ASSUME NEW v \in Savers, SaveFails(v) PROVE OwedCovered'
  <2>1. /\ UNCHANGED <<events, snap, owed, overlap>> /\ Finished(v)
        /\ pc[v] \in {"create", "write", "rename"}
    BY <1>8 DEF SaveFails, memVars
  <2>2. faults' = 0 => overlap'
    <3>1. CASE faults < MaxFaults /\ faults' = faults + 1
      BY <3>1, <1>0 DEF TypeOK
    <3>2. CASE pc[v] = "rename" /\ tmp = None
      BY <3>2, <2>1, <1>0 DEF Files
    <3> QED BY <1>8, <3>1, <3>2 DEF SaveFails
  <2>3. pc'[Shutdown] # "idle" => pc[Shutdown] # "idle"
    BY <2>1, <1>0, GapConstants DEF Finished, TypeOK
  <2> QED BY <2>1, <2>2, <2>3, <1>0 DEF OwedCovered
<1>9. CASE NothingDirty
  <2>1. /\ pc[Shutdown] = "idle" /\ ~dirty /\ Finished(Shutdown)
        /\ owed' = Marked
        /\ UNCHANGED <<adding, events, dirty, snap, fileVars, faults>>
        /\ ~overlap' => ~overlap /\ pc[Periodic] = "idle"
    BY <1>9 DEF NothingDirty, MayStart, Marked, addVars, memVars
  <2>2. pc'[Shutdown] = "done" /\ pc'[Periodic] = pc[Periodic]
    BY <2>1, <1>0, GapConstants DEF Finished, TypeOK
  <2>3. OnDisk' = OnDisk /\ Marked' = Marked
    BY <2>1 DEF OnDisk, DiskEvents, fileVars, Marked
  <2>4. ~overlap' => \A u \in Savers : ~AtWork(u) /\ ~Cloned(u)'
    BY <2>1, <2>2, GapConstants DEF AtWork, Cloned
  <2>5. Covers(ToSet(events), Marked)
    BY <1>01 DEF Covers
  <2>6. ~overlap' /\ faults = 0 => Covers(OnDisk, Marked)
    BY <2>1, <2>4, <1>0 DEF OwedCovered
  <2> QED BY <2>1, <2>2, <2>3, <2>4, <2>5, <2>6 DEF OwedCovered
<1>10. CASE Gone
  <2>1. /\ events' = <<>> /\ adding' = "idle"
        /\ \A v \in Savers : pc'[v] = "idle" /\ ~Cloned(v)'
    BY <1>10 DEF Gone, Cloned
  <2>2. Marked' = {}
    BY <2>1, <1>0, SetsOf DEF Marked
  <2> QED BY <2>1, <2>2, GapConstants DEF OwedCovered, Covers
<1> QED BY <1>0, NextSteps, <1>1, <1>2, <1>3, <1>4, <1>5, <1>6, <1>7, <1>8, <1>9, <1>10 DEF Steps

\* Nothing is recorded at first.
LEMMA GapStart == Init => GapInv
<1> SUFFICES ASSUME Init PROVE GapInv
  OBVIOUS
<1>1. /\ \A n \in Nat : Rising(<<>>, n)
      /\ Torn \in File /\ <<>> \in File /\ ToSet(<<>>) = {} /\ Len(<<>>) <= Cap
  BY TornFile, GapConstants DEF Rising, ToSet
<1>2. TypeOK
  <2>1. 0 \in 0..MaxEvents /\ 0 \in 0..MaxFaults /\ 0 \in 0..MaxCrashes
    BY GapConstants
  <2>2. /\ events \in File /\ Len(events) <= Cap /\ snap \in [Savers -> File]
        /\ content \in [Inodes -> File]
    BY <1>1 DEF Init
  <2>3. /\ handle \in [Savers -> {None} \cup Inodes]
        /\ tmp \in {None} \cup Inodes /\ disk \in {None} \cup Inodes
        /\ pc \in [Savers -> {"idle", "clone", "create", "write", "rename", "done"}]
    BY DEF Init
  <2>4. {stopping, skipped, unread, overlap} \subseteq BOOLEAN /\ loaded \in BOOLEAN /\ dirty \in BOOLEAN
    BY DEF Init
  <2> QED BY <2>1, <2>2, <2>3, <2>4 DEF Init, TypeOK
<1>3. Lists
  <2>1. Known = 0
    BY DEF Init, Known
  <2> QED BY <2>1, <1>1 DEF Init, Lists
<1>4. Loading
  BY DEF Init, Loading, AtWork
<1>5. Files
  BY GapConstants DEF Init, Files, AtWork
<1>6. OnDisk = {} /\ Marked = {}
  BY <1>1 DEF Init, OnDisk, DiskEvents, Marked
<1>7. SavedCovered
  BY <1>6 DEF Init, SavedCovered, Cloned, Covers
<1>8. OwedCovered
  BY <1>6, GapConstants DEF Init, OwedCovered, Cloned, Covers
<1> QED BY <1>2, <1>3, <1>4, <1>5, <1>7, <1>8 DEF GapInv

\* The inductive invariant of the gap registry holds always: its lists rise,
\* the temporary file has one owner, and every list covers what it replaces.
THEOREM GapInvAlways == Spec => []GapInv
<1>1. Init => GapInv
  BY GapStart
<1>2. GapInv /\ [Next]_vars => GapInv'
  BY TypeStep, ListsStep, LoadingStep, FilesStep, SavedStep, OwedStep DEF GapInv
<1> QED BY <1>1, <1>2, PTL DEF Spec

\* What was ever saved stays on disk, whole, until Cap newer events displaced
\* it (save_to_disk, add_event): across crashes, restarts and failing saves.
THEOREM SavedStaysAlways == Spec => []SavedStays
<1>1. GapInv => SavedStays
  <2> SUFFICES ASSUME GapInv PROVE SavedStays
    OBVIOUS
  <2>0. TypeOK /\ Lists /\ Files /\ SavedCovered
    BY DEF GapInv
  <2>1. NeverTorn
    <3>1. <<>> # Torn
      BY <2>0, SetsOf, RisingSet
    <3> QED BY <3>1, <2>0 DEF NeverTorn, Files, DiskEvents
  <2>2. ASSUME ~unread, ~overlap, NEW e \in saved, e \notin OnDisk PROVE Displaced(e, saved)
    <3>1. Displaced(e, OnDisk) /\ OnDisk \subseteq saved
      BY <2>0, <2>2 DEF SavedCovered, Covers
    <3>2. IsFiniteSet(saved) /\ OnDisk \subseteq Nat
      <4>1. IsFiniteSet(1..MaxEvents)
        BY GapConstants, FS_Interval
      <4> QED BY <4>1, <2>0, SetsOf, FS_Subset DEF TypeOK
    <3> QED BY <3>1, <3>2, DisplacedMore
  <2> QED BY <2>1, <2>2 DEF SavedStays
<1> QED BY <1>1, GapInvAlways, PTL

\* When main returns, the events recorded before its save began are on disk or
\* displaced, unless two saves met or the disk failed (main.rs, shutdown).
THEOREM ShutdownSavesAlways == Spec => []ShutdownSaves
<1>1. GapInv => ShutdownSaves
  BY DEF GapInv, OwedCovered, ShutdownSaves, Covers
<1> QED BY <1>1, GapInvAlways, PTL

=============================================================================
