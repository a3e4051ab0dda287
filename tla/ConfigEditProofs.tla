-------------------------- MODULE ConfigEditProofs -------------------------
(***************************************************************************)
(* However many tabs edit, duplicate, delete and import clusters at once,  *)
(* and whichever requests fail: a write keeps the other clusters, the      *)
(* sections its user did not touch and the settings around them, names     *)
(* stay unique unless a form was saved under one in use, and an import     *)
(* stores what its review showed.                                          *)
(*                                                                         *)
(* The argument: every tab holds what its phase needs (OpOK).  A body to   *)
(* write is the edit of what was read (PutOK), and what an edit makes of   *)
(* clusters is said kind by kind (AfterIs); a choice under review never    *)
(* overlaps (IsChoice); a form knows the cluster it was filled in from     *)
(* (IsForm), and what a section saves is compared with that path by path   *)
(* (UntouchedSection).                                                     *)
(***************************************************************************)
EXTENDS ConfigEdit, FiniteSetTheorems, SequenceTheorems, TLAPS

----------------------------------------------------------------------------
(* Parts of sequences and first numbers *)

\* The members of a finite set of numbers are its first, second, ... and last.
LEMMA Numbering ==
  ASSUME NEW S \in SUBSET Nat, IsFiniteSet(S)
  PROVE  /\ Cardinality(S) \in Nat
         /\ \A k \in 1..Cardinality(S) : Nth(S, k) \in S
         /\ \A i \in S : \E k \in 1..Cardinality(S) : Nth(S, k) = i
         /\ \A k, l \in 1..Cardinality(S) : Nth(S, k) = Nth(S, l) => k = l
         /\ S # {} => \E i \in S : Cardinality({j \in S : j < i}) = 0
<1>. DEFINE n == Cardinality(S)
            Below(i) == {j \in S : j < i}
            rank == [i \in S |-> Cardinality(Below(i)) + 1]
<1>1. n \in Nat BY FS_CardinalityType
<1>2. ASSUME NEW i \in S
      PROVE  /\ IsFiniteSet(Below(i)) /\ Cardinality(Below(i)) \in Nat
             /\ Cardinality(Below(i)) <= n - 1
  <2>1. Below(i) \in SUBSET (S \ {i}) BY <1>2
  <2>2. IsFiniteSet(S \ {i}) /\ Cardinality(S \ {i}) = n - 1 BY FS_RemoveElement
  <2>. HIDE DEF Below, n
  <2>. QED BY <2>1, <2>2, FS_Subset, FS_CardinalityType
<1>3. rank \in [S -> 1..n]
  <2>1. ASSUME NEW i \in S PROVE Cardinality(Below(i)) + 1 \in 1..n
    <3>. HIDE DEF Below, n
    <3>. QED BY <1>1, <1>2
  <2>. HIDE DEF Below, n
  <2>. QED BY <2>1
<1>4. ASSUME NEW i \in S, NEW j \in S, i < j PROVE rank[i] # rank[j]
  <2>1. Below(i) \in SUBSET Below(j) /\ i \in Below(j) /\ i \notin Below(i)
    <3>1. \A x \in S : x \in Nat OBVIOUS
    <3>2. \A x \in S : x < i => x < j BY <1>4, <3>1
    <3>3. ~(i < i) BY <3>1
    <3>. QED BY <1>4, <3>2, <3>3
  <2>2. Cardinality(Below(i)) # Cardinality(Below(j))
    <3>. HIDE DEF Below
    <3>. QED BY <2>1, <1>2, FS_Subset
  <2>3. Cardinality(Below(i)) \in Nat /\ Cardinality(Below(j)) \in Nat
    <3>. HIDE DEF Below, n
    <3>. QED BY <1>2
  <2>. HIDE DEF Below
  <2>. QED BY <2>2, <2>3
<1>5. rank \in Injection(S, 1..n)
  <2>1. \A i, j \in S : rank[i] = rank[j] => i = j
    <3>1. SUFFICES ASSUME NEW i \in S, NEW j \in S, i # j PROVE rank[i] # rank[j]
      OBVIOUS
    <3>2. i \in Nat /\ j \in Nat OBVIOUS
    <3>3. i < j \/ j < i BY <3>1, <3>2
    <3>. HIDE DEF rank
    <3>. QED BY <3>3, <1>4
  <2>. HIDE DEF rank
  <2>. QED BY <1>3, <2>1 DEF Injection, IsInjective
<1>6. rank \in Surjection(S, 1..n)
  <2>1. IsFiniteSet(1..n) /\ Cardinality(1..n) = n
    <3>1. 1 \in Int /\ n \in Int BY <1>1
    <3>. HIDE DEF n
    <3>2. IsFiniteSet(1..n)
          /\ Cardinality(1..n) = IF 1 > n THEN 0 ELSE n - 1 + 1
      BY <3>1, FS_Interval
    <3>. QED BY <3>2, <1>1
  <2>. HIDE DEF rank
  <2>. QED BY <1>5, <2>1, FS_Injection
<1>7. ASSUME NEW i \in S, NEW k \in 1..n, rank[i] = k PROVE Nth(S, k) = i
  <2>1. \A j \in S : Cardinality(Below(j)) = k - 1 <=> j = i
    <3>1. SUFFICES ASSUME NEW j \in S
                   PROVE  Cardinality(Below(j)) = k - 1 <=> j = i
      OBVIOUS
    <3>2. rank[i] = Cardinality(Below(i)) + 1 /\ rank[j] = Cardinality(Below(j)) + 1
      OBVIOUS
    <3>3. Cardinality(Below(i)) \in Nat /\ Cardinality(Below(j)) \in Nat
      <4>. HIDE DEF Below, n
      <4>. QED BY <1>2
    <3>4. rank[i] = rank[j] => i = j
      <4>. HIDE DEF rank
      <4>. QED BY <1>5 DEF Injection, IsInjective
    <3>. HIDE DEF Below, rank
    <3>. QED BY <1>7, <3>2, <3>3, <3>4
  <2>. QED BY <2>1 DEF Nth
<1>8. ASSUME NEW k \in 1..n PROVE Nth(S, k) \in S /\ rank[Nth(S, k)] = k
  <2>1. PICK i \in S : rank[i] = k
    <3>. HIDE DEF rank
    <3>. QED BY <1>6 DEF Surjection
  <2>. HIDE DEF rank
  <2>. QED BY <2>1, <1>7
<1>9. ASSUME NEW i \in S PROVE \E k \in 1..n : Nth(S, k) = i
  <2>1. rank[i] \in 1..n
    <3>. HIDE DEF rank
    <3>. QED BY <1>3
  <2>. HIDE DEF rank
  <2>. QED BY <2>1, <1>7
<1>11. S # {} => \E i \in S : Cardinality({j \in S : j < i}) = 0
  <2>1. SUFFICES ASSUME S # {} PROVE \E i \in S : Cardinality({j \in S : j < i}) = 0
    OBVIOUS
  <2>2. n # 0
    <3>. QED BY <2>1, FS_EmptySet
  <2>3. 1 \in 1..n
    <3>. HIDE DEF n
    <3>. QED BY <2>2, <1>1
  <2>4. PICK i \in S : rank[i] = 1
    <3>. HIDE DEF rank
    <3>. QED BY <2>3, <1>6 DEF Surjection
  <2>5. Cardinality(Below(i)) + 1 = 1 BY <2>4
  <2>6. Cardinality(Below(i)) \in Nat
    <3>. HIDE DEF Below, n
    <3>. QED BY <1>2
  <2>7. Cardinality(Below(i)) = 0
    <3>. HIDE DEF Below
    <3>. QED BY <2>5, <2>6
  <2>. QED BY <2>7
<1>. HIDE DEF n
<1>10. n \in Nat /\ (\A k \in 1..n : Nth(S, k) \in S)
       /\ (\A i \in S : \E k \in 1..n : Nth(S, k) = i)
       /\ \A k, l \in 1..n : Nth(S, k) = Nth(S, l) => k = l
  <2>. HIDE DEF rank
  <2>. QED BY <1>1, <1>8, <1>9
<1>. QED BY <1>10, <1>11 DEF n

\* A part of a sequence holds what is at the positions chosen.
LEMMA PartOfSequence ==
  ASSUME NEW D, NEW s \in Seq(D), NEW at \in SUBSET DOMAIN s
  PROVE  /\ Part(s, at) \in Seq(D)
         /\ \A k \in DOMAIN Part(s, at) : \E i \in at : Part(s, at)[k] = s[i]
         /\ \A i \in at : \E k \in DOMAIN Part(s, at) : Part(s, at)[k] = s[i]
         /\ \A k, l \in DOMAIN Part(s, at) : k # l =>
               \E i, j \in at : i # j /\ Part(s, at)[k] = s[i] /\ Part(s, at)[l] = s[j]
<1>. DEFINE n == Cardinality(at)
<1>1. Len(s) \in Nat /\ DOMAIN s = 1..Len(s) OBVIOUS
<1>2. at \in SUBSET Nat /\ IsFiniteSet(at)
  <2>1. IsFiniteSet(1..Len(s)) BY <1>1, FS_Interval
  <2>2. at \in SUBSET (1..Len(s)) BY <1>1
  <2>3. at \in SUBSET Nat BY <2>2
  <2>. QED BY <2>1, <2>2, <2>3, FS_Subset
<1>3. /\ n \in Nat /\ \A k \in 1..n : Nth(at, k) \in at
      /\ \A i \in at : \E k \in 1..n : Nth(at, k) = i
      /\ \A k, l \in 1..n : Nth(at, k) = Nth(at, l) => k = l
  BY <1>2, Numbering
<1>4. Part(s, at) = [k \in 1..n |-> s[Nth(at, k)]] BY DEF Part
<1>. HIDE DEF n
<1>5. \A k \in 1..n : s[Nth(at, k)] \in D
  <2>1. \A i \in at : s[i] \in D OBVIOUS
  <2>. QED BY <2>1, <1>3
<1>6. Part(s, at) \in [1..n -> D] BY <1>4, <1>5
<1>7. Part(s, at) \in Seq(D) BY <1>6, <1>3
<1>8. DOMAIN Part(s, at) = 1..n BY <1>4
<1>9. \A k \in 1..n : Part(s, at)[k] = s[Nth(at, k)] BY <1>4
<1>10. \A k, l \in 1..n : k # l =>
          \E i, j \in at : i # j /\ Part(s, at)[k] = s[i] /\ Part(s, at)[l] = s[j]
  BY <1>3, <1>9
<1>11. /\ \A k \in 1..n : \E i \in at : Part(s, at)[k] = s[i]
       /\ \A i \in at : \E k \in 1..n : Part(s, at)[k] = s[i]
  BY <1>3, <1>9
<1>. DEFINE p == Part(s, at)
<1>. HIDE DEF p
<1>12. \A k \in DOMAIN p : \E i \in at : p[k] = s[i] BY <1>8, <1>11 DEF p
<1>13. \A i \in at : \E k \in DOMAIN p : p[k] = s[i] BY <1>8, <1>11 DEF p
<1>14. \A k, l \in DOMAIN p : k # l =>
          \E i, j \in at : i # j /\ p[k] = s[i] /\ p[l] = s[j]
  <2>1. SUFFICES ASSUME NEW k \in DOMAIN p, NEW l \in DOMAIN p, k # l
                 PROVE  \E i, j \in at : i # j /\ p[k] = s[i] /\ p[l] = s[j]
    OBVIOUS
  <2>2. k \in 1..n /\ l \in 1..n BY <1>8 DEF p
  <2>. QED BY <2>1, <2>2, <1>10 DEF p
<1>15. p \in Seq(D) BY <1>7 DEF p
<1>. QED BY <1>12, <1>13, <1>14, <1>15 DEF p

\* A set of numbers that is not empty has a first.
LEMMA FirstOf ==
  ASSUME NEW S \in SUBSET Nat, S # {}
  PROVE  \E n \in S : \A m \in S : n <= m
<1>1. PICK b \in S : TRUE OBVIOUS
<1>. DEFINE T == {n \in S : n <= b}
<1>2. b \in T /\ T \in SUBSET Nat /\ T # {}
  <2>1. b \in Nat BY <1>1
  <2>2. b <= b BY <2>1
  <2>. QED BY <1>1, <2>2
<1>3. IsFiniteSet(T)
  <2>1. \A n \in T : n <= b OBVIOUS
  <2>2. b \in Nat BY <1>1
  <2>. HIDE DEF T
  <2>. QED BY <1>2, <2>1, <2>2, FS_BoundedSetOfNaturals
<1>. DEFINE c == Cardinality(T)
<1>4. c \in Nat /\ c # 0
  <2>. HIDE DEF T
  <2>. QED BY <1>2, <1>3, FS_CardinalityType, FS_EmptySet
<1>5. PICK n \in T : Cardinality({j \in T : j < n}) = 0
  <2>. HIDE DEF T, c
  <2>. QED BY <1>2, <1>3, <1>4, Numbering
<1>6. \A m \in T : ~(m < n)
  <2>1. {j \in T : j < n} = {}
    <3>1. IsFiniteSet({j \in T : j < n}) 
      <4>1. {j \in T : j < n} \in SUBSET T OBVIOUS
      <4>. HIDE DEF T
      <4>. QED BY <4>1, <1>3, FS_Subset
    <3>. HIDE DEF T
    <3>. QED BY <3>1, <1>5, FS_EmptySet
  <2>. QED BY <2>1
<1>7. \A m \in S : n <= m
  <2>1. SUFFICES ASSUME NEW m \in S PROVE n <= m
    OBVIOUS
  <2>2. m \in Nat /\ n \in Nat /\ b \in Nat /\ n <= b BY <1>1
  <2>3. CASE m <= b BY <2>2, <2>3, <1>6
  <2>4. CASE b < m BY <2>2, <2>4
  <2>. QED BY <2>2, <2>3, <2>4
<1>. QED BY <1>7

----------------------------------------------------------------------------
(* Names and clusters *)

\* A sequence has its members as members.
LEMMA OverItsRange ==
  ASSUME NEW D, NEW s \in Seq(D)
  PROVE  /\ s \in Seq(Range(s)) /\ Len(s) \in Nat /\ DOMAIN s = 1..Len(s)
         /\ \A i \in DOMAIN s : s[i] \in D
<1>1. Len(s) \in Nat /\ DOMAIN s = 1..Len(s) /\ s \in [1..Len(s) -> D] OBVIOUS
<1>2. \A i \in DOMAIN s : s[i] \in Range(s) BY DEF Range
<1>3. s \in [1..Len(s) -> Range(s)] BY <1>1, <1>2
<1>. QED BY <1>1, <1>3

\* Clusters that are one by one make a sequence of clusters.
LEMMA TheyAreClusters ==
  ASSUME NEW D, NEW s \in Seq(D), \A i \in DOMAIN s : IsCluster(s[i])
  PROVE  AreClusters(s)
BY OverItsRange DEF AreClusters

\* What is known of clusters.
LEMMA ClusterFacts ==
  ASSUME NEW s, AreClusters(s)
  PROVE  /\ s \in Seq(Range(s)) /\ Len(s) \in Nat /\ DOMAIN s = 1..Len(s)
         /\ \A i \in DOMAIN s : IsCluster(s[i]) /\ s[i].name \in NamesOf(s)
         /\ \A c \in Range(s) : IsCluster(c)
         /\ \A n \in NamesOf(s) : IsName(n) /\ \E i \in DOMAIN s : s[i].name = n
         /\ IsFiniteSet(NamesOf(s))
<1>1. s \in Seq(Range(s)) /\ \A i \in DOMAIN s : IsCluster(s[i]) BY DEF AreClusters
<1>2. Len(s) \in Nat /\ DOMAIN s = 1..Len(s) BY <1>1, OverItsRange
<1>3. \A c \in Range(s) : IsCluster(c) BY <1>1 DEF Range
<1>4. \A n \in NamesOf(s) : IsName(n) /\ \E i \in DOMAIN s : s[i].name = n
  BY <1>1 DEF NamesOf, IsCluster
<1>5. IsFiniteSet(NamesOf(s))
  <2>. DEFINE f == [i \in DOMAIN s |-> s[i].name]
  <2>1. IsFiniteSet(DOMAIN s) BY <1>2, FS_Interval
  <2>2. f \in Surjection(DOMAIN s, NamesOf(s)) BY DEF NamesOf, Surjection
  <2>. HIDE DEF f
  <2>. QED BY <2>1, <2>2, FS_Surjection
<1>6. \A i \in DOMAIN s : s[i].name \in NamesOf(s) BY DEF NamesOf
<1>. QED BY <1>1, <1>2, <1>3, <1>4, <1>5, <1>6

\* A name with a suffix is another name.
LEMMA Suffixed ==
  ASSUME NEW n, IsSequence(n), NEW a \in Nat
  PROVE  /\ IsName(Append(n, a))
         /\ \A b \in Nat : Append(n, a) = Append(n, b) => a = b
<1>. DEFINE D == {n[k] : k \in 1..Len(n)} \cup Nat
<1>1. n \in Seq(D)
  <2>1. Len(n) \in Nat /\ n = [k \in 1..Len(n) |-> n[k]] BY DEF IsSequence
  <2>2. \A k \in 1..Len(n) : n[k] \in D OBVIOUS
  <2>. HIDE DEF D
  <2>3. n \in [1..Len(n) -> D] BY <2>1, <2>2
  <2>. QED BY <2>1, <2>3
<1>2. \A b \in Nat : b \in D OBVIOUS
<1>. HIDE DEF D
<1>3. \A b \in Nat : /\ Append(n, b) \in Seq(D) /\ Len(Append(n, b)) = Len(n) + 1
                     /\ Append(n, b)[Len(n) + 1] = b
  BY <1>1, <1>2, AppendProperties
<1>4. \A b \in Nat : Append(n, a) = Append(n, b) => a = b BY <1>3
<1>5. IsSequence(Append(n, a))
  <2>. DEFINE m == Append(n, a)
  <2>1. m \in Seq(D) BY <1>3
  <2>. HIDE DEF m
  <2>2. Len(m) \in Nat /\ m = [k \in 1..Len(m) |-> m[k]] BY <2>1
  <2>. QED BY <2>2 DEF IsSequence, m
<1>6. Append(n, a) # <<>>
  <2>1. Len(n) \in Nat /\ Len(Append(n, a)) = Len(n) + 1 BY <1>1, <1>3
  <2>. QED BY <2>1
<1>. QED BY <1>4, <1>5, <1>6 DEF IsName

\* The name of a copy is free: there are more suffixes than names.
LEMMA FreeName ==
  ASSUME NEW base, IsSequence(base), NEW taken, IsFiniteSet(taken)
  PROVE  /\ nextDuplicateName(base, taken) \notin taken
         /\ IsName(nextDuplicateName(base, taken))
<1>. DEFINE c == Cardinality(taken)
            free == {n \in 1..c + 2 : Append(base, n) \notin taken}
<1>1. c \in Nat BY FS_CardinalityType
<1>2. free # {}
  <2>1. SUFFICES ASSUME free = {} PROVE FALSE
    OBVIOUS
  <2>. DEFINE f == [n \in 1..c + 2 |-> Append(base, n)]
  <2>2. f \in [1..c + 2 -> taken] BY <2>1
  <2>3. IsFiniteSet(1..c + 2) /\ Cardinality(1..c + 2) = c + 2
    <3>. HIDE DEF c
    <3>1. 1 \in Int /\ c + 2 \in Int BY <1>1
    <3>. DEFINE b == c + 2
    <3>2. b \in Int BY <3>1
    <3>3. b >= 1 BY <1>1
    <3>. HIDE DEF b
    <3>4. IsFiniteSet(1..b) /\ Cardinality(1..b) = IF 1 > b THEN 0 ELSE b - 1 + 1
      BY <3>1, <3>2, FS_Interval
    <3>5. IsFiniteSet(1..b) /\ Cardinality(1..b) = b BY <3>2, <3>3, <3>4
    <3>. QED BY <3>5 DEF b
  <2>4. Cardinality(taken) < Cardinality(1..c + 2)
    <3>1. c < Cardinality(1..c + 2)
      <4>. HIDE DEF c
      <4>. QED BY <2>3, <1>1
    <3>. QED BY <3>1
  <2>5. \A x, y \in 1..c + 2 : f[x] = f[y] => x = y
    <3>1. SUFFICES ASSUME NEW x \in 1..c + 2, NEW y \in 1..c + 2, f[x] = f[y]
                   PROVE  x = y
      OBVIOUS
    <3>2. x \in Nat /\ y \in Nat BY <1>1
    <3>3. Append(base, x) = Append(base, y) BY <3>1
    <3>. QED BY <3>2, <3>3, Suffixed
  <2>. HIDE DEF f, c, free
  <2>6. \E x, y \in 1..c + 2 : x # y /\ f[x] = f[y]
    BY <2>2, <2>3, <2>4, FS_PigeonHole
  <2>. QED BY <2>5, <2>6
<1>3. PICK n \in free : \A m \in free : n <= m
  <2>1. free \in SUBSET Nat BY <1>1
  <2>. HIDE DEF free
  <2>. QED BY <2>1, <1>2, FirstOf
<1>. DEFINE Fits(k) == /\ Append(base, k) \notin taken
                       /\ \A m \in 1..k - 1 : Append(base, m) \in taken
            first == CHOOSE k \in 1..c + 2 : Fits(k)
<1>4. n \in 1..c + 2 /\ Fits(n)
  <2>1. n \in 1..c + 2 /\ Append(base, n) \notin taken OBVIOUS
  <2>2. \A m \in 1..n - 1 : m \in 1..c + 2 /\ ~(n <= m)
    <3>. HIDE DEF c, free
    <3>. QED BY <2>1, <1>1
  <2>3. \A m \in 1..n - 1 : Append(base, m) \in taken BY <2>2, <1>3
  <2>. QED BY <2>1, <2>3
<1>5. first \in 1..c + 2 /\ Fits(first)
  <2>. HIDE DEF Fits, c
  <2>. QED BY <1>4
<1>6. nextDuplicateName(base, taken) = Append(base, first) BY DEF nextDuplicateName
<1>7. first \in Nat
  <2>. HIDE DEF first
  <2>. QED BY <1>5, <1>1
<1>8. Append(base, first) \notin taken BY <1>5
<1>. HIDE DEF first
<1>. QED BY <1>6, <1>7, <1>8, Suffixed

----------------------------------------------------------------------------
(* What the client reads, and what an edit makes of it *)

\* The client keeps names and addresses, and the fields it knows.
LEMMA ReadCluster ==
  ASSUME NEW c, IsCluster(c)
  PROVE  /\ IsCluster(ClustersFromJSON(c)) /\ ClustersFromJSON(c).name = c.name
         /\ ClustersFromJSON(c).has = c.has \cap KafkaClusters
<1>1. c = [name |-> c.name, addr |-> c.addr, has |-> c.has] BY DEF IsCluster
<1>2. ClustersFromJSON(c) = [name |-> c.name, addr |-> c.addr,
                             has |-> c.has \cap KafkaClusters]
  BY <1>1 DEF ClustersFromJSON
<1>. QED BY <1>2 DEF IsCluster

\* Reading keeps the clusters, their order and names.
LEMMA ReadClusters ==
  ASSUME NEW stored, AreClusters(stored.clusters)
  PROVE  LET e == FromJSON(stored).clusters
             s == stored.clusters
         IN  /\ AreClusters(e) /\ DOMAIN e = DOMAIN s /\ NamesOf(e) = NamesOf(s)
             /\ \A i \in DOMAIN s : e[i] = ClustersFromJSON(s[i]) /\ e[i].name = s[i].name
             /\ Range(e) = {ClustersFromJSON(c) : c \in Range(s)}
             /\ Unique(s) => Unique(e)
<1>. DEFINE e == FromJSON(stored).clusters
            s == stored.clusters
<1>1. e = [i \in DOMAIN s |-> ClustersFromJSON(s[i])] BY DEF FromJSON
<1>2. Len(s) \in Nat /\ DOMAIN s = 1..Len(s) /\ \A i \in DOMAIN s : IsCluster(s[i])
  BY ClusterFacts
<1>. HIDE DEF e, s
<1>3. \A i \in DOMAIN s : /\ e[i] = ClustersFromJSON(s[i]) /\ e[i].name = s[i].name
                          /\ IsCluster(e[i])
  BY <1>1, <1>2, ReadCluster
<1>4. DOMAIN e = DOMAIN s BY <1>1
<1>5. e \in Seq({ClustersFromJSON(s[i]) : i \in DOMAIN s})
  <2>1. e \in [1..Len(s) -> {ClustersFromJSON(s[i]) : i \in DOMAIN s}] BY <1>1, <1>2
  <2>. QED BY <2>1, <1>2
<1>6. AreClusters(e) BY <1>3, <1>4, <1>5, TheyAreClusters
<1>7. NamesOf(e) = NamesOf(s) BY <1>3, <1>4 DEF NamesOf
<1>8. Unique(s) => Unique(e) BY <1>3, <1>4 DEF Unique
<1>9. Range(e) = {ClustersFromJSON(c) : c \in Range(s)} BY <1>3, <1>4 DEF Range
<1>. QED BY <1>3, <1>4, <1>6, <1>7, <1>8, <1>9 DEF e, s

\* A cluster is added at the end.
LEMMA ClusterAdded ==
  ASSUME NEW s, AreClusters(s), NEW c, IsCluster(c)
  PROVE  /\ AreClusters(Append(s, c)) /\ Range(Append(s, c)) = Range(s) \cup {c}
         /\ Unique(s) /\ c.name \notin NamesOf(s) => Unique(Append(s, c))
<1>. DEFINE D == Range(s) \cup {c}
            t == Append(s, c)
<1>1. Len(s) \in Nat /\ DOMAIN s = 1..Len(s) /\ \A i \in DOMAIN s : IsCluster(s[i])
  BY ClusterFacts
<1>2. s \in Seq(D) /\ c \in D
  <2>1. s \in Seq(Range(s)) BY ClusterFacts
  <2>2. \A i \in DOMAIN s : s[i] \in D BY DEF Range
  <2>. HIDE DEF D
  <2>3. s \in [1..Len(s) -> D] BY <2>1, <2>2, <1>1
  <2>. QED BY <2>3, <1>1 DEF D
<1>. HIDE DEF D
<1>3. /\ t \in Seq(D) /\ Len(t) = Len(s) + 1 /\ DOMAIN t = 1..Len(s) + 1
      /\ \A i \in 1..Len(s) : t[i] = s[i]
      /\ t[Len(s) + 1] = c
  BY <1>1, <1>2, AppendProperties
<1>. HIDE DEF t
<1>4. \A i \in DOMAIN t : \/ i \in DOMAIN s /\ t[i] = s[i]
                          \/ i = Len(s) + 1 /\ t[i] = c
  BY <1>1, <1>3
<1>5. Len(s) + 1 \in DOMAIN t /\ \A i \in DOMAIN s : i \in DOMAIN t /\ t[i] = s[i]
  BY <1>1, <1>3
<1>6. AreClusters(t)
  <2>1. \A i \in DOMAIN t : IsCluster(t[i]) BY <1>1, <1>4
  <2>. QED BY <2>1, <1>3, TheyAreClusters
<1>7. Range(t) = Range(s) \cup {c} BY <1>3, <1>4, <1>5 DEF Range
<1>8. Unique(s) /\ c.name \notin NamesOf(s) => Unique(t)
  BY <1>4 DEF Unique, NamesOf
<1>. QED BY <1>6, <1>7, <1>8 DEF t

\* A part of the clusters.
LEMMA PartOfClusters ==
  ASSUME NEW s, AreClusters(s), NEW places \in SUBSET DOMAIN s
  PROVE  /\ AreClusters(Part(s, places)) /\ Range(Part(s, places)) = {s[i] : i \in places}
         /\ Unique(s) => Unique(Part(s, places))
<1>. DEFINE p == Part(s, places)
<1>1. s \in Seq(Range(s)) /\ \A i \in DOMAIN s : IsCluster(s[i]) BY ClusterFacts
<1>2. /\ p \in Seq(Range(s))
      /\ \A k \in DOMAIN p : \E i \in places : p[k] = s[i]
      /\ \A i \in places : \E k \in DOMAIN p : p[k] = s[i]
      /\ \A k, l \in DOMAIN p : k # l => \E i, j \in places : i # j /\ p[k] = s[i] /\ p[l] = s[j]
  BY <1>1, PartOfSequence
<1>. HIDE DEF p
<1>3. AreClusters(p)
  <2>1. \A k \in DOMAIN p : IsCluster(p[k]) BY <1>1, <1>2
  <2>. QED BY <2>1, <1>2, TheyAreClusters
<1>4. Range(p) = {s[i] : i \in places} BY <1>2 DEF Range
<1>5. ASSUME Unique(s), NEW k \in DOMAIN p, NEW l \in DOMAIN p, p[k].name = p[l].name, k # l
      PROVE  FALSE
  <2>1. PICK i \in places, j \in places : i # j /\ p[k] = s[i] /\ p[l] = s[j] BY <1>5, <1>2
  <2>2. i \in DOMAIN s /\ j \in DOMAIN s OBVIOUS
  <2>. QED BY <2>1, <2>2, <1>5 DEF Unique
<1>6. Unique(s) => Unique(p) BY <1>5 DEF Unique
<1>. QED BY <1>3, <1>4, <1>6 DEF p

----------------------------------------------------------------------------
(* The sections of the form *)

\* What a form stores, it stores under the keys of its section.
KeysOf ==
    [schemaRegistry |-> {"schemaRegistry", "schemaRegistryAuth", "schemaRegistrySsl"},
     ksql |-> {"ksqldbServer", "ksqldbServerAuth", "ksqldbServerSsl"},
     metrics |-> {"metrics"}, serde |-> {"serde"}, kafkaConnect |-> {"kafkaConnect"},
     masking |-> {"masking"}, truststore |-> {"ssl"},
     customAuth |-> {"properties"}, auth |-> {"properties"}]
PathsOf(s) == Range(FormSections[s].paths)

\* The sections by name.
LEMMA NamesAre ==
  /\ Names = {"schemaRegistry", "ksql", "metrics", "serde", "kafkaConnect",
              "masking", "truststore", "customAuth", "auth"}
  /\ DOMAIN KeysOf = Names
BY DEF Names, FormSections, KeysOf

\* What the form says of each section.
LEMMA SectionsAre ==
  /\ FormSections["schemaRegistry"] = SchemaRegistry /\ FormSections["ksql"] = KSQL
  /\ FormSections["metrics"] = MetricsForm /\ FormSections["serde"] = Serdes
  /\ FormSections["kafkaConnect"] = KafkaConnects /\ FormSections["masking"] = MaskingForm
  /\ FormSections["truststore"] = Truststore
  /\ FormSections["customAuth"] = CustomAuthentication
  /\ FormSections["auth"] = Authentication
BY DEF FormSections

\* A field of a nested model is a path of two names.
LEMMA NestedField ==
  ASSUME NEW key, NEW names, NEW f \in names
  PROVE  <<key, f>> \in Nested(key, Fields(names))
<1>1. <<key>> \o <<f>> = <<key, f>>
  <2>. DEFINE a == <<key>>
              b == <<f>>
              ab == <<key, f>>
  <2>1. /\ a \in Seq({key, f}) /\ Len(a) = 1 /\ a[1] = key
        /\ b \in Seq({key, f}) /\ Len(b) = 1 /\ b[1] = f
        /\ ab \in Seq({key, f}) /\ Len(ab) = 2 /\ ab[1] = key /\ ab[2] = f
    OBVIOUS
  <2>. HIDE DEF a, b, ab
  <2>2. /\ a \o b \in Seq({key, f}) /\ Len(a \o b) = Len(a) + Len(b)
        /\ \A i \in 1..Len(a) + Len(b) :
              (a \o b)[i] = IF i <= Len(a) THEN a[i] ELSE b[i - Len(a)]
    BY <2>1, ConcatProperties
  <2>3. Len(a \o b) = 2 /\ (a \o b)[1] = key /\ (a \o b)[2] = f BY <2>1, <2>2
  <2>4. \A i \in 1..Len(ab) : ab[i] = (a \o b)[i]
    <3>1. \A i \in 1..2 : i = 1 \/ i = 2 OBVIOUS
    <3>. QED BY <2>1, <2>3, <3>1
  <2>5. ab = a \o b BY <2>1, <2>2, <2>3, <2>4, SeqEqual
  <2>. QED BY <2>5 DEF a, b, ab
<1>2. <<f>> \in Fields(names) BY DEF Fields
<1>. QED BY <1>1, <1>2 DEF Nested

\* The paths of a section with one key.
LEMMA AtPaths ==
  ASSUME NEW key, NEW fields
  PROVE  /\ DOMAIN At(key, fields) = fields
         /\ \A f \in fields : At(key, fields)[f] = <<key, f>> /\ At(key, fields)[f][1] = key
BY DEF At

\* The paths of a service.
LEMMA ServicePaths ==
  ASSUME NEW url, NEW auth, NEW ssl
  PROVE  /\ DOMAIN Service(url, auth, ssl) = {"url"} \cup Credentials \cup SSLForm
         /\ Service(url, auth, ssl)["url"] = <<url>>
         /\ \A f \in Credentials : Service(url, auth, ssl)[f] = <<auth, f>>
         /\ \A f \in SSLForm : Service(url, auth, ssl)[f] = <<ssl, f>>
BY DEF Service, Credentials, SSLForm

\* What the sections have for paths.
SectionOK(s) ==
    \A f \in DOMAIN FormSections[s].paths :
        /\ FormSections[s].paths[f] \in KafkaClusters
        /\ FormSections[s].paths[f][1] \in KeysOf[s]
\* A section with one key knows its paths when the client knows its fields.
LEMMA AtSection ==
  ASSUME NEW s, NEW key, NEW fields, NEW known, fields \subseteq known,
         FormSections[s].paths = At(key, fields), KeysOf[s] = {key},
         Nested(key, Fields(known)) \subseteq KafkaClusters
  PROVE  SectionOK(s)
<1>1. DOMAIN FormSections[s].paths = fields BY AtPaths
<1>2. SUFFICES ASSUME NEW f \in fields
               PROVE  /\ FormSections[s].paths[f] \in KafkaClusters
                      /\ FormSections[s].paths[f][1] \in KeysOf[s]
  BY <1>1 DEF SectionOK
<1>3. FormSections[s].paths[f] = <<key, f>> /\ FormSections[s].paths[f][1] = key BY AtPaths
<1>4. f \in known BY <1>2
<1>5. <<key, f>> \in KafkaClusters BY <1>4, NestedField
<1>. QED BY <1>3, <1>5

\* So does a service.
LEMMA ServiceSection ==
  ASSUME NEW s, NEW url, NEW auth, NEW ssl,
         FormSections[s].paths = Service(url, auth, ssl), KeysOf[s] = {url, auth, ssl},
         <<url>> \in KafkaClusters,
         Nested(auth, Fields(Credentials)) \subseteq KafkaClusters,
         Nested(ssl, Fields(SSLForm)) \subseteq KafkaClusters
  PROVE  SectionOK(s)
<1>1. DOMAIN FormSections[s].paths = {"url"} \cup Credentials \cup SSLForm BY ServicePaths
<1>2. SUFFICES ASSUME NEW f \in {"url"} \cup Credentials \cup SSLForm
               PROVE  /\ FormSections[s].paths[f] \in KafkaClusters
                      /\ FormSections[s].paths[f][1] \in {url, auth, ssl}
  BY <1>1 DEF SectionOK
<1>3. CASE f = "url"
  <2>1. FormSections[s].paths[f] = <<url>> BY <1>3, ServicePaths
  <2>. QED BY <2>1
<1>4. CASE f \in Credentials
  <2>1. FormSections[s].paths[f] = <<auth, f>> BY <1>4, ServicePaths
  <2>2. <<auth, f>> \in KafkaClusters BY <1>4, NestedField
  <2>. QED BY <2>1, <2>2
<1>5. CASE f \in SSLForm
  <2>1. FormSections[s].paths[f] = <<ssl, f>> BY <1>5, ServicePaths
  <2>2. <<ssl, f>> \in KafkaClusters BY <1>5, NestedField
  <2>. QED BY <2>1, <2>2
<1>. QED BY <1>3, <1>4, <1>5

\* Every section stores what the client knows, under its own keys.
LEMMA SectionPaths == \A s \in Names : SectionOK(s)
<1>1. SectionOK("serde")
  <2>1. FormSections["serde"].paths = At("serde", {"name", "className", "filePath", "properties",
                                 "topicKeysPattern", "topicValuesPattern"})
    BY SectionsAre DEF Serdes, Section
  <2>2. Nested("serde", Serde) \subseteq KafkaClusters BY DEF KafkaClusters
  <2>3. KeysOf["serde"] = {"serde"} BY DEF KeysOf
  <2>. DEFINE fields == {"name", "className", "filePath", "properties",
                        "topicKeysPattern", "topicValuesPattern"}
              known == {"name", "className", "filePath", "properties",
                        "topicKeysPattern", "topicValuesPattern"}
  <2>4. Serde = Fields(known) BY DEF Serde
  <2>5. fields \subseteq known OBVIOUS
  <2>. HIDE DEF fields, known
  <2>. QED BY <2>1, <2>2, <2>3, <2>4, <2>5, AtSection DEF fields
<1>2. SectionOK("metrics")
  <2>1. FormSections["metrics"].paths = At("metrics", {"type", "port"} \cup Credentials \cup SSLForm)
    BY SectionsAre DEF MetricsForm, Section
  <2>2. Nested("metrics", Metrics) \subseteq KafkaClusters BY DEF KafkaClusters
  <2>3. KeysOf["metrics"] = {"metrics"} BY DEF KeysOf
  <2>. DEFINE plain == {"type", "port", "ssl", "username", "password", "keystoreLocation",
            "keystorePassword", "prometheusExpose"}
              fields == {"type", "port"} \cup Credentials \cup SSLForm
  <2>4. Nested("metrics", Fields(plain)) \subseteq Nested("metrics", Metrics) BY DEF Nested, Metrics
  <2>5. fields \subseteq plain BY DEF Credentials, SSLForm
  <2>. HIDE DEF plain, fields
  <2>. QED BY <2>1, <2>2, <2>3, <2>4, <2>5, AtSection DEF fields
<1>3. SectionOK("kafkaConnect")
  <2>1. FormSections["kafkaConnect"].paths
        = At("kafkaConnect", {"name", "address"} \cup Credentials \cup SSLForm)
    BY SectionsAre DEF KafkaConnects, Section
  <2>2. Nested("kafkaConnect", KafkaConnect) \subseteq KafkaClusters BY DEF KafkaClusters
  <2>3. KeysOf["kafkaConnect"] = {"kafkaConnect"} BY DEF KeysOf
  <2>. DEFINE fields == {"name", "address"} \cup Credentials \cup SSLForm
              known == {"name", "address", "username", "password", "keystoreLocation",
                       "keystorePassword"}
  <2>4. KafkaConnect = Fields(known) BY DEF KafkaConnect
  <2>5. fields \subseteq known BY DEF Credentials, SSLForm
  <2>. HIDE DEF fields, known
  <2>. QED BY <2>1, <2>2, <2>3, <2>4, <2>5, AtSection DEF fields
<1>4. SectionOK("masking")
  <2>1. FormSections["masking"].paths
        = At("masking", {"type", "fields", "fieldsNamePattern", "maskingCharsReplacement",
                         "replacement", "topicKeysPattern", "topicValuesPattern"})
    BY SectionsAre DEF MaskingForm, Section
  <2>2. Nested("masking", Masking) \subseteq KafkaClusters BY DEF KafkaClusters
  <2>3. KeysOf["masking"] = {"masking"} BY DEF KeysOf
  <2>. DEFINE fields == {"type", "fields", "fieldsNamePattern", "maskingCharsReplacement",
                        "replacement", "topicKeysPattern", "topicValuesPattern"}
              known == {"type", "fields", "fieldsNamePattern", "maskingCharsReplacement",
                        "replacement", "topicKeysPattern", "topicValuesPattern"}
  <2>4. Masking = Fields(known) BY DEF Masking
  <2>5. fields \subseteq known OBVIOUS
  <2>. HIDE DEF fields, known
  <2>. QED BY <2>1, <2>2, <2>3, <2>4, <2>5, AtSection DEF fields
<1>5. SectionOK("truststore")
  <2>1. FormSections["truststore"].paths
        = [truststoreLocation |-> <<"ssl", "truststoreLocation">>,
           truststorePassword |-> <<"ssl", "truststorePassword">>]
    BY SectionsAre DEF Truststore, Section
  <2>2. Nested("ssl", Ssl) \subseteq KafkaClusters BY DEF KafkaClusters
  <2>3. KeysOf["truststore"] = {"ssl"} BY DEF KeysOf
  <2>. QED BY <2>1, <2>2, <2>3, NestedField DEF SectionOK, Ssl
<1>6. SectionOK("customAuth") /\ SectionOK("auth")
  <2>1. FormSections["customAuth"].paths = [security |-> <<"properties", "security">>]
        /\ FormSections["auth"].paths = [method |-> <<"properties", "security">>]
    BY SectionsAre DEF CustomAuthentication, Authentication, Section
  <2>2. Nested("properties", Fields({"security", "other"})) \subseteq KafkaClusters
    BY DEF KafkaClusters
  <2>3. KeysOf["customAuth"] = {"properties"} /\ KeysOf["auth"] = {"properties"} BY DEF KeysOf
  <2>. QED BY <2>1, <2>2, <2>3, NestedField DEF SectionOK
<1>7. SectionOK("schemaRegistry")
  <2>1. FormSections["schemaRegistry"].paths
        = Service("schemaRegistry", "schemaRegistryAuth", "schemaRegistrySsl")
    BY SectionsAre DEF SchemaRegistry, Section
  <2>2. /\ Nested("schemaRegistryAuth", SchemaRegistryAuth) \subseteq KafkaClusters
        /\ Nested("schemaRegistrySsl", SchemaRegistrySsl) \subseteq KafkaClusters
        /\ <<"schemaRegistry">> \in KafkaClusters
    BY DEF KafkaClusters, Fields
  <2>3. KeysOf["schemaRegistry"] = {"schemaRegistry", "schemaRegistryAuth", "schemaRegistrySsl"}
    BY DEF KeysOf
  <2>4. Nested("schemaRegistryAuth", Fields(Credentials)) \subseteq Nested("schemaRegistryAuth", SchemaRegistryAuth)
    BY DEF Nested, SchemaRegistryAuth, Credentials
  <2>5. SchemaRegistrySsl = Fields(SSLForm) BY DEF SchemaRegistrySsl, SSLForm
  <2>. QED BY <2>1, <2>2, <2>3, <2>4, <2>5, ServiceSection
<1>8. SectionOK("ksql")
  <2>1. FormSections["ksql"].paths
        = Service("ksqldbServer", "ksqldbServerAuth", "ksqldbServerSsl")
    BY SectionsAre DEF KSQL, Section
  <2>2. /\ Nested("ksqldbServerAuth", KsqldbServerAuth) \subseteq KafkaClusters
        /\ Nested("ksqldbServerSsl", SchemaRegistrySsl) \subseteq KafkaClusters
        /\ <<"ksqldbServer">> \in KafkaClusters
    BY DEF KafkaClusters, Fields
  <2>3. KeysOf["ksql"] = {"ksqldbServer", "ksqldbServerAuth", "ksqldbServerSsl"}
    BY DEF KeysOf
  <2>4. SchemaRegistrySsl = Fields(SSLForm) /\ KsqldbServerAuth = Fields(Credentials)
    BY DEF SchemaRegistrySsl, SSLForm, KsqldbServerAuth, Credentials
  <2>. QED BY <2>1, <2>2, <2>3, <2>4, ServiceSection
<1>. QED BY <1>1, <1>2, <1>3, <1>4, <1>5, <1>6, <1>7, <1>8, NamesAre

\* What a form is saved as.
LEMMA PayloadPaths ==
  ASSUME NEW s, NEW v
  PROVE  Payload(s, v) \subseteq PathsOf(s)
BY DEF Payload, PathsOf, Range

\* So it saves a cluster.
LEMMA PayloadIsCluster ==
  ASSUME NEW form, IsName(form.name)
  PROVE  LET c == transformFormDataToPayload(form)
         IN  IsCluster(c) /\ c.name = form.name
<1>. DEFINE c == transformFormDataToPayload(form)
            saved == {x \in Names : IsSaved(x, form.sections)}
            has == {<<"readOnly">>} \cup UNION {Payload(s, form.sections[s]) : s \in saved}
<1>1. c = [name |-> form.name, addr |-> form.addr, has |-> has]
  BY DEF transformFormDataToPayload
<1>2. <<"readOnly">> \in KafkaClusters BY DEF KafkaClusters, Fields
<1>3. \A s \in saved : Payload(s, form.sections[s]) \subseteq KafkaClusters
  <2>1. \A s \in Names : PathsOf(s) \subseteq KafkaClusters
    BY SectionPaths DEF SectionOK, PathsOf, Range
  <2>. QED BY <2>1, PayloadPaths
<1>. HIDE DEF saved
<1>4. has \subseteq KafkaClusters BY <1>2, <1>3
<1>. HIDE DEF has
<1>. QED BY <1>1, <1>4 DEF IsCluster

\* The sections a user can leave untouched, and the key of each.
Kept == {"serde", "kafkaConnect", "masking", "truststore", "customAuth"}
\* These sections are lists, plain and custom ones.
LEMMA KeptAre ==
  /\ \A s \in Names : FormSections[s].kind \in {"list", "plain", "custom"} => s \in Kept
  /\ \A s \in Kept : s \in Names
BY NamesAre, SectionsAre
   DEF Kept, SchemaRegistry, KSQL, MetricsForm, Serdes, KafkaConnects, MaskingForm,
       Truststore, CustomAuthentication, Authentication, Section

\* No other section has the paths of one of them.
LEMMA OwnPaths ==
  ASSUME NEW s \in Kept, NEW x \in Names, x # s, s = "customAuth" => x # "auth"
  PROVE  PathsOf(s) \cap PathsOf(x) = {} /\ <<"readOnly">> \notin PathsOf(s)
<1>1. s \in Names BY KeptAre
<1>2. /\ \A p \in PathsOf(s) : p[1] \in KeysOf[s]
      /\ \A p \in PathsOf(x) : p[1] \in KeysOf[x]
  BY <1>1, SectionPaths DEF SectionOK, PathsOf, Range
<1>3. KeysOf[s] \cap KeysOf[x] = {} /\ "readOnly" \notin KeysOf[s]
  BY NamesAre DEF Kept, KeysOf
<1>4. <<"readOnly">>[1] = "readOnly" OBVIOUS
<1>. QED BY <1>2, <1>3, <1>4

\* Of a section, what is saved is what the section saves.
LEMMA SavedOf ==
  ASSUME NEW form, NEW s \in Kept, s = "customAuth" => form.sections["auth"].is # "active"
  PROVE  transformFormDataToPayload(form).has \cap PathsOf(s)
         = IF IsSaved(s, form.sections) THEN Payload(s, form.sections[s]) ELSE {}
<1>. DEFINE saved == {x \in Names : IsSaved(x, form.sections)}
            has == {<<"readOnly">>} \cup UNION {Payload(x, form.sections[x]) : x \in saved}
<1>1. transformFormDataToPayload(form).has = has BY DEF transformFormDataToPayload
<1>2. s \in Names BY KeptAre
<1>3. "auth" \in saved => s # "customAuth"
  <2>1. FormSections["auth"].kind = "object" BY SectionsAre DEF Authentication, Section
  <2>. QED BY <2>1 DEF IsSaved
<1>4. \A x \in saved : x # s => Payload(x, form.sections[x]) \cap PathsOf(s) = {}
  BY <1>3, OwnPaths, PayloadPaths
<1>5. <<"readOnly">> \notin PathsOf(s)
  <2>1. "metrics" \in Names /\ "metrics" # s BY NamesAre DEF Kept
  <2>. QED BY <2>1, OwnPaths
<1>6. s \in saved <=> IsSaved(s, form.sections) BY <1>2
<1>7. Payload(s, form.sections[s]) \subseteq PathsOf(s) BY PayloadPaths
<1>. HIDE DEF saved
<1>8. CASE s \in saved
  <2>1. has \cap PathsOf(s) = Payload(s, form.sections[s]) BY <1>4, <1>5, <1>7, <1>8
  <2>. QED BY <1>1, <1>6, <1>8, <2>1
<1>9. CASE s \notin saved
  <2>1. has \cap PathsOf(s) = {} BY <1>4, <1>5, <1>9
  <2>. QED BY <1>1, <1>6, <1>9, <2>1
<1>. QED BY <1>8, <1>9

\* A section as it was filled in from the stored cluster saves what was there.
LEMMA UntouchedSection ==
  ASSUME NEW form, NEW c, NEW s \in Kept, form.sections[s] = getInitialFormData(c)[s],
         s = "customAuth" => form.sections["auth"].is # "active",
         Whole(s, c.has),
         form.sections[s].is # "absent" =>
            Required(s, form.sections[s].fields) \subseteq form.sections[s].fields
  PROVE  transformFormDataToPayload(form).has \cap PathsOf(s) = c.has \cap PathsOf(s)
<1>. DEFINE st == Stored(s, c)
            paths == FormSections[s].paths
            v == form.sections[s]
<1>1. s \in Names BY KeptAre
<1>2. c.has \cap PathsOf(s) = {paths[f] : f \in st} BY DEF Stored, PathsOf, Range
<1>3. st \subseteq DOMAIN paths BY DEF Stored
<1>4. v = IF Present(s, st)
          THEN Value("stored", IF Logs(s) THEN parseCredentials(st) ELSE st, AlwaysOpen(s))
          ELSE Absent
  BY <1>1 DEF getInitialFormData
<1>5. Present(s, st) <=> IF s = "truststore" THEN st = DOMAIN paths ELSE st # {}
  BY DEF Present, Kept
<1>6. IF s = "truststore" THEN st \in {{}, DOMAIN paths}
      ELSE st \cap Credentials \in {{}, Credentials}
  BY DEF Whole, Stored
<1>7. IsSaved(s, form.sections) <=> v.is # "absent"
  <2>1. FormSections[s].kind \notin {"object", "dormant"}
    BY SectionsAre DEF Kept, Serdes, KafkaConnects, MaskingForm, Truststore,
                       CustomAuthentication, Section
  <2>2. v.is \in {"absent", "stored"} BY <1>4 DEF Value, Absent
  <2>. QED BY <2>1, <2>2 DEF IsSaved
<1>8. transformFormDataToPayload(form).has \cap PathsOf(s)
      = IF IsSaved(s, form.sections) THEN Payload(s, v) ELSE {}
  BY SavedOf
<1>. HIDE DEF st, paths, v
<1>9. CASE ~Present(s, st)
  <2>1. v.is = "absent" BY <1>4, <1>9 DEF Absent, Value
  <2>2. st = {} 
    <3>1. CASE s = "truststore" BY <3>1, <1>5, <1>6, <1>9
    <3>2. CASE s # "truststore" BY <3>2, <1>5, <1>9
    <3>. QED BY <3>1, <3>2
  <2>. QED BY <1>2, <1>7, <1>8, <2>1, <2>2
<1>10. CASE Present(s, st)
  <2>. DEFINE fields == IF Logs(s) THEN parseCredentials(st) ELSE st
  <2>1. v.is = "stored" /\ v.fields = fields BY <1>4, <1>10 DEF Value
  <2>2. Required(s, fields) \subseteq fields BY <2>1 DEF v
  <2>3. transformToKeystore(transformToCredentials(fields)) \cap DOMAIN paths = st
    <3>1. CASE s = "kafkaConnect"
      <4>1. DOMAIN paths = {"name", "address"} \cup Credentials \cup SSLForm
        BY <3>1, SectionsAre, AtPaths DEF KafkaConnects, Section, paths
      <4>2. Logs(s) BY <4>1, <3>1 DEF Logs, paths
      <4>3. /\ "isAuth" \notin DOMAIN paths /\ "isAuth" \notin SSLForm
            /\ SSLForm = {"keystoreLocation", "keystorePassword"}
            /\ Credentials \cap SSLForm = {}
        BY <4>1 DEF Credentials, SSLForm
      <4>4. fields = IF Credentials \subseteq st THEN st \cup {"isAuth"} ELSE st
        BY <4>2, <1>6, <3>1 DEF parseCredentials
      <4>5. transformToCredentials(fields) = fields
        BY <4>4, <4>3, <1>3, <1>6, <3>1 DEF transformToCredentials
      <4>6. "keystorePassword" \in fields => "keystoreLocation" \in fields
        BY <2>2 DEF Required
      <4>7. transformToKeystore(fields) = fields
        BY <4>6, <4>3 DEF transformToKeystore
      <4>. HIDE DEF fields
      <4>. QED BY <4>3, <4>4, <4>5, <4>7, <1>3
    <3>2. CASE s # "kafkaConnect"
      <4>1. DOMAIN paths \cap (Credentials \cup SSLForm \cup {"isAuth"}) = {}
        BY <3>2, SectionsAre, AtPaths
           DEF Kept, Serdes, MaskingForm, Truststore, CustomAuthentication, Section, paths,
               Credentials, SSLForm
      <4>2. ~Logs(s)
        <5>1. "username" \in Credentials BY DEF Credentials
        <5>. QED BY <4>1, <5>1 DEF Logs, paths
      <4>3. fields = st BY <4>2
      <4>4. transformToKeystore(transformToCredentials(st)) = st
        BY <4>1, <1>3 DEF transformToKeystore, transformToCredentials
      <4>. QED BY <4>3, <4>4, <1>3
    <3>. QED BY <3>1, <3>2
  <2>4. Payload(s, v) = {paths[f] : f \in st}
    <3>. DEFINE kept == transformToKeystore(transformToCredentials(fields))
    <3>1. Payload(s, v) = {paths[f] : f \in kept \cap DOMAIN paths}
      BY <2>1 DEF Payload, paths
    <3>. HIDE DEF kept
    <3>. QED BY <2>3, <3>1 DEF kept
  <2>5. IsSaved(s, form.sections) BY <1>7, <2>1
  <2>. QED BY <1>2, <1>8, <2>4, <2>5
<1>. QED BY <1>9, <1>10

----------------------------------------------------------------------------
(* The clusters after an edit *)

Kinds == {"add", "edit", "remove", "duplicate", "delete"}
IsEdit(o) ==
    /\ o.kind \in Kinds
    /\ IF o.kind = "add" THEN o.target = <<>> ELSE IsName(o.target)
    /\ o.kind \in {"add", "edit"} => IsName(o.form.name) /\ formSchema(o.form.sections)
    /\ o.kind = "edit" => o.target = o.form.initialName
Clash(o, e) ==
    /\ o.kind \in {"add", "edit"} /\ o.form.name # o.target
    /\ o.form.name \in NamesOf(e)
Saved(o) == transformFormDataToPayload(o.form)
AfterIs(o, e, s) ==
    /\ AreClusters(s)
    /\ Unique(e) /\ ~Clash(o, e) => Unique(s)
    /\ o.kind = "duplicate" =>
          \E copy : copy.name \notin NamesOf(e) /\ Range(s) = Range(e) \cup {copy}
    /\ o.kind \in {"delete", "remove"} => Range(s) = {c \in Range(e) : c.name # o.target}
    /\ o.kind = "add" => Range(s) = Range(e) \cup {Saved(o)}
    /\ o.kind = "edit" =>
          /\ \A c \in Range(s) : c = Saved(o) \/ (c \in Range(e) /\ c.name # o.target)
          /\ \A c \in Range(e) : c.name # o.target => c \in Range(s)

\* The cluster a name finds.
LEMMA FirstNamed ==
  ASSUME NEW e, AreClusters(e), NEW n \in NamesOf(e)
  PROVE  IsCluster(Source(e, n))
<1>. DEFINE at == {i \in DOMAIN e : e[i].name = n}
            IsFirst(i) == e[i].name = n /\ \A j \in 1..i - 1 : e[j].name # n
            first == CHOOSE i \in DOMAIN e : IsFirst(i)
<1>1. Len(e) \in Nat /\ DOMAIN e = 1..Len(e) /\ \A i \in DOMAIN e : IsCluster(e[i])
  BY ClusterFacts
<1>2. at # {} BY ClusterFacts
<1>3. at \in SUBSET Nat BY <1>1
<1>4. PICK i \in at : \A j \in at : i <= j
  <2>. HIDE DEF at
  <2>. QED BY <1>2, <1>3, FirstOf
<1>5. i \in DOMAIN e /\ IsFirst(i)
  <2>1. i \in DOMAIN e /\ e[i].name = n OBVIOUS
  <2>2. \A j \in 1..i - 1 : j \in DOMAIN e /\ ~(i <= j) BY <2>1, <1>1
  <2>3. \A j \in 1..i - 1 : e[j].name # n BY <2>2, <1>4
  <2>. QED BY <2>1, <2>3
<1>6. first \in DOMAIN e
  <2>. HIDE DEF IsFirst
  <2>. QED BY <1>5
<1>7. Source(e, n) = e[first] BY DEF Source
<1>. HIDE DEF first
<1>. QED BY <1>1, <1>6, <1>7

\* A copy is added under a free name.
LEMMA AfterDuplicate ==
  ASSUME NEW o, NEW e, AreClusters(e), IsEdit(o), o.kind = "duplicate",
         o.target \in NamesOf(e)
  PROVE  AfterIs(o, e, ClustersAfter(o, e))
<1>. DEFINE src == Source(e, o.target)
            copy == [src EXCEPT !.name = CopyName(o, e)]
<1>1. CopyName(o, e) \notin NamesOf(e) /\ IsName(CopyName(o, e))
  <2>1. IsSequence(o.target) BY DEF IsEdit, IsName
  <2>. QED BY <2>1, ClusterFacts, FreeName DEF CopyName
<1>2. IsCluster(src) BY FirstNamed
<1>3. IsCluster(copy) /\ copy.name = CopyName(o, e)
  <2>1. src = [name |-> src.name, addr |-> src.addr, has |-> src.has]
        /\ src.has \subseteq KafkaClusters \cup ClusterCfg
    BY <1>2 DEF IsCluster
  <2>. HIDE DEF src
  <2>2. copy = [name |-> CopyName(o, e), addr |-> src.addr, has |-> src.has] BY <2>1
  <2>. QED BY <2>1, <2>2, <1>1 DEF IsCluster
<1>4. ClustersAfter(o, e) = Append(e, copy) BY DEF ClustersAfter, aggregateClusters
<1>. HIDE DEF copy
<1>5. /\ AreClusters(Append(e, copy)) /\ Range(Append(e, copy)) = Range(e) \cup {copy}
      /\ Unique(e) /\ copy.name \notin NamesOf(e) => Unique(Append(e, copy))
  BY <1>3, ClusterAdded
<1>. QED BY <1>1, <1>3, <1>4, <1>5 DEF AfterIs

\* All clusters but the one named stay.
LEMMA AfterDelete ==
  ASSUME NEW o, NEW e, AreClusters(e), IsEdit(o), o.kind \in {"delete", "remove"}
  PROVE  AfterIs(o, e, ClustersAfter(o, e))
<1>. DEFINE places == {i \in DOMAIN e : e[i].name # o.target}
<1>1. o.target # <<>> BY DEF IsEdit, IsName
<1>2. ClustersAfter(o, e) = Part(e, places) BY <1>1 DEF ClustersAfter, aggregateClusters
<1>3. {e[i] : i \in places} = {c \in Range(e) : c.name # o.target} BY DEF Range
<1>4. /\ AreClusters(Part(e, places)) /\ Range(Part(e, places)) = {e[i] : i \in places}
      /\ Unique(e) => Unique(Part(e, places))
  <2>1. places \in SUBSET DOMAIN e OBVIOUS
  <2>. HIDE DEF places
  <2>. QED BY <2>1, PartOfClusters
<1>. HIDE DEF places
<1>. QED BY <1>2, <1>3, <1>4 DEF AfterIs

\* The cluster of a new form is added.
LEMMA AfterAdd ==
  ASSUME NEW o, NEW e, AreClusters(e), IsEdit(o), o.kind = "add"
  PROVE  AfterIs(o, e, ClustersAfter(o, e))
<1>1. o.target = <<>> /\ IsName(o.form.name) BY DEF IsEdit
<1>2. ClustersAfter(o, e) = Append(e, Saved(o))
  BY <1>1 DEF ClustersAfter, aggregateClusters, Saved
<1>3. IsCluster(Saved(o)) /\ Saved(o).name = o.form.name
  BY <1>1, PayloadIsCluster DEF Saved
<1>4. ~Clash(o, e) => o.form.name \notin NamesOf(e) BY <1>1 DEF Clash, IsName
<1>. DEFINE c == Saved(o)
<1>. HIDE DEF c
<1>5. /\ AreClusters(Append(e, c)) /\ Range(Append(e, c)) = Range(e) \cup {c}
      /\ Unique(e) /\ c.name \notin NamesOf(e) => Unique(Append(e, c))
  BY <1>3, ClusterAdded DEF c
<1>. QED BY <1>2, <1>3, <1>4, <1>5 DEF AfterIs, c

\* The cluster of a form takes the place of the one it was opened with.
LEMMA AfterEdit ==
  ASSUME NEW o, NEW e, AreClusters(e), IsEdit(o), o.kind = "edit"
  PROVE  AfterIs(o, e, ClustersAfter(o, e))
<1>. DEFINE c == Saved(o)
            s == [i \in DOMAIN e |-> IF e[i].name = o.target THEN c ELSE e[i]]
            D == Range(e) \cup {c}
<1>1. o.target # <<>> /\ IsName(o.form.name) BY DEF IsEdit, IsName
<1>2. ClustersAfter(o, e) = s BY <1>1 DEF ClustersAfter, aggregateClusters, Saved
<1>3. IsCluster(c) /\ c.name = o.form.name BY <1>1, PayloadIsCluster DEF Saved
<1>4. Len(e) \in Nat /\ DOMAIN e = 1..Len(e) /\ \A i \in DOMAIN e : IsCluster(e[i])
  BY ClusterFacts
<1>. HIDE DEF c
<1>5. DOMAIN s = DOMAIN e
      /\ \A i \in DOMAIN e : s[i] = IF e[i].name = o.target THEN c ELSE e[i]
  OBVIOUS
<1>. HIDE DEF s
<1>6. AreClusters(s)
  <2>1. \A i \in DOMAIN e : s[i] \in D BY <1>5 DEF Range
  <2>2. s \in [1..Len(e) -> D]
    <3>1. s = [i \in DOMAIN e |-> s[i]] BY DEF s
    <3>. HIDE DEF D
    <3>. QED BY <3>1, <2>1, <1>4
  <2>. HIDE DEF D
  <2>3. s \in Seq(D) BY <2>2, <1>4
  <2>4. \A i \in DOMAIN s : IsCluster(s[i]) BY <1>3, <1>4, <1>5
  <2>. QED BY <2>3, <2>4, TheyAreClusters
<1>7. ASSUME Unique(e), ~Clash(o, e) PROVE Unique(s)
  <2>1. SUFFICES ASSUME NEW i \in DOMAIN e, NEW j \in DOMAIN e, s[i].name = s[j].name
                 PROVE  i = j
    BY <1>5 DEF Unique
  <2>2. c.name = o.target \/ c.name \notin NamesOf(e) BY <1>7, <1>3 DEF Clash
  <2>3. e[i].name \in NamesOf(e) /\ e[j].name \in NamesOf(e) BY DEF NamesOf
  <2>4. e[i].name = e[j].name BY <2>1, <2>2, <2>3, <1>5
  <2>. QED BY <2>4, <1>7 DEF Unique
<1>8. \A x \in Range(s) : x = c \/ (x \in Range(e) /\ x.name # o.target)
  BY <1>5 DEF Range
<1>9. \A x \in Range(e) : x.name # o.target => x \in Range(s)
  <2>1. SUFFICES ASSUME NEW i \in DOMAIN e, e[i].name # o.target PROVE e[i] \in Range(s)
    BY DEF Range
  <2>2. s[i] = e[i] /\ i \in DOMAIN s BY <2>1, <1>5
  <2>. QED BY <2>2 DEF Range
<1>. QED BY <1>2, <1>6, <1>7, <1>8, <1>9 DEF AfterIs, c

\* Every edit changes the clusters as it should.
LEMMA AfterAnyEdit ==
  ASSUME NEW o, NEW e, AreClusters(e), IsEdit(o),
         o.kind = "duplicate" => o.target \in NamesOf(e)
  PROVE  AfterIs(o, e, ClustersAfter(o, e))
<1>1. o.kind \in Kinds BY DEF IsEdit
<1>. QED BY <1>1, AfterDuplicate, AfterDelete, AfterAdd, AfterEdit DEF Kinds

----------------------------------------------------------------------------
(* Imports *)

\* What a choice of entries replaces.
Replaced(e, o) == UNION {Conflicts(e, o.file[i]) : i \in o.chosen}
IsChoice(e, o) ==
    /\ o.chosen \subseteq DOMAIN o.file
    /\ \A i, j \in o.chosen : ~Overlap(e, o.file, i, j)

\* Clusters after clusters.
LEMMA Joined ==
  ASSUME NEW s, NEW t, AreClusters(s), AreClusters(t)
  PROVE  /\ AreClusters(s \o t) /\ Range(s \o t) = Range(s) \cup Range(t)
         /\ Unique(s) /\ Unique(t) /\ NamesOf(s) \cap NamesOf(t) = {} => Unique(s \o t)
<1>. DEFINE D == Range(s) \cup Range(t)
            u == s \o t
<1>1. /\ Len(s) \in Nat /\ DOMAIN s = 1..Len(s) /\ \A i \in DOMAIN s : IsCluster(s[i])
      /\ Len(t) \in Nat /\ DOMAIN t = 1..Len(t) /\ \A i \in DOMAIN t : IsCluster(t[i])
      /\ s \in Seq(Range(s)) /\ t \in Seq(Range(t))
  BY ClusterFacts
<1>2. s \in Seq(D) /\ t \in Seq(D)
  <2>1. Range(s) \subseteq D /\ Range(t) \subseteq D OBVIOUS
  <2>. HIDE DEF D
  <2>. QED BY <2>1, <1>1, SeqMonotonic
<1>. HIDE DEF D
<1>3. /\ u \in Seq(D) /\ Len(u) = Len(s) + Len(t)
      /\ \A i \in 1..Len(s) + Len(t) : u[i] = IF i <= Len(s) THEN s[i] ELSE t[i - Len(s)]
  BY <1>2, ConcatProperties
<1>. HIDE DEF u
<1>4. DOMAIN u = 1..Len(s) + Len(t) BY <1>3
<1>5. \A i \in DOMAIN u : \/ i \in DOMAIN s /\ u[i] = s[i]
                          \/ i - Len(s) \in DOMAIN t /\ i > Len(s) /\ u[i] = t[i - Len(s)]
  BY <1>1, <1>3, <1>4
<1>6. \A i \in DOMAIN s : i \in DOMAIN u /\ u[i] = s[i] BY <1>1, <1>3, <1>4
<1>7. \A i \in DOMAIN t : i + Len(s) \in DOMAIN u /\ u[i + Len(s)] = t[i]
  BY <1>1, <1>3, <1>4
<1>8. AreClusters(u)
  <2>1. \A i \in DOMAIN u : IsCluster(u[i]) BY <1>1, <1>5
  <2>. QED BY <2>1, <1>3, TheyAreClusters
<1>9. Range(u) = Range(s) \cup Range(t)
  <2>1. \A x \in Range(u) : x \in Range(s) \cup Range(t) BY <1>5 DEF Range
  <2>2. \A x \in Range(s) : x \in Range(u) BY <1>6 DEF Range
  <2>3. \A x \in Range(t) : x \in Range(u) BY <1>7 DEF Range
  <2>. QED BY <2>1, <2>2, <2>3
<1>10. ASSUME Unique(s), Unique(t), NamesOf(s) \cap NamesOf(t) = {} PROVE Unique(u)
  <2>1. SUFFICES ASSUME NEW i \in DOMAIN u, NEW j \in DOMAIN u, u[i].name = u[j].name
                 PROVE  i = j
    BY DEF Unique
  <2>2. \A k \in DOMAIN s, l \in DOMAIN t : s[k].name # t[l].name
    BY <1>10 DEF NamesOf
  <2>3. CASE i \in DOMAIN s /\ u[i] = s[i] /\ j \in DOMAIN s /\ u[j] = s[j]
    BY <2>1, <2>3, <1>10 DEF Unique
  <2>4. CASE /\ i - Len(s) \in DOMAIN t /\ u[i] = t[i - Len(s)]
             /\ j - Len(s) \in DOMAIN t /\ u[j] = t[j - Len(s)]
    <3>1. i - Len(s) = j - Len(s) BY <2>1, <2>4, <1>10 DEF Unique
    <3>2. i \in Int /\ j \in Int BY <1>4
    <3>. QED BY <3>1, <3>2, <1>1
  <2>. QED BY <2>1, <2>2, <2>3, <2>4, <1>5
<1>. QED BY <1>8, <1>9, <1>10 DEF u

\* An import replaces what conflicts with its entries, and adds these.
LEMMA Merged ==
  ASSUME NEW e, NEW o, AreClusters(e), AreClusters(o.file), IsChoice(e, o)
  PROVE  /\ AreClusters(MergeImported(e, o))
         /\ Range(MergeImported(e, o)) =
              {c \in Range(e) : c.name \notin Replaced(e, o)}
              \cup {o.file[i] : i \in o.chosen}
         /\ Unique(e) /\ Unique(o.file) => Unique(MergeImported(e, o))
<1>. DEFINE places == {i \in DOMAIN e : e[i].name \notin Replaced(e, o)}
            s == Part(e, places)
            t == Part(o.file, o.chosen)
<1>1. MergeImported(e, o) = s \o t BY DEF MergeImported, Replaced
<1>2. AreClusters(s) /\ Range(s) = {e[i] : i \in places} /\ (Unique(e) => Unique(s))
  <2>1. places \in SUBSET DOMAIN e OBVIOUS
  <2>. HIDE DEF places
  <2>. QED BY <2>1, PartOfClusters
<1>3. /\ AreClusters(t) /\ Range(t) = {o.file[i] : i \in o.chosen}
      /\ (Unique(o.file) => Unique(t))
  <2>1. o.chosen \in SUBSET DOMAIN o.file BY DEF IsChoice
  <2>. QED BY <2>1, PartOfClusters
<1>4. {e[i] : i \in places} = {c \in Range(e) : c.name \notin Replaced(e, o)} BY DEF Range
<1>. HIDE DEF s, t, places
<1>5. NamesOf(s) \cap NamesOf(t) = {}
  <2>1. SUFFICES ASSUME NEW n \in NamesOf(s), n \in NamesOf(t) PROVE FALSE
    OBVIOUS
  <2>2. PICK k \in DOMAIN s : s[k].name = n BY DEF NamesOf
  <2>3. PICK l \in DOMAIN t : t[l].name = n BY <2>1 DEF NamesOf
  <2>4. s[k] \in Range(s) /\ t[l] \in Range(t) BY DEF Range
  <2>5. s[k] \in Range(e) /\ n \notin Replaced(e, o) BY <2>2, <2>4, <1>2, <1>4
  <2>6. PICK i \in o.chosen : o.file[i].name = n BY <2>3, <2>4, <1>3
  <2>7. PICK j \in DOMAIN e : e[j].name = n BY <2>2, <2>5 DEF Range
  <2>8. n \in Conflicts(e, o.file[i]) BY <2>6, <2>7 DEF Conflicts, ConflictReason
  <2>. QED BY <2>5, <2>6, <2>8 DEF Replaced
<1>. QED BY <1>1, <1>2, <1>3, <1>4, <1>5, Joined

\* The entries selected at first exist: each is decided by the ones before it.
LEMMA DefaultsExist ==
  ASSUME NEW e, NEW file, AreClusters(file)
  PROVE  LET sel == Defaults(e, file)
         IN  /\ sel \subseteq DOMAIN file
             /\ \A i, j \in sel : ~Overlap(e, file, i, j)
<1>. DEFINE n == Len(file)
            Free(i) == Conflicts(e, file[i]) = {}
            Over(i, j) == Overlap(e, file, i, j)
            Right(sel, i) == i \in sel <=> Free(i) /\ \A j \in sel : j < i => ~Over(i, j)
            Upto(m) == \E sel \in SUBSET (1..m) : \A i \in 1..m : Right(sel, i)
            Bad == {m \in 0..n : ~Upto(m)}
<1>1. n \in Nat /\ DOMAIN file = 1..n BY ClusterFacts
<1>2. Upto(0)
  <2>1. {} \in SUBSET (1..0) /\ \A i \in 1..0 : Right({}, i) OBVIOUS
  <2>. HIDE DEF Right
  <2>. QED BY <2>1
<1>3. ASSUME NEW m \in 1..n, Upto(m - 1) PROVE Upto(m)
  <2>1. PICK sel \in SUBSET (1..(m - 1)) : \A i \in 1..(m - 1) : Right(sel, i)
    <3>. HIDE DEF Right
    <3>. QED BY <1>3
  <2>. DEFINE ok == Free(m) /\ \A j \in sel : j < m => ~Over(m, j)
              new == IF ok THEN sel \cup {m} ELSE sel
  <2>2. m \in Nat /\ 1..(m - 1) \subseteq 1..m BY <1>1
  <2>3. new \in SUBSET (1..m) BY <2>2
  <2>4. m \notin sel BY <2>2
  <2>5. \A i \in 1..m : Right(new, i)
    <3>1. SUFFICES ASSUME NEW i \in 1..m PROVE Right(new, i)
      <4>. HIDE DEF Right, new
      <4>. QED OBVIOUS
    <3>2. i \in Nat /\ ~(m < i) /\ ~(i < i) BY <2>2
    <3>3. \A j : j < i /\ j \in new <=> j < i /\ j \in sel BY <3>2
    <3>4. CASE i = m
      <4>1. i \in new <=> ok BY <3>4, <2>4
      <4>. HIDE DEF new, Free, Over
      <4>. QED BY <4>1, <3>3, <3>4
    <3>5. CASE i # m
      <4>1. i \in 1..(m - 1) BY <3>5, <2>2
      <4>2. Right(sel, i) BY <4>1, <2>1
      <4>3. i \in new <=> i \in sel BY <3>5
      <4>. HIDE DEF new, Free, Over
      <4>. QED BY <4>2, <4>3, <3>3
    <3>. QED BY <3>4, <3>5
  <2>. HIDE DEF Right, new
  <2>. QED BY <2>3, <2>5
<1>4. Upto(n)
  <2>1. SUFFICES ASSUME Bad # {} PROVE FALSE
    <3>1. n \in 0..n BY <1>1
    <3>. HIDE DEF Upto, n
    <3>. QED BY <3>1
  <2>2. Bad \in SUBSET Nat
    <3>. HIDE DEF Upto
    <3>. QED BY <1>1
  <2>3. PICK m \in Bad : \A k \in Bad : m <= k
    <3>. HIDE DEF Bad
    <3>. QED BY <2>1, <2>2, FirstOf
  <2>4. m \in 0..n /\ ~Upto(m)
    <3>. HIDE DEF Upto
    <3>. QED OBVIOUS
  <2>5. m # 0
    <3>. HIDE DEF Upto
    <3>. QED BY <2>4, <1>2
  <2>6. m - 1 \in 0..n /\ m \in 1..n /\ ~(m <= m - 1)
    <3>. HIDE DEF n, Upto, Bad
    <3>. QED BY <2>4, <2>5, <1>1
  <2>7. Upto(m - 1)
    <3>1. m - 1 \notin Bad
      <4>. HIDE DEF Bad
      <4>. QED BY <2>3, <2>6
    <3>. HIDE DEF Upto
    <3>. QED BY <2>6, <3>1
  <2>. HIDE DEF Upto
  <2>. QED BY <2>4, <2>6, <2>7, <1>3
<1>. DEFINE Is(sel) == \A i \in DOMAIN file : Right(sel, i)
            chosen == CHOOSE sel \in SUBSET DOMAIN file : Is(sel)
<1>5. chosen \in SUBSET DOMAIN file /\ Is(chosen)
  <2>1. \E sel \in SUBSET DOMAIN file : Is(sel)
    <3>. HIDE DEF Right
    <3>. QED BY <1>1, <1>4
  <2>. HIDE DEF Is
  <2>. QED BY <2>1
<1>6. Defaults(e, file) = chosen BY DEF Defaults
<1>. HIDE DEF chosen
<1>7. \A i, j \in chosen : j < i => ~Over(i, j)
  <2>. HIDE DEF Free, Over
  <2>. QED BY <1>5
<1>8. \A i, j \in chosen : ~Over(i, j)
  <2>1. SUFFICES ASSUME NEW i \in chosen, NEW j \in chosen, Over(i, j) PROVE FALSE
    <3>. HIDE DEF Over
    <3>. QED OBVIOUS
  <2>2. i # j BY <2>1 DEF Overlap
  <2>3. Over(j, i) BY <2>1 DEF Overlap, ConflictReason
  <2>4. i \in Nat /\ j \in Nat
    <3>. HIDE DEF n
    <3>. QED BY <1>1, <1>5
  <2>5. i < j \/ j < i BY <2>2, <2>4
  <2>. HIDE DEF Over
  <2>. QED BY <2>1, <2>3, <2>5, <1>7
<1>. QED BY <1>5, <1>6, <1>8

----------------------------------------------------------------------------
(* The invariant *)

IsStored(c) ==
    /\ c = [clusters |-> c.clusters, settings |-> c.settings]
    /\ AreClusters(c.clusters)
    /\ c.settings \subseteq Properties \cup ServerCfg
    /\ Around(Settings \cap Properties) \subseteq c.settings
IsForm(f) ==
    /\ f = [had |-> f.had, initialName |-> f.initialName, name |-> f.name,
            addr |-> f.addr, sections |-> f.sections, initial |-> f.initial,
            touches |-> f.touches]
    /\ DOMAIN f.sections = Names
    /\ IsSequence(f.name) /\ IsSequence(f.initialName) /\ IsSequence(f.initial.name)
    /\ f.initialName # <<>> =>
          \E c : c.has = f.had /\ f.initial.sections = getInitialFormData(c)
\* The write under way is of the edit of what was read.
PutOK(o, col) ==
    LET e == FromJSON(o.base).clusters IN
    /\ IsStored(o.base)
    /\ Unique(o.base.clusters) \/ col
    /\ o.kind = "duplicate" => o.target \in NamesOf(e)
    /\ Clash(o, e) => col
    /\ o.body = RestartRequest(FromJSON(o.base), ClustersAfter(o, e))
HasFields(o) ==
    o = [phase |-> o.phase, kind |-> o.kind, target |-> o.target, form |-> o.form,
         preview |-> o.preview, base |-> o.base, body |-> o.body, file |-> o.file,
         chosen |-> o.chosen, reviewed |-> o.reviewed, closed |-> o.closed]
Phases == {"idle", "form", "validate", "confirm", "get", "put",
           "preview", "review", "import"}
OpOK(o, col) ==
    /\ HasFields(o) /\ IsForm(o.form)
    /\ o.phase \in Phases /\ o.kind \in Kinds \cup {""}
    /\ o.phase \in {"confirm", "get", "put"} => IsEdit(o)
    /\ o.phase = "put" => PutOK(o, col)
    /\ o.phase \in {"preview", "review", "import"} => o.file \in Files
    /\ o.phase \in {"review", "import"} =>
          IsStored(o.base) /\ IsChoice(o.base.clusters, o)
EditInv ==
    /\ IsStored(config)
    /\ Unique(config.clusters) \/ collided
    /\ op = [t \in Tabs |-> op[t]]
    /\ \A t \in Tabs : OpOK(op[t], collided)
    /\ ops \in 0..MaxOps /\ faults \in 0..MaxFaults /\ collided \in BOOLEAN

\* A collision stays one.
LEMMA OpOKLater ==
  ASSUME NEW o, NEW a, NEW b, OpOK(o, a), a => b
  PROVE  OpOK(o, b)
BY DEF OpOK, PutOK

\* What a step has to show.
LEMMA StepKeeps ==
  ASSUME EditInv, NEW t \in Tabs, NEW o, op' = [op EXCEPT ![t] = o],
         OpOK(o, collided'), collided => collided', collided' \in BOOLEAN,
         IsStored(config'), Unique(config'.clusters) \/ collided',
         ops' \in 0..MaxOps, faults' \in 0..MaxFaults
  PROVE  EditInv'
<1>1. op = [u \in Tabs |-> op[u]] /\ \A u \in Tabs : OpOK(op[u], collided) BY DEF EditInv
<1>2. op' = [u \in Tabs |-> op'[u]] /\ \A u \in Tabs : op'[u] = IF u = t THEN o ELSE op[u]
  BY <1>1
<1>3. \A u \in Tabs : OpOK(op[u], collided') BY <1>1, OpOKLater
<1>4. \A u \in Tabs : OpOK(op'[u], collided') BY <1>2, <1>3
<1>. QED BY <1>2, <1>4 DEF EditInv

\* A step of one tab alone.
LEMMA MovesKeep ==
  ASSUME EditInv, NEW t \in Tabs, NEW o, Moves(t, o), OpOK(o, collided)
  PROVE  EditInv'
<1>1. /\ op' = [op EXCEPT ![t] = o] /\ config' = config /\ ops' = ops
      /\ faults' = faults /\ collided' = collided
  BY DEF Moves
<1>2. /\ IsStored(config) /\ (Unique(config.clusters) \/ collided) /\ ops \in 0..MaxOps
      /\ faults \in 0..MaxFaults /\ collided \in BOOLEAN
  BY DEF EditInv
<1>. QED BY <1>1, <1>2, StepKeeps

\* A tab starts to work.
LEMMA StartsKeep ==
  ASSUME EditInv, NEW t \in Tabs, NEW o, Starts(t, o), OpOK(o, collided)
  PROVE  EditInv'
<1>1. /\ op' = [op EXCEPT ![t] = o] /\ config' = config /\ ops' = ops + 1
      /\ ops < MaxOps /\ faults' = faults /\ collided' = collided
  BY DEF Starts
<1>2. /\ IsStored(config) /\ (Unique(config.clusters) \/ collided) /\ ops \in 0..MaxOps
      /\ faults \in 0..MaxFaults /\ collided \in BOOLEAN
  BY DEF EditInv
<1>3. ops' \in 0..MaxOps BY <1>1, <1>2, ConfigEditBounds
<1>. QED BY <1>1, <1>2, <1>3, StepKeeps

\* A tab that does nothing.
LEMMA IdleFields ==
  /\ HasFields(Idle) /\ Idle.phase = "idle" /\ Idle.kind = "" /\ Idle.form = NoForm
  /\ IsForm(NoForm) /\ NoForm.initialName = <<>>
<1>1. IsSequence(<<>>)
  <2>1. Len(<<>>) = 0 /\ <<>> = [k \in 1..0 |-> <<>>[k]] OBVIOUS
  <2>. QED BY <2>1 DEF IsSequence
<1>2. IsForm(NoForm) /\ NoForm.initialName = <<>> BY <1>1 DEF NoForm, NewForm, IsForm
<1>. QED BY <1>2 DEF Idle, HasFields

\* It keeps the invariant.
LEMMA IdleOK == \A col : OpOK(Idle, col)
BY IdleFields DEF OpOK, Phases

\* What an assignment to one field leaves.
LEMMA SetPhase ==
  ASSUME NEW r, HasFields(r), NEW v
  PROVE  LET o == [r EXCEPT !.phase = v]
         IN  /\ HasFields(o) /\ o.phase = v
             /\ o.kind = r.kind /\ o.target = r.target /\ o.form = r.form /\ o.preview = r.preview
             /\ o.base = r.base /\ o.body = r.body /\ o.file = r.file /\ o.chosen = r.chosen
             /\ o.reviewed = r.reviewed /\ o.closed = r.closed
BY DEF HasFields

\* The same of the other fields.
LEMMA SetKind ==
  ASSUME NEW r, HasFields(r), NEW v
  PROVE  LET o == [r EXCEPT !.kind = v]
         IN  /\ HasFields(o) /\ o.kind = v
             /\ o.phase = r.phase /\ o.target = r.target /\ o.form = r.form /\ o.preview = r.preview
             /\ o.base = r.base /\ o.body = r.body /\ o.file = r.file /\ o.chosen = r.chosen
             /\ o.reviewed = r.reviewed /\ o.closed = r.closed
BY DEF HasFields

LEMMA SetTarget ==
  ASSUME NEW r, HasFields(r), NEW v
  PROVE  LET o == [r EXCEPT !.target = v]
         IN  /\ HasFields(o) /\ o.target = v
             /\ o.phase = r.phase /\ o.kind = r.kind /\ o.form = r.form /\ o.preview = r.preview
             /\ o.base = r.base /\ o.body = r.body /\ o.file = r.file /\ o.chosen = r.chosen
             /\ o.reviewed = r.reviewed /\ o.closed = r.closed
BY DEF HasFields

LEMMA SetForm ==
  ASSUME NEW r, HasFields(r), NEW v
  PROVE  LET o == [r EXCEPT !.form = v]
         IN  /\ HasFields(o) /\ o.form = v
             /\ o.phase = r.phase /\ o.kind = r.kind /\ o.target = r.target /\ o.preview = r.preview
             /\ o.base = r.base /\ o.body = r.body /\ o.file = r.file /\ o.chosen = r.chosen
             /\ o.reviewed = r.reviewed /\ o.closed = r.closed
BY DEF HasFields

LEMMA SetPreview ==
  ASSUME NEW r, HasFields(r), NEW v
  PROVE  LET o == [r EXCEPT !.preview = v]
         IN  /\ HasFields(o) /\ o.preview = v
             /\ o.phase = r.phase /\ o.kind = r.kind /\ o.target = r.target /\ o.form = r.form
             /\ o.base = r.base /\ o.body = r.body /\ o.file = r.file /\ o.chosen = r.chosen
             /\ o.reviewed = r.reviewed /\ o.closed = r.closed
BY DEF HasFields

LEMMA SetBase ==
  ASSUME NEW r, HasFields(r), NEW v
  PROVE  LET o == [r EXCEPT !.base = v]
         IN  /\ HasFields(o) /\ o.base = v
             /\ o.phase = r.phase /\ o.kind = r.kind /\ o.target = r.target /\ o.form = r.form
             /\ o.preview = r.preview /\ o.body = r.body /\ o.file = r.file /\ o.chosen = r.chosen
             /\ o.reviewed = r.reviewed /\ o.closed = r.closed
BY DEF HasFields

LEMMA SetBody ==
  ASSUME NEW r, HasFields(r), NEW v
  PROVE  LET o == [r EXCEPT !.body = v]
         IN  /\ HasFields(o) /\ o.body = v
             /\ o.phase = r.phase /\ o.kind = r.kind /\ o.target = r.target /\ o.form = r.form
             /\ o.preview = r.preview /\ o.base = r.base /\ o.file = r.file /\ o.chosen = r.chosen
             /\ o.reviewed = r.reviewed /\ o.closed = r.closed
BY DEF HasFields

LEMMA SetFile ==
  ASSUME NEW r, HasFields(r), NEW v
  PROVE  LET o == [r EXCEPT !.file = v]
         IN  /\ HasFields(o) /\ o.file = v
             /\ o.phase = r.phase /\ o.kind = r.kind /\ o.target = r.target /\ o.form = r.form
             /\ o.preview = r.preview /\ o.base = r.base /\ o.body = r.body /\ o.chosen = r.chosen
             /\ o.reviewed = r.reviewed /\ o.closed = r.closed
BY DEF HasFields

LEMMA SetChosen ==
  ASSUME NEW r, HasFields(r), NEW v
  PROVE  LET o == [r EXCEPT !.chosen = v]
         IN  /\ HasFields(o) /\ o.chosen = v
             /\ o.phase = r.phase /\ o.kind = r.kind /\ o.target = r.target /\ o.form = r.form
             /\ o.preview = r.preview /\ o.base = r.base /\ o.body = r.body /\ o.file = r.file
             /\ o.reviewed = r.reviewed /\ o.closed = r.closed
BY DEF HasFields

LEMMA SetReviewed ==
  ASSUME NEW r, HasFields(r), NEW v
  PROVE  LET o == [r EXCEPT !.reviewed = v]
         IN  /\ HasFields(o) /\ o.reviewed = v
             /\ o.phase = r.phase /\ o.kind = r.kind /\ o.target = r.target /\ o.form = r.form
             /\ o.preview = r.preview /\ o.base = r.base /\ o.body = r.body /\ o.file = r.file
             /\ o.chosen = r.chosen /\ o.closed = r.closed
BY DEF HasFields

LEMMA SetClosed ==
  ASSUME NEW r, HasFields(r), NEW v
  PROVE  LET o == [r EXCEPT !.closed = v]
         IN  /\ HasFields(o) /\ o.closed = v
             /\ o.phase = r.phase /\ o.kind = r.kind /\ o.target = r.target /\ o.form = r.form
             /\ o.preview = r.preview /\ o.base = r.base /\ o.body = r.body /\ o.file = r.file
             /\ o.chosen = r.chosen /\ o.reviewed = r.reviewed
BY DEF HasFields

\* A tab that shows a form.
LEMMA FormShown ==
  ASSUME NEW f, IsForm(f), NEW col
  PROVE  OpOK([Idle EXCEPT !.phase = "form", !.form = f], col)
<1>. DEFINE o == [Idle EXCEPT !.phase = "form", !.form = f]
<1>. DEFINE a == [Idle EXCEPT !.phase = "form"]
            b == [a EXCEPT !.form = f]
<1>0. HasFields(a) /\ a.phase = "form" /\ a.kind = "" BY IdleFields, SetPhase
<1>. HIDE DEF a
<1>1. HasFields(b) /\ b.phase = "form" /\ b.kind = "" /\ b.form = f BY <1>0, SetForm
<1>1a. o = b BY DEF a
<1>. HIDE DEF o, b
<1>2. OpOK(o, col) BY <1>1, <1>1a DEF OpOK, Phases
<1>. QED BY <1>2 DEF o

\* The form of a stored cluster.
LEMMA NewFormIsForm ==
  ASSUME NEW n, IsSequence(n), NEW a, NEW c, n = c.name
  PROVE  IsForm(NewForm(n, n, a, getInitialFormData(c), c.has))
<1>1. DOMAIN getInitialFormData(c) = Names BY DEF getInitialFormData
<1>. DEFINE g == getInitialFormData(c)
            f == NewForm(n, n, a, g, c.has)
<1>2. g = getInitialFormData(c) OBVIOUS
<1>. HIDE DEF g
<1>3. /\ f = [had |-> c.has, initialName |-> n, name |-> n, addr |-> a, sections |-> g,
              initial |-> [name |-> n, addr |-> a, sections |-> g], touches |-> 0]
  BY DEF NewForm
<1>. HIDE DEF f
<1>4. f.had = c.has /\ f.initial.sections = g /\ f.initial.name = n BY <1>3
<1>5. \E d : d.has = f.had /\ f.initial.sections = getInitialFormData(d) BY <1>2, <1>4
<1>6. IsForm(f) BY <1>1, <1>2, <1>3, <1>4, <1>5 DEF IsForm
<1>. QED BY <1>6 DEF f, g

----------------------------------------------------------------------------
(* What the user does keeps the invariant *)

\* What holds of every tab.
LEMMA OfTab ==
  ASSUME EditInv, NEW t \in Tabs
  PROVE  /\ OpOK(op[t], collided) /\ HasFields(op[t]) /\ IsForm(op[t].form)
         /\ op[t].kind \in Kinds \cup {""}
BY DEF EditInv, OpOK

\* A change of the form.
LEMMA EditFormKeeps ==
  ASSUME EditInv, NEW t \in Tabs, NEW form, IsForm(form), EditForm(t, form)
  PROVE  EditInv'
<1>. DEFINE o == op[t]
            n == [o EXCEPT !.form = form]
<1>1. o.phase = "form" /\ Moves(t, n) BY DEF EditForm
<1>2. HasFields(o) /\ o.kind \in Kinds \cup {""} BY OfTab
<1>. HIDE DEF o
<1>3. HasFields(n) /\ n.form = form /\ n.phase = "form" /\ n.kind = o.kind
  BY <1>1, <1>2, SetForm
<1>. HIDE DEF n
<1>4. OpOK(n, collided) BY <1>2, <1>3 DEF OpOK, Phases
<1>. QED BY <1>1, <1>4, MovesKeep

\* The name is typed.
LEMMA TypedKeep ==
  ASSUME EditInv, NEW t \in Tabs, NEW n \in TypedNames, TypeName(t, n)
  PROVE  EditInv'
<1>. DEFINE f == op[t].form
            g == [f EXCEPT !.name = n]
<1>1. EditForm(t, g) BY DEF TypeName
<1>2. IsForm(f) /\ IsSequence(n) BY OfTab, ConfigEditInputs
<1>. HIDE DEF f
<1>3. IsForm(g) BY <1>2 DEF IsForm
<1>. HIDE DEF g
<1>. QED BY <1>1, <1>3, EditFormKeeps

\* The bootstrap servers are typed.
LEMMA AddrTypedKeeps ==
  ASSUME EditInv, NEW t \in Tabs, NEW a, TypeAddr(t, a)
  PROVE  EditInv'
<1>. DEFINE f == op[t].form
            g == [f EXCEPT !.addr = a]
<1>1. EditForm(t, g) BY DEF TypeAddr
<1>2. IsForm(f) BY OfTab
<1>. HIDE DEF f
<1>3. IsForm(g) BY <1>2 DEF IsForm
<1>. HIDE DEF g
<1>. QED BY <1>1, <1>3, EditFormKeeps

\* A section is opened, filled in or removed.
LEMMA TouchKeeps ==
  ASSUME EditInv, NEW t \in Tabs, NEW s, NEW v, Touch(t, s, v)
  PROVE  EditInv'
<1>. DEFINE f == op[t].form
            g == [f EXCEPT !.sections[s] = v]
            h == [g EXCEPT !.touches = @ + 1]
<1>1. EditForm(t, h) BY DEF Touch
<1>2. IsForm(f) BY OfTab
<1>. HIDE DEF f
<1>3. IsForm(g)
  <2>. DEFINE secs == [f.sections EXCEPT ![s] = v]
  <2>1. DOMAIN secs = Names BY <1>2 DEF IsForm
  <2>2. g = [f EXCEPT !.sections = secs] OBVIOUS
  <2>. HIDE DEF secs, g
  <2>. QED BY <1>2, <2>1, <2>2 DEF IsForm
<1>. HIDE DEF g
<1>4. IsForm(h) BY <1>3 DEF IsForm
<1>. HIDE DEF h
<1>. QED BY <1>1, <1>4, EditFormKeeps

\* The form is reset.
LEMMA ResetKeeps ==
  ASSUME EditInv, NEW t \in Tabs, OnReset(t)
  PROVE  EditInv'
<1>. DEFINE f == op[t].form
            back == [s \in Names |->
                       [f.initial.sections[s] EXCEPT !.open =
                           IF AlwaysOpen(s) THEN @ ELSE f.sections[s].open]]
            g == [f EXCEPT !.name = f.initial.name]
            h == [g EXCEPT !.addr = f.initial.addr]
            k == [h EXCEPT !.sections = back]
<1>1. EditForm(t, k) BY DEF OnReset
<1>2. IsForm(f) BY OfTab
<1>3. DOMAIN back = Names OBVIOUS
<1>. HIDE DEF f, back
<1>4. IsForm(g) BY <1>2 DEF IsForm
<1>. HIDE DEF g
<1>5. IsForm(h) BY <1>4 DEF IsForm
<1>. HIDE DEF h
<1>6. IsForm(k) BY <1>3, <1>5 DEF IsForm
<1>. HIDE DEF k
<1>. QED BY <1>1, <1>6, EditFormKeeps

\* A tab gives up what it did.
LEMMA ToIdleKeeps ==
  ASSUME EditInv, NEW t \in Tabs, Moves(t, Idle)
  PROVE  EditInv'
BY IdleOK, MovesKeep

\* A change of phase alone.
LEMMA PhaseKeeps ==
  ASSUME EditInv, NEW t \in Tabs, NEW p, Moves(t, [op[t] EXCEPT !.phase = p]),
         p \in {"form", "validate"} \/ (p = "get" /\ op[t].phase = "confirm")
  PROVE  EditInv'
<1>. DEFINE o == op[t]
            n == [o EXCEPT !.phase = p]
<1>1. HasFields(o) /\ OpOK(o, collided) BY OfTab
<1>. HIDE DEF o
<1>2. /\ HasFields(n) /\ n.phase = p
      /\ n.kind = o.kind /\ n.target = o.target /\ n.form = o.form
  BY <1>1, SetPhase
<1>. HIDE DEF n
<1>3. OpOK(n, collided)
  <2>1. p \in Phases /\ p \in {"form", "validate", "get"} BY DEF Phases
  <2>2. p = "get" => IsEdit(n) BY <1>1, <1>2 DEF OpOK, IsEdit, o
  <2>. QED BY <1>1, <1>2, <2>1, <2>2 DEF OpOK
<1>. QED BY <1>3, MovesKeep DEF n, o

\* The form is submitted.
LEMMA SubmitKeeps ==
  ASSUME EditInv, NEW t \in Tabs, OnSubmit(t)
  PROVE  EditInv'
<1>. DEFINE o == op[t]
            f == o.form
            kind == IF f.initialName = <<>> THEN "add" ELSE "edit"
            a == [o EXCEPT !.phase = "get"]
            b == [a EXCEPT !.target = f.initialName]
            n == [b EXCEPT !.kind = kind]
<1>1. /\ Moves(t, n) /\ formSchema(f.sections) /\ f.name # <<>>
  BY DEF OnSubmit
<1>2. HasFields(o) /\ IsForm(o.form) BY OfTab
<1>. HIDE DEF o
<1>3. HasFields(a) /\ a.phase = "get" /\ a.form = o.form BY <1>2, SetPhase
<1>. HIDE DEF a
<1>4. HasFields(b) /\ b.phase = "get" /\ b.form = o.form /\ b.target = f.initialName
  BY <1>3, SetTarget
<1>. HIDE DEF b
<1>5. /\ HasFields(n) /\ n.phase = "get" /\ n.form = f /\ n.target = f.initialName
      /\ n.kind = kind
  BY <1>4, SetKind
<1>. HIDE DEF n
<1>6. IsEdit(n)
  <2>1. IsSequence(f.name) /\ IsSequence(f.initialName) BY <1>2 DEF IsForm
  <2>. HIDE DEF f
  <2>. QED BY <1>1, <1>5, <2>1 DEF IsEdit, IsName, Kinds
<1>7. OpOK(n, collided)
  <2>1. IsForm(f) BY <1>2
  <2>. HIDE DEF f
  <2>. QED BY <1>5, <1>6, <2>1 DEF OpOK, Phases, Kinds
<1>. QED BY <1>1, <1>7, MovesKeep

\* The cluster of the form is removed.
LEMMA ConfirmDeleteKeeps ==
  ASSUME EditInv, NEW t \in Tabs, ConfirmClusterDelete(t)
  PROVE  EditInv'
<1>. DEFINE o == op[t]
            a == [o EXCEPT !.phase = "get"]
            b == [a EXCEPT !.kind = "remove"]
            n == [b EXCEPT !.target = o.form.initialName]
<1>1. Moves(t, n) /\ o.form.initialName # <<>> BY DEF ConfirmClusterDelete
<1>2. HasFields(o) /\ IsForm(o.form) BY OfTab
<1>. HIDE DEF o
<1>3. HasFields(a) /\ a.phase = "get" /\ a.form = o.form BY <1>2, SetPhase
<1>. HIDE DEF a
<1>4. HasFields(b) /\ b.phase = "get" /\ b.form = o.form /\ b.kind = "remove"
  BY <1>3, SetKind
<1>. HIDE DEF b
<1>5. /\ HasFields(n) /\ n.phase = "get" /\ n.form = o.form
      /\ n.target = o.form.initialName /\ n.kind = "remove"
  BY <1>4, SetTarget
<1>. HIDE DEF n
<1>6. IsEdit(n)
  <2>1. IsName(o.form.initialName) BY <1>1, <1>2 DEF IsForm, IsName
  <2>. QED BY <1>5, <2>1 DEF IsEdit, Kinds
<1>7. OpOK(n, collided) BY <1>2, <1>5, <1>6 DEF OpOK, Phases, Kinds
<1>. QED BY <1>1, <1>7, MovesKeep

\* The dialog of a row's control.
LEMMA DialogOK ==
  ASSUME NEW k \in {"duplicate", "delete"}, NEW n, IsName(n), NEW p, NEW col
  PROVE  /\ OpOK([Idle EXCEPT !.phase = "confirm", !.kind = k, !.target = n], col)
         /\ OpOK([Idle EXCEPT !.phase = "confirm", !.kind = k, !.target = n, !.preview = p], col)
<1>. DEFINE a == [Idle EXCEPT !.phase = "confirm"]
            b == [a EXCEPT !.kind = k]
            c == [b EXCEPT !.target = n]
            d == [c EXCEPT !.preview = p]
<1>1. HasFields(a) /\ a.phase = "confirm" /\ a.form = NoForm BY IdleFields, SetPhase
<1>. HIDE DEF a
<1>2. HasFields(b) /\ b.phase = "confirm" /\ b.form = NoForm /\ b.kind = k BY <1>1, SetKind
<1>. HIDE DEF b
<1>3. /\ HasFields(c) /\ c.phase = "confirm" /\ c.form = NoForm
      /\ c.kind = k /\ c.target = n
  BY <1>2, SetTarget
<1>. HIDE DEF c
<1>4. /\ HasFields(d) /\ d.phase = "confirm" /\ d.form = NoForm
      /\ d.kind = k /\ d.target = n
  BY <1>3, SetPreview
<1>. HIDE DEF d
<1>5. IsEdit(c) /\ IsEdit(d) BY <1>3, <1>4 DEF IsEdit, Kinds
<1>6. OpOK(c, col) BY <1>3, <1>5, IdleFields DEF OpOK, Phases, Kinds
<1>7. OpOK(d, col) BY <1>4, <1>5, IdleFields DEF OpOK, Phases, Kinds
<1>. QED BY <1>6, <1>7 DEF d, c, b, a

\* The controls of a row.
LEMMA DialogKeeps ==
  ASSUME EditInv, NEW t \in Tabs, HandleDuplicate(t) \/ HandleDelete(t)
  PROVE  EditInv'
<1>1. \A n \in NamesOf(config.clusters) : IsName(n)
  BY ClusterFacts DEF EditInv, IsStored
<1>2. CASE HandleDuplicate(t)
  <2>1. PICK n \in NamesOf(config.clusters) :
           Starts(t, [Idle EXCEPT !.phase = "confirm", !.kind = "duplicate", !.target = n,
                         !.preview = nextDuplicateName(n, NamesOf(config.clusters))])
    BY <1>2 DEF HandleDuplicate
  <2>. QED BY <1>1, <2>1, DialogOK, StartsKeep
<1>3. CASE HandleDelete(t)
  <2>1. PICK n \in NamesOf(config.clusters) :
           Starts(t, [Idle EXCEPT !.phase = "confirm", !.kind = "delete", !.target = n])
    BY <1>3 DEF HandleDelete
  <2>. QED BY <1>1, <2>1, DialogOK, StartsKeep
<1>. QED BY <1>2, <1>3

\* The pages of clusters.
LEMMA PageKeeps ==
  ASSUME EditInv, NEW t \in Tabs, ClusterConfigPage(t) \/ NewClusterPage(t)
  PROVE  EditInv'
<1>1. CASE ClusterConfigPage(t)
  <2>. DEFINE e == FromJSON(config).clusters
  <2>1. PICK i \in DOMAIN config.clusters :
           Starts(t, [Idle EXCEPT !.phase = "form",
                        !.form = NewForm(e[i].name, e[i].name, e[i].addr,
                                         getInitialFormData(e[i]), e[i].has)])
    BY <1>1 DEF ClusterConfigPage
  <2>2. IsSequence(e[i].name)
    <3>1. AreClusters(config.clusters) BY DEF EditInv, IsStored
    <3>2. AreClusters(e) /\ DOMAIN e = DOMAIN config.clusters BY <3>1, ReadClusters
    <3>. HIDE DEF e
    <3>3. IsCluster(e[i]) BY <3>2, ClusterFacts
    <3>. QED BY <3>3 DEF IsCluster, IsName
  <2>. DEFINE f == NewForm(e[i].name, e[i].name, e[i].addr, getInitialFormData(e[i]), e[i].has)
  <2>3. IsForm(f)
    <3>. HIDE DEF e
    <3>. QED BY <2>2, NewFormIsForm
  <2>. HIDE DEF f
  <2>4. OpOK([Idle EXCEPT !.phase = "form", !.form = f], collided) BY <2>3, FormShown
  <2>. QED BY <2>1, <2>4, StartsKeep DEF f
<1>2. CASE NewClusterPage(t)
  <2>. DEFINE n == [Idle EXCEPT !.phase = "form"]
  <2>1. Starts(t, n) BY <1>2 DEF NewClusterPage
  <2>2. HasFields(n) /\ n.phase = "form" /\ n.kind = "" /\ n.form = NoForm
    BY IdleFields, SetPhase
  <2>. HIDE DEF n
  <2>3. OpOK(n, collided) BY <2>2, IdleFields DEF OpOK, Phases
  <2>. QED BY <2>1, <2>3, StartsKeep
<1>. QED BY <1>1, <1>2

\* The entries of a file have different names.
LEMMA FilesAre ==
  \A f \in Files : AreClusters(f) /\ Unique(f)
BY ConfigEditInputs

\* A file is chosen.
LEMMA ChooseFileKeeps ==
  ASSUME EditInv, NEW t \in Tabs, NEW f \in Files, ChooseFile(t, f)
  PROVE  EditInv'
<1>. DEFINE a == [Idle EXCEPT !.phase = "preview"]
            n == [a EXCEPT !.file = f]
<1>1. Starts(t, n) BY DEF ChooseFile
<1>2. HasFields(a) /\ a.phase = "preview" /\ a.kind = "" /\ a.form = NoForm
  BY IdleFields, SetPhase
<1>. HIDE DEF a
<1>3. HasFields(n) /\ n.phase = "preview" /\ n.kind = "" /\ n.form = NoForm /\ n.file = f
  BY <1>2, SetFile
<1>. HIDE DEF n
<1>4. OpOK(n, collided) BY <1>3, IdleFields DEF OpOK, Phases
<1>. QED BY <1>1, <1>4, StartsKeep

\* A tab that has a choice to review or to import.
LEMMA ChoiceOK ==
  ASSUME NEW n, HasFields(n), IsForm(n.form), n.kind \in Kinds \cup {""},
         n.phase \in {"review", "import"}, n.file \in Files, IsStored(n.base),
         IsChoice(n.base.clusters, n), NEW col
  PROVE  OpOK(n, col)
BY DEF OpOK, Phases

\* The preview of a file.
LEMMA PreviewKeeps ==
  ASSUME EditInv, NEW t \in Tabs, Preview(t)
  PROVE  EditInv'
<1>. DEFINE o == op[t]
            plain == \A i \in DOMAIN o.file :
                        /\ Conflicts(config.clusters, o.file[i]) = {}
                        /\ \A j \in DOMAIN o.file : ~Overlap(config.clusters, o.file, i, j)
            a == [o EXCEPT !.base = config]
            b == [a EXCEPT !.phase = "import"]
            c == [b EXCEPT !.chosen = DOMAIN o.file]
            d == [a EXCEPT !.phase = "review"]
            e == [d EXCEPT !.reviewed = TRUE]
            g == [e EXCEPT !.chosen = Defaults(config.clusters, o.file)]
<1>1. Moves(t, IF plain THEN c ELSE g) /\ o.phase = "preview" BY DEF Preview
<1>0. HasFields(o) BY OfTab
<1>2. IsForm(o.form) /\ o.kind \in Kinds \cup {""} BY OfTab
<1>3. o.file \in Files BY <1>1, OfTab DEF OpOK
<1>4. IsStored(config) BY DEF EditInv
<1>. HIDE DEF o, plain
<1>5. /\ HasFields(a) /\ a.base = config /\ a.form = o.form /\ a.kind = o.kind
      /\ a.file = o.file
  BY <1>0, SetBase
<1>. HIDE DEF a
<1>6. CASE plain
  <2>1. /\ HasFields(b) /\ b.base = config /\ b.form = o.form /\ b.kind = o.kind
        /\ b.file = o.file /\ b.phase = "import"
    BY <1>5, SetPhase
  <2>. HIDE DEF b
  <2>2. /\ HasFields(c) /\ c.base = config /\ c.form = o.form /\ c.kind = o.kind
        /\ c.file = o.file /\ c.phase = "import" /\ c.chosen = DOMAIN o.file
    BY <2>1, SetChosen
  <2>. HIDE DEF c
  <2>3. IsChoice(c.base.clusters, c) BY <1>6, <2>2 DEF IsChoice, plain
  <2>4. OpOK(c, collided) BY <1>2, <1>3, <1>4, <2>2, <2>3, ChoiceOK
  <2>. QED BY <1>1, <1>6, <2>4, MovesKeep
<1>7. CASE ~plain
  <2>. DEFINE sel == Defaults(config.clusters, o.file)
  <2>. HIDE DEF sel
  <2>1. /\ HasFields(d) /\ d.base = config /\ d.form = o.form /\ d.kind = o.kind
        /\ d.file = o.file /\ d.phase = "review"
    BY <1>5, SetPhase
  <2>. HIDE DEF d
  <2>2. /\ HasFields(e) /\ e.base = config /\ e.form = o.form /\ e.kind = o.kind
        /\ e.file = o.file /\ e.phase = "review"
    BY <2>1, SetReviewed
  <2>. HIDE DEF e
  <2>3. g = [e EXCEPT !.chosen = sel] BY DEF sel
  <2>. HIDE DEF g
  <2>4. /\ HasFields(g) /\ g.base = config /\ g.form = o.form /\ g.kind = o.kind
        /\ g.file = o.file /\ g.phase = "review" /\ g.chosen = sel
    BY <2>2, <2>3, SetChosen
  <2>5. sel \subseteq DOMAIN o.file
        /\ \A i, j \in sel : ~Overlap(config.clusters, o.file, i, j)
    BY <1>3, FilesAre, DefaultsExist DEF sel
  <2>6. IsChoice(g.base.clusters, g) BY <2>4, <2>5 DEF IsChoice
  <2>7. OpOK(g, collided) BY <1>2, <1>3, <1>4, <2>4, <2>6, ChoiceOK
  <2>. QED BY <1>1, <1>7, <2>7, MovesKeep
<1>. QED BY <1>6, <1>7

\* What holds of a review.
LEMMA OfReview ==
  ASSUME EditInv, NEW t \in Tabs, op[t].phase \in {"review", "import"}
  PROVE  /\ op[t].file \in Files /\ IsStored(op[t].base)
         /\ IsChoice(op[t].base.clusters, op[t])
BY OfTab DEF OpOK

\* An entry is ticked or unticked.
LEMMA ChooseKeeps ==
  ASSUME EditInv, NEW t \in Tabs, NEW i, Choose(t, i)
  PROVE  EditInv'
<1>. DEFINE o == op[t]
            e == o.base.clusters
            sel == IF i \in o.chosen THEN o.chosen \ {i} ELSE Tick(o, i)
            n == [o EXCEPT !.chosen = sel]
<1>1. Moves(t, n) /\ o.phase = "review" /\ i \in DOMAIN o.file BY DEF Choose
<1>0. HasFields(o) BY OfTab
<1>2. IsForm(o.form) /\ o.kind \in Kinds \cup {""} BY OfTab
<1>3. o.file \in Files /\ IsStored(o.base) /\ IsChoice(e, o) BY <1>1, OfReview
<1>. HIDE DEF o
<1>4. sel \subseteq DOMAIN o.file /\ \A j, k \in sel : ~Overlap(e, o.file, j, k)
  <2>1. CASE i \in o.chosen BY <2>1, <1>3 DEF IsChoice
  <2>2. CASE i \notin o.chosen
    <3>1. sel = {j \in o.chosen : ~Overlap(e, o.file, i, j)} \cup {i} BY <2>2 DEF Tick
    <3>2. \A j, k : Overlap(e, o.file, j, k) => Overlap(e, o.file, k, j)
      BY DEF Overlap, ConflictReason
    <3>3. ~Overlap(e, o.file, i, i) BY DEF Overlap
    <3>. HIDE DEF sel
    <3>. QED BY <3>1, <3>2, <3>3, <1>1, <1>3 DEF IsChoice
  <2>. QED BY <2>1, <2>2
<1>. HIDE DEF sel
<1>5. /\ HasFields(n) /\ n.chosen = sel /\ n.phase = "review" /\ n.form = o.form
      /\ n.kind = o.kind /\ n.file = o.file /\ n.base = o.base
  BY <1>1, <1>0, SetChosen
<1>. HIDE DEF n
<1>6. IsChoice(n.base.clusters, n) BY <1>4, <1>5 DEF IsChoice
<1>7. OpOK(n, collided) BY <1>2, <1>3, <1>5, <1>6, ChoiceOK
<1>. QED BY <1>1, <1>7, MovesKeep

\* From a review to the import of what it chose, and back after an error.
LEMMA ChoicePhaseOK ==
  ASSUME EditInv, NEW t \in Tabs, op[t].phase \in {"review", "import"},
         NEW p \in {"review", "import"}
  PROVE  OpOK([op[t] EXCEPT !.phase = p], collided)
<1>. DEFINE o == op[t]
            n == [o EXCEPT !.phase = p]
<1>1. /\ HasFields(o) /\ IsForm(o.form) /\ o.kind \in Kinds \cup {""}
      /\ o.file \in Files /\ IsStored(o.base) /\ IsChoice(o.base.clusters, o)
  BY OfTab, OfReview
<1>. HIDE DEF o
<1>2. /\ HasFields(n) /\ n.chosen = o.chosen /\ n.phase = p /\ n.form = o.form
      /\ n.kind = o.kind /\ n.file = o.file /\ n.base = o.base
  BY <1>1, SetPhase
<1>. HIDE DEF n
<1>3. IsChoice(n.base.clusters, n) BY <1>1, <1>2 DEF IsChoice
<1>4. OpOK(n, collided) BY <1>1, <1>2, <1>3, ChoiceOK
<1>. QED BY <1>4 DEF n, o

\* The settings are closed.
LEMMA CloseKeeps ==
  ASSUME EditInv, NEW t \in Tabs, CloseSettings(t)
  PROVE  EditInv'
<1>1. CASE Moves(t, Idle) BY <1>1, ToIdleKeeps
<1>2. CASE op[t].phase = "import" /\ Moves(t, [op[t] EXCEPT !.closed = TRUE])
  <2>. DEFINE o == op[t]
              n == [o EXCEPT !.closed = TRUE]
  <2>1. /\ HasFields(o) /\ IsForm(o.form) /\ o.kind \in Kinds \cup {""}
        /\ o.file \in Files /\ IsStored(o.base) /\ IsChoice(o.base.clusters, o)
        /\ o.phase = "import"
    BY <1>2, OfTab, OfReview
  <2>. HIDE DEF o
  <2>2. /\ HasFields(n) /\ n.chosen = o.chosen /\ n.phase = "import" /\ n.form = o.form
        /\ n.kind = o.kind /\ n.file = o.file /\ n.base = o.base
    BY <2>1, SetClosed
  <2>. HIDE DEF n
  <2>3. IsChoice(n.base.clusters, n) BY <2>1, <2>2 DEF IsChoice
  <2>4. OpOK(n, collided) BY <2>1, <2>2, <2>3, ChoiceOK
  <2>. QED BY <1>2, <2>4, MovesKeep DEF n, o
<1>. QED BY <1>1, <1>2 DEF CloseSettings

----------------------------------------------------------------------------
(* What the server answers keeps the invariant *)

\* What is read keeps the settings the client knows.
LEMMA AroundKept ==
  ASSUME NEW c, IsStored(c)
  PROVE  LET kept == Around(FromJSON(c).settings)
         IN  /\ kept \subseteq Properties
             /\ Around(Settings \cap Properties) \subseteq kept
<1>1. FromJSON(c).settings = c.settings \cap Properties BY DEF FromJSON
<1>2. Around(Settings \cap Properties) \subseteq c.settings BY DEF IsStored
<1>. QED BY <1>1, <1>2 DEF Around

\* What a tab is about to write.
LEMMA BodyIs ==
  ASSUME NEW o, NEW col, OpOK(o, col), o.phase = "put"
  PROVE  LET e == FromJSON(o.base).clusters
         IN  /\ IsStored(o.body) /\ (Unique(o.body.clusters) \/ col)
             /\ IsStored(o.base) /\ IsEdit(o) /\ AreClusters(e)
             /\ o.body.clusters = ClustersAfter(o, e)
             /\ AfterIs(o, e, o.body.clusters)
             /\ Clash(o, e) => col
<1>. DEFINE e == FromJSON(o.base).clusters
            s == ClustersAfter(o, e)
            kept == Around(FromJSON(o.base).settings)
<1>1. /\ IsEdit(o) /\ IsStored(o.base) /\ (Unique(o.base.clusters) \/ col)
      /\ o.kind = "duplicate" => o.target \in NamesOf(e)
  BY DEF OpOK, PutOK
<1>2. (o.kind = "duplicate" => o.target \in NamesOf(e)) /\ (Clash(o, e) => col)
      /\ o.body = [settings |-> kept, clusters |-> s]
  BY DEF OpOK, PutOK, RestartRequest
<1>3. AreClusters(o.base.clusters) BY <1>1 DEF IsStored
<1>4. AreClusters(e) /\ (Unique(o.base.clusters) => Unique(e)) BY <1>3, ReadClusters
<1>5. kept \subseteq Properties /\ Around(Settings \cap Properties) \subseteq kept
  BY <1>1, AroundKept
<1>. HIDE DEF e, kept
<1>6. AfterIs(o, e, s) BY <1>1, <1>2, <1>4, AfterAnyEdit
<1>. HIDE DEF s
<1>7. AreClusters(s) /\ (Unique(e) /\ ~Clash(o, e) => Unique(s)) BY <1>6 DEF AfterIs
<1>8. o.body.clusters = s /\ o.body.settings = kept BY <1>2
<1>9. IsStored(o.body) BY <1>2, <1>5, <1>7, <1>8 DEF IsStored
<1>10. Unique(o.body.clusters) \/ col BY <1>1, <1>2, <1>4, <1>7, <1>8
<1>. QED BY <1>1, <1>2, <1>4, <1>6, <1>8, <1>9, <1>10 DEF e, s

\* What an import stores.
LEMMA ImportStores ==
  ASSUME EditInv, NEW t \in Tabs, op[t].phase = "import", Unchanged(op[t]),
         NEW c, c = [config EXCEPT !.clusters = MergeImported(@, op[t])]
  PROVE  /\ IsStored(c) /\ (Unique(c.clusters) \/ collided)
         /\ c.settings = config.settings
         /\ Range(c.clusters) =
              {x \in Range(config.clusters) : x.name \notin Replaced(config.clusters, op[t])}
              \cup {op[t].file[i] : i \in op[t].chosen}
<1>. DEFINE m == MergeImported(config.clusters, op[t])
<1>1. IsStored(config) /\ (Unique(config.clusters) \/ collided) BY DEF EditInv
<1>2. op[t].base = config BY DEF Unchanged
<1>3. IsChoice(config.clusters, op[t]) /\ op[t].file \in Files BY <1>2, OfReview
<1>4. AreClusters(config.clusters) /\ AreClusters(op[t].file) /\ Unique(op[t].file)
  BY <1>1, <1>3, FilesAre DEF IsStored
<1>5. /\ AreClusters(m)
      /\ Range(m) =
           {x \in Range(config.clusters) : x.name \notin Replaced(config.clusters, op[t])}
           \cup {op[t].file[i] : i \in op[t].chosen}
      /\ (Unique(config.clusters) => Unique(m))
  BY <1>3, <1>4, Merged
<1>6. c = [config EXCEPT !.clusters = m] OBVIOUS
<1>. HIDE DEF m
<1>7. c = [clusters |-> m, settings |-> config.settings] BY <1>1, <1>6 DEF IsStored
<1>8. c.clusters = m /\ c.settings = config.settings BY <1>7
<1>9. IsStored(c) BY <1>1, <1>5, <1>7, <1>8 DEF IsStored
<1>. QED BY <1>1, <1>5, <1>8, <1>9

\* The configuration has been read.
LEMMA ReadKeeps ==
  ASSUME EditInv, NEW t \in Tabs, GetCurrentConfig(t)
  PROVE  EditInv'
<1>. DEFINE o == op[t]
            read == FromJSON(config)
            e == read.clusters
            body == RestartRequest(read, ClustersAfter(o, e))
            a == [o EXCEPT !.phase = "put"]
            b == [a EXCEPT !.base = config]
            n == [b EXCEPT !.body = body]
            clash == /\ o.kind \in {"add", "edit"} /\ o.form.name # o.target
                     /\ o.form.name \in NamesOf(e)
<1>1. o.phase = "get" BY DEF GetCurrentConfig
<1>2. CASE Moves(t, AfterError(o))
  <2>1. OpOK(AfterError(o), collided)
    <3>1. IsForm(o.form) BY OfTab
    <3>. HIDE DEF o
    <3>. QED BY <3>1, IdleOK, FormShown DEF AfterError
  <2>. QED BY <1>2, <2>1, MovesKeep
<1>3. CASE /\ o.kind = "duplicate" => o.target \in NamesOf(e)
           /\ op' = [op EXCEPT ![t] = n]
           /\ collided' = (collided \/ clash)
           /\ UNCHANGED <<config, ops, faults>>
  <2>0. HasFields(o) BY OfTab
  <2>1. IsForm(o.form) /\ o.kind \in Kinds \cup {""} /\ IsEdit(o)
    BY <1>1, OfTab DEF OpOK
  <2>2. /\ IsStored(config) /\ (Unique(config.clusters) \/ collided) /\ collided \in BOOLEAN
        /\ ops \in 0..MaxOps /\ faults \in 0..MaxFaults
    BY DEF EditInv
  <2>3. Clash(o, e) <=> clash BY DEF Clash
  <2>. HIDE DEF o, e, read, body, clash
  <2>4. HasFields(a) /\ a.phase = "put" /\ a.kind = o.kind /\ a.target = o.target /\ a.form = o.form
    BY <2>0, SetPhase
  <2>. HIDE DEF a
  <2>5. /\ HasFields(b) /\ b.phase = "put" /\ b.kind = o.kind /\ b.target = o.target
        /\ b.form = o.form /\ b.base = config
    BY <2>4, SetBase
  <2>. HIDE DEF b
  <2>6. /\ HasFields(n) /\ n.phase = "put" /\ n.kind = o.kind /\ n.target = o.target
        /\ n.form = o.form /\ n.base = config /\ n.body = body
    BY <2>5, SetBody
  <2>. HIDE DEF n
  <2>7. IsEdit(n) BY <2>1, <2>6 DEF IsEdit
  <2>8. ClustersAfter(n, e) = ClustersAfter(o, e)
    BY <2>6 DEF ClustersAfter, CopyName
  <2>9. Clash(n, e) <=> clash BY <2>3, <2>6 DEF Clash
  <2>10. body = RestartRequest(FromJSON(config), ClustersAfter(n, e)) /\ e = FromJSON(config).clusters
    BY <2>8 DEF body, e, read
  <2>11. PutOK(n, collided')
    BY <1>3, <2>2, <2>6, <2>9, <2>10 DEF PutOK
  <2>12. OpOK(n, collided') BY <2>1, <2>6, <2>7, <2>11 DEF OpOK, Phases
  <2>13. (collided => collided') /\ collided' \in BOOLEAN /\ config' = config
         /\ ops' = ops /\ faults' = faults
    BY <1>3, <2>2
  <2>. QED BY <1>3, <2>2, <2>12, <2>13, StepKeeps
<1>. QED BY <1>2, <1>3 DEF GetCurrentConfig

\* The configuration is written.
LEMMA WriteKeeps ==
  ASSUME EditInv, NEW t \in Tabs, RestartWithConfig(t)
  PROVE  EditInv'
<1>1. /\ op[t].phase = "put" /\ config' = op[t].body /\ op' = [op EXCEPT ![t] = Idle]
      /\ ops' = ops /\ faults' = faults /\ collided' = collided
  BY DEF RestartWithConfig
<1>2. OpOK(op[t], collided) BY OfTab
<1>3. IsStored(op[t].body) /\ (Unique(op[t].body.clusters) \/ collided)
  BY <1>1, <1>2, BodyIs
<1>4. ops \in 0..MaxOps /\ faults \in 0..MaxFaults /\ collided \in BOOLEAN BY DEF EditInv
<1>. QED BY <1>1, <1>3, <1>4, IdleOK, StepKeeps

\* The import is carried out or refused.
LEMMA ImportKeeps ==
  ASSUME EditInv, NEW t \in Tabs, Import(t)
  PROVE  EditInv'
<1>1. CASE Moves(t, Idle) BY <1>1, ToIdleKeeps
<1>2. CASE /\ op[t].phase = "import" /\ Unchanged(op[t])
           /\ config' = [config EXCEPT !.clusters = MergeImported(@, op[t])]
           /\ op' = [op EXCEPT ![t] = Idle]
           /\ UNCHANGED <<ops, faults, collided>>
  <2>1. IsStored(config') /\ (Unique(config'.clusters) \/ collided) BY <1>2, ImportStores
  <2>2. ops \in 0..MaxOps /\ faults \in 0..MaxFaults /\ collided \in BOOLEAN BY DEF EditInv
  <2>. QED BY <1>2, <2>1, <2>2, IdleOK, StepKeeps
<1>. QED BY <1>1, <1>2 DEF Import

\* A request fails, before or after it took effect.
LEMMA FaultKeeps ==
  ASSUME EditInv, NEW t \in Tabs, Fault(t)
  PROVE  EditInv'
<1>. DEFINE o == op[t]
<1>1. faults < MaxFaults /\ faults' = faults + 1 /\ ops' = ops /\ collided' = collided
  BY DEF Fault
<1>2. /\ ops \in 0..MaxOps /\ faults \in 0..MaxFaults /\ collided \in BOOLEAN
      /\ IsStored(config) /\ (Unique(config.clusters) \/ collided)
  BY DEF EditInv
<1>3. faults' \in 0..MaxFaults BY <1>1, <1>2, ConfigEditBounds
<1>4. OpOK(AfterError(o), collided)
  <2>1. IsForm(o.form) BY OfTab
  <2>. HIDE DEF o
  <2>. QED BY <2>1, IdleOK, FormShown DEF AfterError
<1>5. CASE op' = [op EXCEPT ![t] = AfterError(o)] /\ config' = config
  BY <1>1, <1>2, <1>3, <1>4, <1>5, StepKeeps
<1>6. CASE /\ o.phase = "put" /\ op' = [op EXCEPT ![t] = AfterError(o)]
           /\ config' \in {config, o.body}
  <2>1. OpOK(o, collided) BY OfTab
  <2>2. IsStored(o.body) /\ (Unique(o.body.clusters) \/ collided) BY <1>6, <2>1, BodyIs
  <2>. HIDE DEF o
  <2>3. IsStored(config') /\ (Unique(config'.clusters) \/ collided) BY <1>2, <1>6, <2>2
  <2>. QED BY <1>1, <1>2, <1>3, <1>4, <1>6, <2>3, StepKeeps
<1>7. CASE /\ o.phase = "import" /\ Unchanged(o)
           /\ op' = [op EXCEPT ![t] = AfterImportError(o)]
           /\ config' \in {config, [config EXCEPT !.clusters = MergeImported(@, o)]}
  <2>. DEFINE c == [config EXCEPT !.clusters = MergeImported(@, o)]
  <2>1. IsStored(c) /\ (Unique(c.clusters) \/ collided) BY <1>7, ImportStores
  <2>2. OpOK([o EXCEPT !.phase = "review"], collided) BY <1>7, ChoicePhaseOK
  <2>3. OpOK(AfterImportError(o), collided) BY <2>2, IdleOK DEF AfterImportError
  <2>4. config' \in {config, c} BY <1>7
  <2>. HIDE DEF c
  <2>5. IsStored(config') /\ (Unique(config'.clusters) \/ collided) BY <1>2, <2>1, <2>4
  <2>. QED BY <1>1, <1>2, <1>3, <1>7, <2>3, <2>5, StepKeeps
<1>. QED BY <1>5, <1>6, <1>7 DEF Fault

\* The invariant holds at first.
LEMMA InitKeeps ==
  ASSUME Init
  PROVE  EditInv
<1>1. /\ config = [clusters |-> Initial, settings |-> Settings]
      /\ op = [t \in Tabs |-> Idle] /\ ops = 0 /\ faults = 0 /\ collided = FALSE
  BY DEF Init
<1>2. AreClusters(Initial) /\ Unique(Initial) /\ Settings \subseteq Properties \cup ServerCfg
  BY ConfigEditInputs
<1>3. config.clusters = Initial /\ config.settings = Settings BY <1>1
<1>4. Around(Settings \cap Properties) \subseteq Settings BY DEF Around
<1>5. IsStored(config) BY <1>1, <1>2, <1>3, <1>4 DEF IsStored
<1>6. \A t \in Tabs : op[t] = Idle BY <1>1
<1>7. \A t \in Tabs : OpOK(op[t], collided) BY <1>6, IdleOK
<1>8. op = [t \in Tabs |-> op[t]] BY <1>1
<1>9. ops \in 0..MaxOps /\ faults \in 0..MaxFaults /\ collided \in BOOLEAN
  <2>1. ops = 0 /\ faults = 0 /\ collided = FALSE BY DEF Init
  <2>2. MaxOps \in Nat /\ MaxFaults \in Nat BY ConfigEditBounds
  <2>3. collided \in BOOLEAN BY <2>1
  <2>4. ops \in 0..MaxOps /\ faults \in 0..MaxFaults
    <3>1. ops = 0 /\ faults = 0 BY DEF Init
    <3>. QED BY <3>1, <2>2
  <2>. QED BY <2>3, <2>4
<1>10. Unique(config.clusters) BY <1>2, <1>3
<1>. QED BY <1>5, <1>7, <1>8, <1>9, <1>10 DEF EditInv

\* What the user does, by what it needs to know.
LEMMA UserKeeps ==
  ASSUME EditInv, NEW t \in Tabs, User(t)
  PROVE  EditInv'
<1>1. CASE ClusterConfigPage(t) \/ NewClusterPage(t) BY <1>1, PageKeeps
<1>2. CASE \E n \in TypedNames : TypeName(t, n) BY <1>2, TypedKeep
<1>3. CASE \E a \in TypedAddrs : TypeAddr(t, a) BY <1>3, AddrTypedKeeps
<1>4. CASE \E s \in Touched :
              \/ ToggleSection(t, s) \/ TickCredentials(t, s)
              \/ \E m \in IF s = "auth" THEN Chosen ELSE {"jaas"} : FillSection(t, s, m)
  <2>1. PICK s \in Touched :
              \/ ToggleSection(t, s) \/ TickCredentials(t, s)
              \/ \E m \in IF s = "auth" THEN Chosen ELSE {"jaas"} : FillSection(t, s, m)
    BY <1>4
  <2>2. CASE ToggleSection(t, s) BY <2>2, TouchKeeps DEF ToggleSection
  <2>3. CASE TickCredentials(t, s) BY <2>3, TouchKeeps DEF TickCredentials
  <2>4. CASE \E m \in IF s = "auth" THEN Chosen ELSE {"jaas"} : FillSection(t, s, m)
    BY <2>4, TouchKeeps DEF FillSection
  <2>. QED BY <2>1, <2>2, <2>3, <2>4
<1>5. CASE OnReset(t) BY <1>5, ResetKeeps
<1>6. CASE Leave(t) \/ Dismiss(t) \/ CancelImport(t)
  BY <1>6, ToIdleKeeps DEF Leave, Dismiss, CancelImport
<1>7. CASE OnValidate(t) \/ Confirm(t) BY <1>7, PhaseKeeps DEF OnValidate, Confirm
<1>8. CASE OnSubmit(t) BY <1>8, SubmitKeeps
<1>9. CASE ConfirmClusterDelete(t) BY <1>9, ConfirmDeleteKeeps
<1>10. CASE HandleDuplicate(t) \/ HandleDelete(t) BY <1>10, DialogKeeps
<1>11. CASE \E f \in Files : ChooseFile(t, f) BY <1>11, ChooseFileKeeps
<1>12. CASE \E i \in 1..2 : Choose(t, i) BY <1>12, ChooseKeeps
<1>13. CASE ConfirmImport(t)
  <2>1. op[t].phase = "review" /\ Moves(t, [op[t] EXCEPT !.phase = "import"])
    BY <1>13 DEF ConfirmImport
  <2>2. OpOK([op[t] EXCEPT !.phase = "import"], collided) BY <2>1, ChoicePhaseOK
  <2>. QED BY <2>1, <2>2, MovesKeep
<1>14. CASE CloseSettings(t) BY <1>14, CloseKeeps
<1>. QED BY <1>1, <1>2, <1>3, <1>4, <1>5, <1>6, <1>7, <1>8, <1>9, <1>10, <1>11,
            <1>12, <1>13, <1>14 DEF User

\* What the server answers.
LEMMA AnswerKeeps ==
  ASSUME EditInv, NEW t \in Tabs, Answer(t)
  PROVE  EditInv'
<1>1. CASE Validated(t) BY <1>1, PhaseKeeps DEF Validated
<1>. QED BY <1>1, ReadKeeps, WriteKeeps, PreviewKeeps, ImportKeeps DEF Answer

\* The invariant holds always.
LEMMA Invariance == Init /\ [][Next]_vars => []EditInv
<1>1. EditInv /\ UNCHANGED vars => EditInv' BY DEF EditInv, vars
<1>2. EditInv /\ [Next]_vars => EditInv'
  BY <1>1, UserKeeps, AnswerKeeps, FaultKeeps DEF Next
<1>. QED BY <1>2, InitKeeps, PTL

----------------------------------------------------------------------------
(* The properties *)

\* What is stored is a configuration.
LEMMA StoredIsConfig ==
  ASSUME NEW c, IsStored(c)
  PROVE  IsConfig(c)
<1>1. \A i \in DOMAIN c.clusters : IsCluster(c.clusters[i]) BY ClusterFacts DEF IsStored
<1>. QED BY <1>1 DEF IsConfig, IsStored, IsCluster

\* The state invariants of the run follow.
LEMMA SafeStates ==
  ASSUME EditInv
  PROVE  TypeOK /\ NamesUnique /\ SelectionAccepted /\ SettingsKept
<1>1. IsConfig(config) /\ ops \in 0..MaxOps /\ faults \in 0..MaxFaults /\ collided \in BOOLEAN
  BY StoredIsConfig DEF EditInv
<1>2. ASSUME NEW t \in Tabs
      PROVE  /\ op[t].phase \in {"idle", "form", "validate", "confirm", "get", "put",
                                 "preview", "review", "import"}
             /\ op[t].kind \in {"", "add", "edit", "remove", "duplicate", "delete"}
             /\ op[t].phase = "put" => IsConfig(op[t].body)
             /\ op[t].phase \in {"review", "import"} =>
                   /\ op[t].chosen \subseteq DOMAIN op[t].file
                   /\ IsConfig(op[t].base)
             /\ DOMAIN op[t].form.sections = Names
  <2>1. OpOK(op[t], collided) /\ IsForm(op[t].form) BY OfTab
  <2>2. op[t].phase \in Phases /\ op[t].kind \in Kinds \cup {""} BY <2>1 DEF OpOK
  <2>3. op[t].phase = "put" => IsConfig(op[t].body) BY <2>1, BodyIs, StoredIsConfig
  <2>4. op[t].phase \in {"review", "import"} =>
           op[t].chosen \subseteq DOMAIN op[t].file /\ IsConfig(op[t].base)
    BY OfReview, StoredIsConfig DEF IsChoice
  <2>5. DOMAIN op[t].form.sections = Names BY <2>1 DEF IsForm
  <2>. QED BY <2>2, <2>3, <2>4, <2>5 DEF Phases, Kinds
<1>3. TypeOK BY <1>1, <1>2 DEF TypeOK
<1>4. NamesUnique BY DEF NamesUnique, EditInv
<1>5. SelectionAccepted BY OfReview DEF SelectionAccepted, IsChoice
<1>6. SettingsKept BY DEF SettingsKept, EditInv, IsStored
<1>. QED BY <1>3, <1>4, <1>5, <1>6

\* What a write stores.
LEMMA Written ==
  ASSUME EditInv, NEW t \in Tabs, Writes(t)
  PROVE  LET o == op[t]
             e == FromJSON(o.base).clusters
         IN  /\ IsStored(o.base) /\ IsEdit(o) /\ AreClusters(e) /\ IsForm(o.form)
             /\ AfterIs(o, e, config'.clusters)
             /\ Clash(o, e) => collided
<1>1. op[t].phase = "put" /\ config' = op[t].body BY DEF Writes
<1>2. OpOK(op[t], collided) /\ IsForm(op[t].form) BY OfTab
<1>. QED BY <1>1, <1>2, BodyIs

\* A write keeps the other clusters.
LEMMA OthersStep ==
  ASSUME EditInv, NEW t \in Tabs, Writes(t), config = op[t].base
  PROVE  OthersAsRead(t)
<1>. DEFINE o == op[t]
            e == FromJSON(config).clusters
            stored == Range(config.clusters)
            written == Range(config'.clusters)
            old == {ClustersFromJSON(c) : c \in {d \in stored : ~About(o, d)}}
            new == {c \in written : ~About(o, c)}
<1>1. /\ IsStored(config) /\ IsEdit(o) /\ AreClusters(e) /\ IsForm(o.form)
      /\ AfterIs(o, e, config'.clusters)
  BY Written
<1>2. Range(e) = {ClustersFromJSON(c) : c \in stored}
  BY <1>1, ReadClusters DEF IsStored
<1>3. \A c \in stored : ClustersFromJSON(c).name = c.name
  BY <1>1, ClusterFacts, ReadCluster DEF IsStored
<1>4. \A c \in Range(e) : IsName(c.name) /\ c.name \in NamesOf(e)
  BY <1>1, ClusterFacts DEF Range
<1>5. OthersAsRead(t) <=> IF o.kind = "duplicate"
                          THEN \E copy \in new : copy \notin old /\ new = old \cup {copy}
                          ELSE old = new
  BY DEF OthersAsRead
<1>. HIDE DEF o, e, stored, written
<1>6. old = {c \in Range(e) : ~About(o, c)} BY <1>2, <1>3 DEF About
<1>. HIDE DEF old
<1>7. o.kind \in Kinds BY <1>1 DEF IsEdit
<1>8. CASE o.kind = "duplicate"
  <2>1. \A c : ~About(o, c) BY <1>8 DEF About
  <2>2. PICK copy : copy.name \notin NamesOf(e) /\ written = Range(e) \cup {copy}
    BY <1>1, <1>8 DEF AfterIs, written
  <2>3. copy \notin Range(e) BY <2>2, <1>4
  <2>4. old = Range(e) /\ new = written BY <2>1, <1>6
  <2>5. copy \in new /\ copy \notin old /\ new = old \cup {copy} BY <2>2, <2>3, <2>4
  <2>. HIDE DEF new
  <2>. QED BY <1>5, <1>8, <2>5
<1>9. CASE o.kind \in {"delete", "remove"}
  <2>1. \A c : About(o, c) <=> c.name = o.target BY <1>9 DEF About
  <2>2. written = {c \in Range(e) : c.name # o.target} BY <1>1, <1>9 DEF AfterIs, written
  <2>3. old = new BY <2>1, <2>2, <1>6
  <2>. HIDE DEF new
  <2>. QED BY <1>5, <1>9, <2>3
<1>10. CASE o.kind \in {"add", "edit"}
  <2>1. \A c : About(o, c) <=> c.name = o.target \/ c.name = o.form.name
    BY <1>10 DEF About
  <2>2. Saved(o).name = o.form.name BY <1>1, <1>10, PayloadIsCluster DEF IsEdit, Saved
  <2>3. About(o, Saved(o)) BY <2>1, <2>2
  <2>4. /\ \A c \in written : c = Saved(o) \/ c \in Range(e)
        /\ \A c \in Range(e) : c.name # o.target => c \in written
    BY <1>1, <1>10 DEF AfterIs, written
  <2>5. old = new BY <2>1, <2>3, <2>4, <1>6
  <2>. HIDE DEF new
  <2>. QED BY <1>5, <1>10, <2>5
<1>. QED BY <1>7, <1>8, <1>9, <1>10 DEF Kinds

\* A write keeps the sections not touched.
LEMMA UntouchedStep ==
  ASSUME EditInv, NEW t \in Tabs, Writes(t), op[t].kind = "edit", ~collided
  PROVE  SectionsAsRead(t)
<1>. DEFINE o == op[t]
            e == FromJSON(o.base).clusters
            f == o.form
<1>1. /\ IsEdit(o) /\ AreClusters(e) /\ IsForm(f) /\ ~Clash(o, e)
      /\ AfterIs(o, e, config'.clusters)
  BY Written
<1>2. o.kind = "edit" OBVIOUS
<1>3. SUFFICES ASSUME NEW s \in Names, NEW c \in Range(config'.clusters),
                      c.name = f.name, Untouched(f, s), Whole(s, f.had)
               PROVE  c.has \cap PathsOf(s) = f.had \cap PathsOf(s)
  BY DEF SectionsAsRead, PathsOf
<1>. HIDE DEF o, e
<1>4. c = Saved(o)
  <2>1. c = Saved(o) \/ (c \in Range(e) /\ c.name # o.target) BY <1>1, <1>2 DEF AfterIs
  <2>2. c \in Range(e) => c.name \in NamesOf(e) BY DEF Range, NamesOf
  <2>. QED BY <2>1, <2>2, <1>1, <1>2, <1>3 DEF Clash
<1>5. PICK d : d.has = f.had /\ f.initial.sections = getInitialFormData(d)
  <2>1. f.initialName # <<>> BY <1>1, <1>2 DEF IsEdit, IsName
  <2>. QED BY <1>1, <2>1 DEF IsForm
<1>6. s \in Kept BY <1>3, KeptAre DEF Untouched
<1>7. /\ f.sections[s] = getInitialFormData(d)[s]
      /\ s = "customAuth" => f.sections["auth"].is # "active"
  BY <1>3, <1>5 DEF Untouched
<1>8. f.sections[s].is # "absent" =>
         Required(s, f.sections[s].fields) \subseteq f.sections[s].fields
  BY <1>1, <1>2 DEF IsEdit, formSchema
<1>. HIDE DEF f
<1>9. transformFormDataToPayload(f).has \cap PathsOf(s) = d.has \cap PathsOf(s)
  BY <1>3, <1>5, <1>6, <1>7, <1>8, UntouchedSection
<1>. QED BY <1>4, <1>5, <1>9 DEF Saved, f

\* The user writes nothing at once.
LEMMA UserReads ==
  ASSUME NEW t, User(t)
  PROVE  config' = config
<1>1. ASSUME NEW o, Moves(t, o) \/ Starts(t, o) PROVE config' = config
  BY <1>1 DEF Moves, Starts
<1>2. ASSUME NEW f, EditForm(t, f) PROVE config' = config BY <1>2, <1>1 DEF EditForm
<1>3. ASSUME NEW s, NEW v, Touch(t, s, v) PROVE config' = config
  BY <1>3, <1>2 DEF Touch
<1>. QED BY <1>1, <1>2, <1>3
   DEF User, ClusterConfigPage, NewClusterPage, TypeName, TypeAddr, ToggleSection,
       TickCredentials, FillSection, OnReset, Leave, OnValidate, OnSubmit,
       ConfirmClusterDelete, HandleDuplicate, HandleDelete, Confirm, Dismiss,
       ChooseFile, Choose, ConfirmImport, CancelImport, CloseSettings

\* An import that is carried out is the one reviewed.
LEMMA StoredAsReviewed ==
  ASSUME EditInv, NEW t \in Tabs, op[t].phase = "import", Unchanged(op[t]),
         config' = [config EXCEPT !.clusters = MergeImported(@, op[t])]
  PROVE  AsReviewed(t)
<1>. DEFINE o == op[t]
            shown == Replaced(config.clusters, o)
<1>1. /\ config'.settings = config.settings
      /\ Range(config'.clusters) = {x \in Range(config.clusters) : x.name \notin shown}
                                  \cup {o.file[i] : i \in o.chosen}
  BY ImportStores
<1>2. o.base = config BY DEF Unchanged
<1>3. shown = UNION {Conflicts(o.base.clusters, o.file[i]) : i \in o.chosen}
  BY <1>2 DEF Replaced
<1>4. AsReviewed(t) <=>
        /\ Range(config'.clusters) =
             {c \in Range(o.base.clusters) :
                 c.name \notin UNION {Conflicts(o.base.clusters, o.file[i]) : i \in o.chosen}}
             \cup {o.file[i] : i \in o.chosen}
        /\ config'.settings = o.base.settings
  BY DEF AsReviewed
<1>. HIDE DEF o, shown
<1>. QED BY <1>1, <1>2, <1>3, <1>4

\* So is every import.
LEMMA ImportStep ==
  ASSUME EditInv, Next, NEW t \in Tabs, Imports(t)
  PROVE  AsReviewed(t)
<1>1. op[t].phase = "import" /\ op'[t].phase # "import" /\ config' # config BY DEF Imports
<1>2. PICK u \in Tabs : User(u) \/ Answer(u) \/ Fault(u) BY DEF Next
<1>3. ~User(u) BY <1>1, UserReads
<1>4. op = [v \in Tabs |-> op[v]] BY DEF EditInv
<1>5. ASSUME NEW o, op' = [op EXCEPT ![u] = o] PROVE u = t
  <2>1. u # t => op'[t] = op[t] BY <1>4, <1>5
  <2>. QED BY <2>1, <1>1
<1>6. CASE Answer(u)
  <2>1. ~Validated(u) /\ ~Preview(u) BY <1>1 DEF Validated, Preview, Moves
  <2>2. ~GetCurrentConfig(u) BY <1>1 DEF GetCurrentConfig, Moves
  <2>3. ~RestartWithConfig(u)
    <3>1. SUFFICES ASSUME RestartWithConfig(u) PROVE FALSE
      OBVIOUS
    <3>2. u = t BY <3>1, <1>5 DEF RestartWithConfig
    <3>. QED BY <3>1, <3>2, <1>1 DEF RestartWithConfig
  <2>4. Import(u) BY <1>6, <2>1, <2>2, <2>3 DEF Answer
  <2>5. /\ op[u].phase = "import" /\ Unchanged(op[u])
        /\ config' = [config EXCEPT !.clusters = MergeImported(@, op[u])]
        /\ op' = [op EXCEPT ![u] = Idle]
    BY <2>4, <1>1 DEF Import, Moves
  <2>6. u = t BY <2>5, <1>5
  <2>. QED BY <2>5, <2>6, StoredAsReviewed
<1>7. CASE Fault(u)
  <2>1. u = t BY <1>7, <1>5 DEF Fault
  <2>2. /\ Unchanged(op[t])
        /\ config' = [config EXCEPT !.clusters = MergeImported(@, op[t])]
    BY <1>7, <2>1, <1>1 DEF Fault
  <2>. QED BY <2>2, <1>1, StoredAsReviewed
<1>. QED BY <1>2, <1>3, <1>6, <1>7

\* An import stores what the review showed, for any clusters, files, tabs and
\* faults: Import compares the revision of what it replaces (transfer.go,
\* ConfigTransferSection.tsx).
THEOREM ImportsAreReviewed == Spec => ImportAsReviewed
<1>1. EditInv /\ [Next]_vars => [\A t \in Tabs : Imports(t) => AsReviewed(t)]_vars
  BY ImportStep
<1>. QED BY <1>1, Invariance, PTL DEF Spec, ImportAsReviewed

\* An edit keeps the other clusters, the sections not touched and the settings
\* around them, for any clusters, names, forms, tabs and faults (appConfig.ts,
\* ClusterConfigForm).
THEOREM EditsAreKept == Spec => EditsKeepTheRest
<1>1. EditInv => TypeOK /\ NamesUnique /\ SelectionAccepted /\ SettingsKept BY SafeStates
<1>2. EditInv /\ [Next]_vars =>
        [\A t \in Tabs : Writes(t) /\ config = op[t].base => OthersAsRead(t)]_vars
  BY OthersStep
<1>3. EditInv /\ [Next]_vars =>
        [\A t \in Tabs : Writes(t) /\ op[t].kind = "edit" /\ ~collided => SectionsAsRead(t)]_vars
  BY UntouchedStep
<1>. QED BY <1>1, <1>2, <1>3, Invariance, PTL
         DEF Spec, EditsKeepTheRest, OthersKept, UntouchedKept
=============================================================================
