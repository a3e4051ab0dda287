---------------------------- MODULE BrowseProofs ----------------------------
(***************************************************************************)
(* Proofs about Browse, for every log, every set of queries, page size,    *)
(* capacity of the cursor cache and every bound.  The inductive invariant  *)
(* BrowseInv relates four things: the tab (ClientShape), the cursor cache  *)
(* and the pages that led to its cursors (ServerInv), the page being read  *)
(* and the chain of pages before it (JobInv), and what is on its way       *)
(* between the two (LinkInv).  The properties alone are not inductive: a   *)
(* cursor is used long after the page that saved it, so what was read must *)
(* be remembered with the cursor, and what the page will show depends on   *)
(* events the server emitted several steps before.                         *)
(* At the end the pool the server takes its readers from (ReaderPool): it  *)
(* never shares a reader, never leaks one and never uses one it closed;    *)
(* its idle readers are counted and bounded; an Invalidate is final.  For  *)
(* any number of clusters, keys, sessions and clients.                     *)
(***************************************************************************)
EXTENDS Browse, ReaderPool, FiniteSetTheorems, SequenceTheorems, TLAPS

---------------------------------------------------------------------------
\* Naturals by induction from the library, and the budgets of a backward page.

\* Every nonempty set of naturals has a least element.
LEMMA NatMin ==
  ASSUME NEW S \in SUBSET Nat, S # {}
  PROVE  \E n \in S : \A m \in S : n <= m
<1>. DEFINE T == {0..n : n \in S}
<1>1. T \subseteq FiniteSubsetsOf(Nat)
  <2>1. ASSUME NEW n \in S PROVE 0..n \in FiniteSubsetsOf(Nat)
    <3>1. IsFiniteSet(0..n) BY FS_Interval
    <3>2. 0..n \subseteq Nat OBVIOUS
    <3>. QED BY <3>1, <3>2 DEF FiniteSubsetsOf
  <2>. QED BY <2>1
<1>2. T # {} OBVIOUS
<1>3. \E x \in T : \A y \in T : ~ (<<y, x>> \in StrictSubsetOrdering(Nat))
  <2>. HIDE DEF T
  <2>. QED BY <1>1, <1>2, FS_StrictSubsetOrderingWellFounded, WFMin
<1>4. PICK n \in S : \A y \in T : ~ (<<y, 0..n>> \in StrictSubsetOrdering(Nat))
  BY <1>3
<1>5. ASSUME NEW m \in S, m < n PROVE FALSE
  <2>1. <<0..m, 0..n>> \in StrictSubsetOrdering(Nat)
    <3>1. 0..m \subseteq 0..n BY <1>5
    <3>2. n \in 0..n /\ n \notin 0..m BY <1>5
    <3>3. 0..m \in SUBSET Nat /\ 0..n \in SUBSET Nat OBVIOUS
    <3>. QED BY <3>1, <3>2, <3>3 DEF StrictSubsetOrdering
  <2>. QED BY <2>1, <1>4
<1>. QED BY <1>5

\* Induction up to N, the property given as the set of the numbers that have it.
LEMMA Upto ==
  ASSUME NEW N \in Nat, NEW A, 0 \in A, \A n \in 1..N : n - 1 \in A => n \in A
  PROVE  0..N \subseteq A
<1>. DEFINE S == {n \in 0..N : n \notin A}
<1>1. SUFFICES ASSUME S # {} PROVE FALSE
  OBVIOUS
<1>2. S \in SUBSET Nat OBVIOUS
<1>3. PICK n \in S : \A m \in S : n <= m
  <2>. HIDE DEF S
  <2>. QED BY <1>1, <1>2, NatMin
<1>4. n \in 1..N /\ n - 1 \in 0..N BY <1>3
<1>5. n - 1 \in S BY <1>4, <1>3
<1>. QED BY <1>5, <1>3, <1>4

\* f is s0 followed by the results of the steps g[1], ..., g[N].
Iterates(f, N, S, s0, g) ==
    /\ f \in [0..N -> S] /\ f[0] = s0
    /\ \A n \in 1..N : f[n] = g[n][f[n - 1]]

\* The sequence of results exists.
LEMMA IteratesExist ==
  ASSUME NEW N \in Nat, NEW S, NEW s0 \in S, NEW g \in [1..N -> [S -> S]]
  PROVE  \E f : Iterates(f, N, S, s0, g)
<1>. DEFINE Good(f, n) == /\ f \in [0..n -> S] /\ f[0] = s0
                          /\ \A i \in 1..n : f[i] = g[i][f[i - 1]]
            A == {n \in 0..N : \E f : Good(f, n)}
<1>1. 0 \in A
  <2>1. Good([i \in 0..0 |-> s0], 0) OBVIOUS
  <2>2. \E f : Good(f, 0)
    <3>. HIDE DEF Good
    <3>. QED BY <2>1
  <2>. HIDE DEF Good
  <2>. QED BY <2>2
<1>2. ASSUME NEW n \in 1..N, n - 1 \in A PROVE n \in A
  <2>1. PICK f : Good(f, n - 1) BY <1>2
  <2>. DEFINE h == [i \in 0..n |-> IF i = n THEN g[n][f[n - 1]] ELSE f[i]]
  <2>2. f[n - 1] \in S BY <2>1
  <2>3. g[n][f[n - 1]] \in S BY <2>2
  <2>4. h \in [0..n -> S] BY <2>1, <2>3
  <2>5. h[0] = s0 BY <2>1
  <2>6. ASSUME NEW i \in 1..n PROVE h[i] = g[i][h[i - 1]]
    <3>1. CASE i = n
      <4>1. n - 1 \in 0..n /\ n - 1 # n OBVIOUS
      <4>2. h[n - 1] = f[n - 1] BY <4>1
      <4>3. n \in 0..n /\ h[n] = g[n][f[n - 1]] OBVIOUS
      <4>. QED BY <3>1, <4>2, <4>3
    <3>2. CASE i # n
      <4>1. i \in 1..(n - 1) BY <3>2
      <4>. QED BY <4>1, <2>1
    <3>. QED BY <3>1, <3>2
  <2>7. Good(h, n) BY <2>4, <2>5, <2>6
  <2>8. \E f1 : Good(f1, n)
    <3>. HIDE DEF Good, h
    <3>. QED BY <2>7
  <2>. HIDE DEF Good, h
  <2>. QED BY <2>8
<1>3. N \in A
  <2>1. N \in 0..N BY <1>1
  <2>. HIDE DEF A
  <2>2. 0..N \subseteq A BY <1>1, <1>2, Upto
  <2>. QED BY <2>1, <2>2
<1>4. PICK f : Good(f, N) BY <1>3
<1>5. Iterates(f, N, S, s0, g) BY <1>4 DEF Iterates
<1>. QED BY <1>5

\* A share rounded up is enough for everyone.
LEMMA Division ==
  ASSUME NEW a \in Nat \ {0}, NEW x \in Nat
  PROVE  /\ x \div a \in Nat /\ x < a * (x \div a) + a
OBVIOUS

----------------------------------------------------------------------------
\* Partitions are numbered from 1.
LEMMA Numbered == Len(Log) \in Nat /\ Partitions = 1..Len(Log)
BY BrowseLog DEF Partitions

\* The sums are what their recursion says.
LEMMA SumsDef ==
  ASSUME NEW f \in [Partitions -> Nat]
  PROVE  /\ Sums(f) \in [0..Len(Log) -> Nat]
         /\ Sums(f)[0] = 0
         /\ \A p \in Partitions : Sums(f)[p] = Sums(f)[p - 1] + f[p]
<1>. DEFINE N == Len(Log)
            g == [n \in 1..N |-> [x \in Nat |-> x + f[n]]]
            s == Sums(f)
<1>1. N \in Nat /\ Partitions = 1..N BY Numbered
<1>2. g \in [1..N -> [Nat -> Nat]] BY <1>1
<1>3. PICK h : Iterates(h, N, Nat, 0, g)
  <2>. HIDE DEF g, N
  <2>. QED BY <1>1, <1>2, IteratesExist
<1>4. ASSUME NEW n \in 0..N
      PROVE  h[n] = IF n = 0 THEN 0 ELSE h[n - 1] + f[n]
  <2>0. /\ h \in [0..N -> Nat] /\ h[0] = 0
        /\ \A i \in 1..N : h[i] = g[i][h[i - 1]]
    BY <1>3 DEF Iterates
  <2>1. CASE n = 0 BY <2>0, <2>1
  <2>2. CASE n # 0
    <3>1. n - 1 \in 0..N /\ n \in 1..N BY <1>1, <2>2
    <3>2. h[n - 1] \in Nat BY <2>0, <3>1
    <3>3. h[n] = g[n][h[n - 1]] BY <2>0, <3>1
    <3>. QED BY <3>1, <3>2, <3>3, <2>2
  <2>. QED BY <2>1, <2>2
<1>5. h = [n \in 0..N |-> IF n = 0 THEN 0 ELSE h[n - 1] + f[n]]
  <2>1. h \in [0..N -> Nat] BY <1>3 DEF Iterates
  <2>. QED BY <1>4, <2>1
<1>6. s = [n \in 0..N |-> IF n = 0 THEN 0 ELSE s[n - 1] + f[n]]
  BY <1>5 DEF Sums
<1>. HIDE DEF s
<1>7. DOMAIN s = 0..N /\ s[0] = 0 BY <1>6, <1>1
<1>8. ASSUME NEW p \in 1..N PROVE s[p] = s[p - 1] + f[p]
  <2>1. p \in 0..N /\ p # 0 BY <1>1
  <2>. QED BY <1>6, <2>1
<1>9. \A n \in 0..N : s[n] \in Nat
  <2>. DEFINE A == {n \in 0..N : s[n] \in Nat}
  <2>1. 0 \in A BY <1>7, <1>1
  <2>2. ASSUME NEW n \in 1..N, n - 1 \in A PROVE n \in A
    BY <2>2, <1>8, <1>1
  <2>3. 0..N \subseteq A
    <3>. HIDE DEF A
    <3>. QED BY <1>1, <2>1, <2>2, Upto
  <2>. QED BY <2>3
<1>10. s \in [0..N -> Nat] BY <1>6, <1>7, <1>9
<1>. QED BY <1>10, <1>7, <1>8, <1>1 DEF s

\* A total of naturals is a natural.
LEMMA TotalType ==
  ASSUME NEW f \in [Partitions -> Nat]
  PROVE  Total(f) \in Nat
BY SumsDef, Numbered DEF Total

\* What is added to one partition is added to the total.
LEMMA TotalAdd ==
  ASSUME NEW f \in [Partitions -> Nat], NEW p \in Partitions, NEW t \in Nat
  PROVE  Total([f EXCEPT ![p] = @ + t]) = Total(f) + t
<1>. DEFINE N == Len(Log)
            e == [f EXCEPT ![p] = @ + t]
            A == {n \in 0..N : Sums(e)[n] = Sums(f)[n] + (IF p <= n THEN t ELSE 0)}
<1>1. N \in Nat /\ Partitions = 1..N BY Numbered
<1>2. e \in [Partitions -> Nat]
      /\ \A x \in Partitions : e[x] = IF x = p THEN f[x] + t ELSE f[x]
  BY <1>1
<1>3. /\ Sums(f) \in [0..N -> Nat] /\ Sums(f)[0] = 0
      /\ \A x \in Partitions : Sums(f)[x] = Sums(f)[x - 1] + f[x]
  BY SumsDef
<1>. HIDE DEF e
<1>4. /\ Sums(e) \in [0..N -> Nat] /\ Sums(e)[0] = 0
      /\ \A x \in Partitions : Sums(e)[x] = Sums(e)[x - 1] + e[x]
  BY SumsDef, <1>2
<1>5. 0 \in A BY <1>1, <1>3, <1>4
<1>6. ASSUME NEW n \in 1..N, n - 1 \in A PROVE n \in A
  <2>1. n \in Partitions /\ n - 1 \in 0..N BY <1>1
  <2>2. Sums(f)[n] = Sums(f)[n - 1] + f[n] /\ Sums(e)[n] = Sums(e)[n - 1] + e[n]
    BY <2>1, <1>3, <1>4
  <2>3. f[n] \in Nat /\ Sums(f)[n - 1] \in Nat BY <2>1, <1>3
  <2>4. e[n] = IF n = p THEN f[n] + t ELSE f[n] BY <1>2, <2>1
  <2>5. Sums(e)[n - 1] = Sums(f)[n - 1] + (IF p <= n - 1 THEN t ELSE 0) BY <1>6
  <2>. QED BY <2>2, <2>3, <2>4, <2>5, <1>1
<1>7. N \in A
  <2>1. N \in 0..N BY <1>1
  <2>. HIDE DEF A, N
  <2>2. 0..N \subseteq A BY <1>1, <1>5, <1>6, Upto
  <2>. QED BY <2>1, <2>2
<1>. QED BY <1>7, <1>1 DEF Total, e

\* Totals grow with their parts.
LEMMA TotalAtMost ==
  ASSUME NEW f \in [Partitions -> Nat], NEW g \in [Partitions -> Nat],
         \A p \in Partitions : f[p] <= g[p]
  PROVE  Total(f) <= Total(g)
<1>. DEFINE N == Len(Log)
            A == {n \in 0..N : Sums(f)[n] <= Sums(g)[n]}
<1>1. N \in Nat /\ Partitions = 1..N BY Numbered
<1>2. /\ Sums(f) \in [0..N -> Nat] /\ Sums(f)[0] = 0
      /\ \A x \in Partitions : Sums(f)[x] = Sums(f)[x - 1] + f[x]
  BY SumsDef
<1>3. /\ Sums(g) \in [0..N -> Nat] /\ Sums(g)[0] = 0
      /\ \A x \in Partitions : Sums(g)[x] = Sums(g)[x - 1] + g[x]
  BY SumsDef
<1>4. 0 \in A BY <1>1, <1>2, <1>3
<1>5. ASSUME NEW n \in 1..N, n - 1 \in A PROVE n \in A
  <2>1. n \in Partitions /\ n - 1 \in 0..N BY <1>1
  <2>2. Sums(f)[n] = Sums(f)[n - 1] + f[n] /\ Sums(g)[n] = Sums(g)[n - 1] + g[n]
    BY <2>1, <1>2, <1>3
  <2>3. f[n] \in Nat /\ g[n] \in Nat /\ f[n] <= g[n] BY <2>1
  <2>4. Sums(f)[n - 1] \in Nat /\ Sums(g)[n - 1] \in Nat BY <2>1, <1>2, <1>3
  <2>. QED BY <2>2, <2>3, <2>4, <1>5, <1>1
<1>6. N \in A
  <2>1. N \in 0..N BY <1>1
  <2>. HIDE DEF A, N
  <2>2. 0..N \subseteq A BY <1>1, <1>4, <1>5, Upto
  <2>. QED BY <2>1, <2>2
<1>. QED BY <1>6 DEF Total

\* Nothing sums to nothing.
LEMMA TotalZero == Total([p \in Partitions |-> 0]) = 0
<1>. DEFINE N == Len(Log)
            f == [p \in Partitions |-> 0]
            A == {n \in 0..N : Sums(f)[n] = 0}
<1>1. N \in Nat /\ Partitions = 1..N BY Numbered
<1>2. f \in [Partitions -> Nat] /\ \A p \in Partitions : f[p] = 0 OBVIOUS
<1>. HIDE DEF f
<1>3. /\ Sums(f) \in [0..N -> Nat] /\ Sums(f)[0] = 0
      /\ \A x \in Partitions : Sums(f)[x] = Sums(f)[x - 1] + f[x]
  BY SumsDef, <1>2
<1>4. 0 \in A BY <1>1, <1>3
<1>5. ASSUME NEW n \in 1..N, n - 1 \in A PROVE n \in A
  BY <1>1, <1>2, <1>3, <1>5
<1>6. N \in A
  <2>1. N \in 0..N BY <1>1
  <2>. HIDE DEF A, N
  <2>2. 0..N \subseteq A BY <1>1, <1>4, <1>5, Upto
  <2>. QED BY <2>1, <2>2
<1>. QED BY <1>6 DEF Total, f

\* The least of three numbers.
LEMMA MinOfThree ==
  ASSUME NEW a \in Nat, NEW b \in Nat, NEW c \in Nat
  PROVE  /\ Min({a, b, c}) \in {a, b, c}
         /\ Min({a, b, c}) <= a /\ Min({a, b, c}) <= b /\ Min({a, b, c}) <= c
<1>1. \E x \in {a, b, c} : \A y \in {a, b, c} : x <= y
  <2>1. CASE a <= b /\ a <= c BY <2>1
  <2>2. CASE b <= a /\ b <= c BY <2>2
  <2>3. CASE c <= a /\ c <= b BY <2>3
  <2>. QED BY <2>1, <2>2, <2>3
<1>. QED BY <1>1 DEF Min

----------------------------------------------------------------------------
\* A state of the division of a limit: no partition has more than its capacity
\* and nothing is given out twice or lost.
Sound(limit, capacity) ==
    {s \in [budget : [Partitions -> Nat], remaining : Nat] :
        /\ \A p \in Partitions : s.budget[p] <= capacity[p]
        /\ Total(s.budget) + s.remaining = limit}

\* Give takes a share, what fits or what is left, and keeps the division sound.
LEMMA GiveSound ==
  ASSUME NEW limit \in Nat, NEW capacity \in [Partitions -> Nat],
         NEW s \in Sound(limit, capacity), NEW share \in Nat, NEW p \in Partitions
  PROVE  LET g == Give(capacity, share, s, p)
         IN  /\ g \in Sound(limit, capacity)
             /\ g.remaining <= s.remaining
             /\ \A x \in Partitions : s.budget[x] <= g.budget[x]
             /\ \/ g.remaining = 0
                \/ g.budget[p] = capacity[p]
                \/ g.remaining = s.remaining - share
<1>. DEFINE b == s.budget
            r == s.remaining
            take == Min({share, capacity[p] - b[p], r})
            g == Give(capacity, share, s, p)
            e == [b EXCEPT ![p] = @ + take]
<1>1. /\ b \in [Partitions -> Nat] /\ r \in Nat /\ Total(b) + r = limit
      /\ \A x \in Partitions : b[x] <= capacity[x]
  BY DEF Sound
<1>. HIDE DEF b, r
<1>2. capacity[p] - b[p] \in Nat /\ b[p] \in Nat /\ capacity[p] \in Nat BY <1>1
<1>3. take \in Nat /\ take <= r /\ take <= capacity[p] - b[p]
      /\ (take = share \/ take = capacity[p] - b[p] \/ take = r)
  BY <1>1, <1>2, MinOfThree
<1>. HIDE DEF take
<1>4. g = [budget |-> e, remaining |-> r - take]
  BY DEF Give, b, r, take
<1>5. e \in [Partitions -> Nat]
      /\ \A x \in Partitions : e[x] = IF x = p THEN b[x] + take ELSE b[x]
  BY <1>1, <1>3
<1>6. Total(e) = Total(b) + take /\ Total(b) \in Nat
  BY <1>1, <1>3, TotalAdd, TotalType
<1>. HIDE DEF e, g
<1>7. g.budget = e /\ g.remaining = r - take BY <1>4
<1>8. r - take \in Nat BY <1>1, <1>3
<1>9. g \in [budget : [Partitions -> Nat], remaining : Nat]
  BY <1>4, <1>5, <1>8
<1>10. \A x \in Partitions : e[x] <= capacity[x] /\ b[x] <= e[x]
  BY <1>1, <1>2, <1>3, <1>5
<1>11. Total(e) + (r - take) = limit BY <1>1, <1>3, <1>6
<1>12. g \in Sound(limit, capacity) BY <1>7, <1>9, <1>10, <1>11 DEF Sound
<1>13. g.remaining <= r BY <1>7, <1>1, <1>3
<1>14. \/ r - take = 0 \/ e[p] = capacity[p] \/ r - take = r - share
  BY <1>2, <1>3, <1>5, <1>1
<1>. QED BY <1>7, <1>10, <1>12, <1>13, <1>14 DEF g, b, r

\* The partitions that can take more are finitely many.
LEMMA ActiveFinite ==
  ASSUME NEW capacity, NEW s
  PROVE  IsFiniteSet(Active(capacity, s)) /\ Cardinality(Active(capacity, s)) \in Nat
<1>1. IsFiniteSet(Partitions) BY Numbered, FS_Interval
<1>2. Active(capacity, s) \in SUBSET Partitions BY DEF Active
<1>. QED BY <1>1, <1>2, FS_Subset, FS_CardinalityType

\* The share is large enough to give out what is left.
LEMMA ShareEnough ==
  ASSUME NEW capacity, NEW s, s.remaining \in Nat, Active(capacity, s) # {}
  PROVE  /\ Share(capacity, s) \in Nat
         /\ s.remaining <= Cardinality(Active(capacity, s)) * Share(capacity, s)
<1>. DEFINE n == Cardinality(Active(capacity, s))
            r == s.remaining
<1>1. n \in Nat /\ n # 0 BY ActiveFinite, FS_EmptySet
<1>2. r \in Nat OBVIOUS
<1>3. Share(capacity, s) = (r + n - 1) \div n BY DEF Share
<1>. HIDE DEF n, r
<1>4. r + n - 1 \in Nat /\ n \in Nat \ {0} BY <1>1, <1>2
<1>5. /\ (r + n - 1) \div n \in Nat
      /\ r + n - 1 < n * ((r + n - 1) \div n) + n
  <2>. DEFINE x == r + n - 1
  <2>1. x \in Nat BY <1>4
  <2>. HIDE DEF x
  <2>2. x \div n \in Nat /\ x < n * (x \div n) + n BY <2>1, <1>4, Division
  <2>. QED BY <2>2 DEF x
<1>6. n * ((r + n - 1) \div n) \in Nat BY <1>5, <1>1
<1>7. r <= n * ((r + n - 1) \div n) BY <1>5, <1>6, <1>1, <1>2
<1>. QED BY <1>3, <1>5, <1>7 DEF n, r

\* A round is what its recursion says.
LEMMA GivenDef ==
  ASSUME NEW limit \in Nat, NEW capacity \in [Partitions -> Nat],
         NEW s \in Sound(limit, capacity), Active(capacity, s) # {}
  PROVE  LET g == Given(capacity, s)
         IN  /\ g \in [0..Len(Log) -> Sound(limit, capacity)] /\ g[0] = s
             /\ \A p \in 1..Len(Log) :
                   g[p] = IF p \in Active(capacity, s)
                          THEN Give(capacity, Share(capacity, s), g[p - 1], p)
                          ELSE g[p - 1]
<1>. DEFINE N == Len(Log)
            S == Sound(limit, capacity)
            act == Active(capacity, s)
            share == Share(capacity, s)
            step == [p \in 1..N |-> [x \in S |->
                        IF p \in act THEN Give(capacity, share, x, p) ELSE x]]
            g == Given(capacity, s)
<1>1. N \in Nat /\ Partitions = 1..N BY Numbered
<1>2. share \in Nat
  <2>1. s.remaining \in Nat BY DEF Sound
  <2>. QED BY <2>1, ShareEnough
<1>. HIDE DEF share
<1>3. \A x \in S, p \in 1..N : Give(capacity, share, x, p) \in S
  BY <1>1, <1>2, GiveSound
<1>4. step \in [1..N -> [S -> S]] BY <1>3
<1>5. PICK h : Iterates(h, N, S, s, step)
  <2>. HIDE DEF step, S, N
  <2>1. s \in S BY DEF S
  <2>. QED BY <1>1, <1>4, <2>1, IteratesExist
<1>6. /\ h \in [0..N -> S] /\ h[0] = s
      /\ \A n \in 1..N : h[n] = step[n][h[n - 1]]
  BY <1>5 DEF Iterates
<1>. HIDE DEF S
<1>7. ASSUME NEW n \in 0..N
      PROVE  h[n] = IF n = 0 THEN s
                    ELSE IF n \in act THEN Give(capacity, share, h[n - 1], n)
                    ELSE h[n - 1]
  <2>1. CASE n = 0 BY <1>6, <2>1
  <2>2. CASE n # 0
    <3>1. n - 1 \in 0..N /\ n \in 1..N BY <1>1, <2>2
    <3>2. h[n - 1] \in S BY <1>6, <3>1
    <3>3. h[n] = step[n][h[n - 1]] BY <1>6, <3>1
    <3>4. step[n][h[n - 1]]
            = IF n \in act THEN Give(capacity, share, h[n - 1], n) ELSE h[n - 1]
      BY <3>1, <3>2
    <3>. QED BY <3>3, <3>4, <2>2
  <2>. QED BY <2>1, <2>2
<1>8. h = [n \in 0..N |-> IF n = 0 THEN s
                          ELSE IF n \in act THEN Give(capacity, share, h[n - 1], n)
                          ELSE h[n - 1]]
  BY <1>6, <1>7
<1>9. g = [n \in 0..N |-> IF n = 0 THEN s
                          ELSE IF n \in act THEN Give(capacity, share, g[n - 1], n)
                          ELSE g[n - 1]]
  BY <1>8 DEF Given, share
<1>. HIDE DEF g, act, step
<1>10. g[0] = s BY <1>9, <1>1
<1>11. ASSUME NEW n \in 1..N
       PROVE  g[n] = IF n \in act THEN Give(capacity, share, g[n - 1], n)
                     ELSE g[n - 1]
  <2>1. n \in 0..N /\ n # 0 BY <1>1
  <2>. QED BY <1>9, <2>1
<1>12. \A n \in 0..N : g[n] \in S
  <2>. DEFINE A == {n \in 0..N : g[n] \in S}
  <2>1. 0 \in A BY <1>10, <1>1 DEF S
  <2>2. ASSUME NEW n \in 1..N, n - 1 \in A PROVE n \in A
    BY <2>2, <1>11, <1>3, <1>1
  <2>. HIDE DEF N
  <2>3. 0..N \subseteq A
    <3>. HIDE DEF A
    <3>. QED BY <1>1, <2>1, <2>2, Upto
  <2>. QED BY <2>3
<1>13. g \in [0..N -> S] BY <1>9, <1>12
<1>. QED BY <1>10, <1>11, <1>13 DEF g, act, share, S

\* A round keeps the division sound, and gives out the rest or fills a partition.
LEMMA RoundFills ==
  ASSUME NEW limit \in Nat, NEW capacity \in [Partitions -> Nat],
         NEW s \in Sound(limit, capacity)
  PROVE  LET t == BudgetRound(capacity, s)
         IN  /\ t \in Sound(limit, capacity)
             /\ \/ t.remaining = 0
                \/ Active(capacity, t) = {}
                \/ /\ Active(capacity, t) \subseteq Active(capacity, s)
                   /\ Active(capacity, t) # Active(capacity, s)
<1>. DEFINE t == BudgetRound(capacity, s)
            act == Active(capacity, s)
            N == Len(Log)
            S == Sound(limit, capacity)
<1>1. CASE s.remaining = 0 \/ act = {}
  BY <1>1 DEF BudgetRound
<1>2. CASE ~(s.remaining = 0 \/ act = {})
  <2>. DEFINE g == Given(capacity, s)
              share == Share(capacity, s)
  <2>1. N \in Nat /\ Partitions = 1..N BY Numbered
  <2>2. t = g[N] BY <1>2 DEF BudgetRound
  <2>3. act # {} BY <1>2
  <2>4. /\ g \in [0..N -> S] /\ g[0] = s
        /\ \A p \in 1..N : g[p] = IF p \in act THEN Give(capacity, share, g[p - 1], p)
                                  ELSE g[p - 1]
    <3>. HIDE DEF S
    <3>. QED BY <2>3, GivenDef DEF S
  <2>5. /\ s.remaining \in Nat /\ act \subseteq Partitions
        /\ \A p \in act : s.budget[p] < capacity[p]
        /\ \A p \in Partitions \ act : ~(s.budget[p] < capacity[p])
    BY DEF Sound, Active
  <2>6. share \in Nat /\ s.remaining <= Cardinality(act) * share
    BY <2>3, <2>5, ShareEnough
  <2>7. \A x \in S : /\ x.remaining \in Nat /\ x.budget \in [Partitions -> Nat]
                     /\ \A p \in Partitions : x.budget[p] <= capacity[p]
    BY DEF Sound
  <2>. HIDE DEF g, share, act, S, N, t
  <2>8. ASSUME NEW p \in 1..N
        PROVE  /\ g[p].remaining <= g[p - 1].remaining
               /\ \A x \in Partitions : g[p - 1].budget[x] <= g[p].budget[x]
               /\ p \in act => \/ g[p].remaining = 0
                               \/ g[p].budget[p] = capacity[p]
                               \/ g[p].remaining = g[p - 1].remaining - share
               /\ p \notin act => g[p] = g[p - 1]
    <3>1. p - 1 \in 0..N /\ p \in Partitions BY <2>1
    <3>2. g[p - 1] \in S BY <2>4, <3>1
    <3>3. CASE p \in act
      <4>1. g[p] = Give(capacity, share, g[p - 1], p) BY <2>4, <3>3
      <4>. DEFINE x == g[p - 1]
      <4>2. x \in Sound(limit, capacity) BY <3>2 DEF S
      <4>. HIDE DEF x
      <4>3. LET y == Give(capacity, share, x, p)
            IN  /\ y.remaining <= x.remaining
                /\ \A z \in Partitions : x.budget[z] <= y.budget[z]
                /\ \/ y.remaining = 0
                   \/ y.budget[p] = capacity[p]
                   \/ y.remaining = x.remaining - share
        BY <4>2, <3>1, <2>6, GiveSound
      <4>4. g[p] = Give(capacity, share, x, p) BY <4>1 DEF x
      <4>. QED BY <4>3, <4>4, <3>3 DEF x
    <3>4. CASE p \notin act
      <4>1. g[p] = g[p - 1] BY <2>4, <3>4
      <4>. QED BY <4>1, <3>2, <3>4, <2>7
    <3>. QED BY <3>3, <3>4
  <2>9. \A n \in 0..N : \A p \in 0..n :
            /\ g[n].remaining <= g[p].remaining
            /\ \A x \in Partitions : g[p].budget[x] <= g[n].budget[x]
    <3>. DEFINE A == {n \in 0..N : \A p \in 0..n :
                        /\ g[n].remaining <= g[p].remaining
                        /\ \A x \in Partitions : g[p].budget[x] <= g[n].budget[x]}
    <3>1. 0 \in A
      <4>1. g[0] \in S BY <2>1, <2>4
      <4>. QED BY <4>1, <2>7, <2>1
    <3>2. ASSUME NEW n \in 1..N, n - 1 \in A PROVE n \in A
      <4>1. SUFFICES ASSUME NEW p \in 0..n
                     PROVE  /\ g[n].remaining <= g[p].remaining
                            /\ \A x \in Partitions : g[p].budget[x] <= g[n].budget[x]
        BY <2>1
      <4>2. g[n] \in S /\ g[n - 1] \in S /\ g[p] \in S BY <2>1, <2>4
      <4>3. CASE p = n BY <4>2, <4>3, <2>7
      <4>4. CASE p # n
        <5>1. p \in 0..(n - 1) BY <4>4
        <5>2. /\ g[n - 1].remaining <= g[p].remaining
              /\ \A x \in Partitions : g[p].budget[x] <= g[n - 1].budget[x]
          BY <5>1, <3>2
        <5>3. g[n].remaining <= g[p].remaining BY <5>2, <2>8, <4>2, <2>7
        <5>4. ASSUME NEW x \in Partitions PROVE g[p].budget[x] <= g[n].budget[x]
          <6>1. g[p].budget[x] \in Nat /\ g[n].budget[x] \in Nat
                /\ g[n - 1].budget[x] \in Nat
            BY <4>2, <2>7
          <6>2. g[n - 1].budget[x] <= g[n].budget[x] BY <2>8
          <6>3. g[p].budget[x] <= g[n - 1].budget[x] BY <5>2
          <6>. QED BY <6>1, <6>2, <6>3
        <5>. QED BY <5>3, <5>4
      <4>. QED BY <4>3, <4>4
    <3>3. 0..N \subseteq A
      <4>. HIDE DEF A
      <4>. QED BY <2>1, <3>1, <3>2, Upto
    <3>. QED BY <3>3
  <2>10. t \in S /\ N \in 0..N /\ 0 \in 0..N BY <2>1, <2>2, <2>4
  <2>11. Active(capacity, t) \subseteq act
    <3>1. ASSUME NEW p \in Partitions, t.budget[p] < capacity[p] PROVE p \in act
      <4>1. s.budget[p] <= t.budget[p] BY <2>2, <2>4, <2>9, <2>10
      <4>2. s.budget[p] \in Nat /\ t.budget[p] \in Nat /\ capacity[p] \in Nat
        BY <2>7, <2>10 DEF S
      <4>. QED BY <3>1, <4>1, <4>2, <2>5
    <3>. QED BY <3>1 DEF Active
  <2>12. ASSUME t.remaining # 0, Active(capacity, t) = act PROVE FALSE
    <3>. DEFINE C(n) == Cardinality(act \cap (1..n))
                A == {n \in 0..N : /\ C(n) \in Nat
                                   /\ g[n].remaining + C(n) * share = s.remaining}
    <3>1. IsFiniteSet(act) BY ActiveFinite DEF act
    <3>2. \A n \in 0..N : IsFiniteSet(act \cap (1..n)) /\ C(n) \in Nat
      <4>1. \A n \in 0..N : act \cap (1..n) \in SUBSET act OBVIOUS
      <4>. QED BY <4>1, <3>1, FS_Subset, FS_CardinalityType
    <3>3. 0 \in A
      <4>1. act \cap (1..0) = {} OBVIOUS
      <4>2. C(0) = 0 BY <4>1, FS_EmptySet
      <4>. QED BY <4>2, <2>1, <2>4, <2>5, <2>6
    <3>4. ASSUME NEW n \in 1..N, n - 1 \in A PROVE n \in A
      <4>1. n \in 0..N /\ n - 1 \in 0..N /\ n \in Partitions BY <2>1
      <4>2. /\ g[n].remaining \in Nat /\ g[n - 1].remaining \in Nat
            /\ C(n) \in Nat /\ C(n - 1) \in Nat
        BY <4>1, <2>4, <2>7, <3>2
      <4>3. g[n - 1].remaining + C(n - 1) * share = s.remaining BY <3>4
      <4>4. CASE n \in act
        <5>1. act \cap (1..n) = (act \cap (1..(n - 1))) \cup {n} BY <4>4, <2>1
        <5>2. n \notin act \cap (1..(n - 1)) BY <2>1
        <5>3. C(n) = C(n - 1) + 1 BY <5>1, <5>2, <3>2, <4>1, FS_AddElement
        <5>4. g[n].remaining # 0
          <6>1. t.remaining <= g[n].remaining BY <2>2, <2>9, <2>10, <4>1
          <6>2. t.remaining \in Nat BY <2>10, <2>7
          <6>. QED BY <6>1, <6>2, <2>12, <4>2
        <5>5. g[n].budget[n] # capacity[n]
          <6>1. g[n].budget[n] <= t.budget[n] BY <2>2, <2>9, <2>10, <4>1
          <6>2. t.budget[n] < capacity[n] BY <2>12, <4>4 DEF Active
          <6>3. /\ t.budget[n] \in Nat /\ capacity[n] \in Nat
                /\ g[n].budget[n] \in Nat
            BY <2>10, <2>7, <2>4, <4>1
          <6>. QED BY <6>1, <6>2, <6>3
        <5>6. g[n].remaining = g[n - 1].remaining - share
          BY <2>8, <4>4, <5>4, <5>5
        <5>7. (C(n - 1) + 1) * share = C(n - 1) * share + share
              /\ C(n - 1) * share \in Nat
          <6>. DEFINE c == C(n - 1)
          <6>1. c \in Nat BY <4>2
          <6>. HIDE DEF C, c
          <6>2. (c + 1) * share = c * share + share /\ c * share \in Nat
            BY <6>1, <2>6
          <6>. QED BY <6>2 DEF c
        <5>8. C(n) * share = C(n - 1) * share + share BY <5>3, <5>7
        <5>9. g[n].remaining + C(n) * share = s.remaining
          <6>. DEFINE u == C(n - 1) * share
                      v == C(n) * share
          <6>1. u \in Nat /\ v = u + share /\ g[n - 1].remaining + u = s.remaining
            BY <5>7, <5>8, <4>3
          <6>. HIDE DEF u, v, C
          <6>2. g[n].remaining + v = s.remaining
            BY <6>1, <5>6, <4>2, <2>5, <2>6
          <6>. QED BY <6>2 DEF v
        <5>. QED BY <5>9, <4>1, <4>2
      <4>5. CASE n \notin act
        <5>1. act \cap (1..n) = act \cap (1..(n - 1)) BY <4>5, <2>1
        <5>2. C(n) = C(n - 1) BY <5>1
        <5>3. g[n] = g[n - 1] BY <2>8, <4>5
        <5>4. g[n].remaining + C(n) * share = s.remaining BY <5>2, <5>3, <4>3
        <5>. QED BY <5>4, <4>1, <4>2
      <4>. QED BY <4>4, <4>5
    <3>5. 0..N \subseteq A
      <4>. HIDE DEF A
      <4>. QED BY <2>1, <3>3, <3>4, Upto
    <3>6. act \cap (1..N) = act BY <2>1, <2>5
    <3>7. t.remaining + Cardinality(act) * share = s.remaining
      BY <3>5, <3>6, <2>10, <2>2
    <3>8. t.remaining \in Nat /\ Cardinality(act) * share \in Nat
      <4>1. Cardinality(act) \in Nat BY <3>1, FS_CardinalityType
      <4>2. t.remaining \in Nat BY <2>10, <2>7
      <4>. QED BY <4>1, <4>2, <2>6
    <3>. QED BY <3>7, <3>8, <2>6, <2>5, <2>12
  <2>. QED BY <2>10, <2>11, <2>12 DEF t, act, S
<1>. QED BY <1>1, <1>2

\* The rounds are what their recursion says.
LEMMA RoundsDef ==
  ASSUME NEW limit \in Nat, NEW capacity \in [Partitions -> Nat]
  PROVE  LET g == Rounds(limit, capacity)
         IN  /\ g \in [0..Len(Log) -> Sound(limit, capacity)]
             /\ \A n \in 1..Len(Log) : g[n] = BudgetRound(capacity, g[n - 1])
<1>. DEFINE N == Len(Log)
            S == Sound(limit, capacity)
            s == [budget |-> [p \in Partitions |-> 0], remaining |-> limit]
            step == [p \in 1..N |-> [x \in S |-> BudgetRound(capacity, x)]]
            g == Rounds(limit, capacity)
<1>1. N \in Nat /\ Partitions = 1..N BY Numbered
<1>2. s \in S
  <2>1. s.budget = [p \in Partitions |-> 0] /\ s.remaining = limit OBVIOUS
  <2>2. s \in [budget : [Partitions -> Nat], remaining : Nat] OBVIOUS
  <2>3. \A p \in Partitions : s.budget[p] <= capacity[p] BY <2>1
  <2>4. Total(s.budget) + s.remaining = limit BY <2>1, TotalZero
  <2>. QED BY <2>2, <2>3, <2>4 DEF Sound
<1>. HIDE DEF s
<1>3. \A x \in S : BudgetRound(capacity, x) \in S BY RoundFills
<1>4. step \in [1..N -> [S -> S]] BY <1>3
<1>5. PICK h : Iterates(h, N, S, s, step)
  <2>. HIDE DEF step, S, N
  <2>. QED BY <1>1, <1>4, <1>2, IteratesExist
<1>6. /\ h \in [0..N -> S] /\ h[0] = s
      /\ \A n \in 1..N : h[n] = step[n][h[n - 1]]
  BY <1>5 DEF Iterates
<1>. HIDE DEF S
<1>7. ASSUME NEW n \in 0..N
      PROVE  h[n] = IF n = 0 THEN s ELSE BudgetRound(capacity, h[n - 1])
  <2>1. CASE n = 0 BY <1>6, <2>1
  <2>2. CASE n # 0
    <3>1. n - 1 \in 0..N /\ n \in 1..N BY <1>1, <2>2
    <3>2. h[n - 1] \in S BY <1>6, <3>1
    <3>3. h[n] = step[n][h[n - 1]] BY <1>6, <3>1
    <3>4. step[n][h[n - 1]] = BudgetRound(capacity, h[n - 1]) BY <3>1, <3>2
    <3>. QED BY <3>3, <3>4, <2>2
  <2>. QED BY <2>1, <2>2
<1>8. h = [n \in 0..N |-> IF n = 0 THEN s ELSE BudgetRound(capacity, h[n - 1])]
  BY <1>6, <1>7
<1>9. g = [n \in 0..N |-> IF n = 0 THEN s ELSE BudgetRound(capacity, g[n - 1])]
  BY <1>8 DEF Rounds, s
<1>. HIDE DEF g, step
<1>10. g[0] = s BY <1>9, <1>1
<1>11. ASSUME NEW n \in 1..N PROVE g[n] = BudgetRound(capacity, g[n - 1])
  <2>1. n \in 0..N /\ n # 0 BY <1>1
  <2>. QED BY <1>9, <2>1
<1>12. \A n \in 0..N : g[n] \in S
  <2>. DEFINE A == {n \in 0..N : g[n] \in S}
  <2>1. 0 \in A BY <1>10, <1>1, <1>2
  <2>2. ASSUME NEW n \in 1..N, n - 1 \in A PROVE n \in A
    BY <2>2, <1>11, <1>3, <1>1
  <2>. HIDE DEF N
  <2>3. 0..N \subseteq A
    <3>. HIDE DEF A
    <3>. QED BY <1>1, <2>1, <2>2, Upto
  <2>. QED BY <2>3
<1>13. g \in [0..N -> S] BY <1>9, <1>12
<1>. QED BY <1>11, <1>13 DEF g, S

\* The budgets of a backward page use up the limit, or everything the log holds
\* below the ends, and ask no partition for more than it has.
LEMMA BudgetsSound ==
  ASSUME NEW limit \in Nat, NEW capacity \in [Partitions -> Nat]
  PROVE  LET budget == Rounds(limit, capacity)[Len(Log)].budget
         IN  /\ budget \in [Partitions -> Nat]
             /\ \A p \in Partitions : budget[p] <= capacity[p]
             /\ Total(budget) = Min({limit, Total(capacity)})
<1>. DEFINE N == Len(Log)
            S == Sound(limit, capacity)
            g == Rounds(limit, capacity)
            Act(n) == Active(capacity, g[n])
            A == {n \in 0..N : \/ g[n].remaining = 0
                               \/ Cardinality(Act(n)) <= N - n}
<1>1. N \in Nat /\ Partitions = 1..N BY Numbered
<1>2. /\ g \in [0..N -> S] /\ \A n \in 1..N : g[n] = BudgetRound(capacity, g[n - 1])
  BY RoundsDef
<1>3. \A n \in 0..N : g[n] \in S BY <1>2
<1>4. ASSUME NEW x \in S
      PROVE  LET y == BudgetRound(capacity, x)
             IN  \/ y.remaining = 0
                 \/ Active(capacity, y) = {}
                 \/ /\ Active(capacity, y) \subseteq Active(capacity, x)
                    /\ Active(capacity, y) # Active(capacity, x)
  BY RoundFills
<1>5. \A x \in S : x.remaining = 0 => BudgetRound(capacity, x) = x
  BY DEF BudgetRound
<1>6. \A n \in 0..N : IsFiniteSet(Act(n)) /\ Cardinality(Act(n)) \in Nat
  BY ActiveFinite
<1>7. \A x \in S : /\ x.remaining \in Nat /\ x.budget \in [Partitions -> Nat]
                   /\ \A p \in Partitions : x.budget[p] <= capacity[p]
                   /\ Total(x.budget) + x.remaining = limit
  BY DEF Sound
<1>. HIDE DEF g, S
<1>8. 0 \in A
  <2>1. Act(0) \in SUBSET (1..N) BY <1>1 DEF Active
  <2>2. IsFiniteSet(1..N) /\ Cardinality(1..N) = N
    <3>1. 1 \in Int /\ N \in Int BY <1>1
    <3>. HIDE DEF N
    <3>2. IsFiniteSet(1..N)
          /\ Cardinality(1..N) = IF 1 > N THEN 0 ELSE N - 1 + 1
      BY <3>1, FS_Interval
    <3>. QED BY <3>2, <1>1
  <2>3. Cardinality(Act(0)) <= N
    <3>. HIDE DEF Act, N
    <3>. QED BY <2>1, <2>2, FS_Subset
  <2>. QED BY <2>3, <1>1
<1>9. ASSUME NEW n \in 1..N, n - 1 \in A PROVE n \in A
  <2>. DEFINE x == g[n - 1]
              y == g[n]
  <2>1. x \in S /\ y \in S /\ y = BudgetRound(capacity, x) BY <1>1, <1>2
  <2>2. n - 1 \in 0..N /\ n \in 0..N BY <1>1
  <2>3. CASE x.remaining = 0 BY <2>1, <2>2, <2>3, <1>5
  <2>4. CASE x.remaining # 0
    <3>1. Cardinality(Act(n - 1)) <= N - (n - 1) BY <1>9, <2>4
    <3>2. CASE y.remaining = 0 BY <3>2, <2>2
    <3>3. CASE Act(n) = {}
      <4>1. Cardinality(Act(n)) = 0 BY <3>3, FS_EmptySet
      <4>. QED BY <4>1, <2>2, <1>1
    <3>4. CASE Act(n) \subseteq Act(n - 1) /\ Act(n) # Act(n - 1)
      <4>1. /\ Cardinality(Act(n)) <= Cardinality(Act(n - 1))
            /\ Cardinality(Act(n)) # Cardinality(Act(n - 1))
        <5>1. IsFiniteSet(Act(n - 1)) /\ Act(n) \in SUBSET Act(n - 1)
          BY <3>4, <1>6, <2>2
        <5>. HIDE DEF Act
        <5>. QED BY <5>1, <3>4, FS_Subset
      <4>2. Cardinality(Act(n)) \in Nat /\ Cardinality(Act(n - 1)) \in Nat
        BY <1>6, <2>2
      <4>3. Cardinality(Act(n)) <= N - n BY <4>1, <4>2, <3>1, <1>1
      <4>. QED BY <4>3, <2>2
    <3>5. \/ y.remaining = 0 \/ Act(n) = {}
          \/ Act(n) \subseteq Act(n - 1) /\ Act(n) # Act(n - 1)
      BY <1>4, <2>1
    <3>. QED BY <3>2, <3>3, <3>4, <3>5
  <2>. QED BY <2>3, <2>4
<1>10. N \in A
  <2>1. N \in 0..N BY <1>1
  <2>. HIDE DEF A, N
  <2>2. 0..N \subseteq A BY <1>1, <1>8, <1>9, Upto
  <2>. QED BY <2>1, <2>2
<1>. DEFINE b == g[N].budget
<1>11. /\ b \in [Partitions -> Nat] /\ \A p \in Partitions : b[p] <= capacity[p]
       /\ g[N].remaining \in Nat /\ Total(b) + g[N].remaining = limit
  BY <1>1, <1>3, <1>7
<1>12. g[N].remaining = 0 \/ b = capacity
  <2>1. CASE g[N].remaining = 0 BY <2>1
  <2>2. CASE Cardinality(Act(N)) <= N - N
    <3>1. Act(N) = {} BY <2>2, <1>6, <1>1, FS_EmptySet
    <3>2. \A p \in Partitions : ~(b[p] < capacity[p]) BY <3>1 DEF Active
    <3>3. \A p \in Partitions : b[p] = capacity[p]
      <4>. HIDE DEF b
      <4>. QED BY <3>2, <1>11
    <3>. QED BY <3>3, <1>11
  <2>. QED BY <2>1, <2>2, <1>10
<1>13. Total(b) <= Total(capacity) /\ Total(b) \in Nat /\ Total(capacity) \in Nat
  BY <1>11, TotalAtMost, TotalType
<1>14. Total(b) = limit \/ (Total(b) = Total(capacity) /\ Total(b) <= limit)
  <2>. HIDE DEF b
  <2>. QED BY <1>11, <1>12, <1>13
<1>15. ASSUME NEW u \in Nat, NEW v \in Nat, u <= v PROVE Min({u, v}) = u /\ Min({v, u}) = u
  <2>1. \E x \in {u, v} : \A y \in {u, v} : x <= y BY <1>15
  <2>2. {u, v} = {v, u} OBVIOUS
  <2>. QED BY <2>1, <2>2, <1>15 DEF Min
<1>16. Total(b) = Min({limit, Total(capacity)})
  <2>. HIDE DEF b
  <2>1. CASE Total(b) = limit BY <2>1, <1>13, <1>15
  <2>2. CASE Total(b) = Total(capacity) /\ Total(b) <= limit
    BY <2>2, <1>13, <1>15
  <2>. QED BY <2>1, <2>2, <1>14
<1>. QED BY <1>11, <1>16 DEF g

---------------------------------------------------------------------------
\* The inductive invariant, in named parts.

\* The shapes of the data: records by partition and offset, offsets of all
\* partitions, chains of pages, events, cursor ids.
Records == Partitions \X Nat
Offs == [Partitions -> Nat]
Chains == [covered : SUBSET Records, hole : BOOLEAN, from : Offs]
Events == [type : {"PHASE", "MESSAGE", "DONE", "CLOSE", "FAIL"},
           cursor : Nat, message : Records \cup {<<>>}]
Ids == 0..Len(issued)

\* The jobs, by their state.
SentJobs == [state : {"sent"}, q : Queries, cursor : Nat]
RunJobs == [state : {"reading", "done", "ended"}, q : Queries, starts : Offs,
            ends : Offs, pos : Offs, count : Nat, merged : SUBSET Records,
            chain : Chains, old : SUBSET Records, empty : BOOLEAN]
\* A page that is or was being read.
Ran == job.state \in {"reading", "done", "ended"}

\* What the tab holds.
ClientShape ==
    /\ history \in Seq([q : Queries, cursor : Nat])
    /\ \A i \in DOMAIN history : history[i].cursor <= urls
    /\ visit \in DOMAIN history /\ urls \in 0..MaxUrls /\ faults \in 0..MaxFaults
    /\ stream \in [state : {"none", "sent", "open", "failed", "closed", "refused",
                            "retry"}, q : Queries, cursor : Ids]
    /\ isFetching \in BOOLEAN /\ prevCursor \in 0..MaxUrls
    /\ nextCursor \in Ids
    /\ messages \in Seq(Records) /\ pending \in Seq(Records)
    /\ wire \in Seq(Events)
    /\ \A i \in DOMAIN wire : wire[i].cursor \in Ids
                  /\ (wire[i].type = "MESSAGE" => wire[i].message \in Records)

\* The retained offsets lie in the log.
LogShape ==
    /\ logStart \in Offs /\ logEnd \in Offs
    /\ \A p \in Partitions : logStart[p] <= logEnd[p] /\ logEnd[p] <= Len(Log[p])

\* A cached cursor points into the log.
CacheShape ==
    /\ issued \in Seq(Queries \cup {[mode |-> "aborted"]})
    /\ order \in Seq(Nat) /\ expired \subseteq DOMAIN issued
    /\ DOMAIN entries \subseteq DOMAIN issued
    /\ \A i \in DOMAIN entries : entries[i] = [offsets |-> entries[i].offsets, chain |-> entries[i].chain]
          /\ entries[i].offsets \in Offs /\ entries[i].chain \in Chains
          /\ \A p \in Partitions : entries[i].offsets[p] <= logEnd[p]
                       /\ entries[i].chain.from[p] <= logEnd[p]

\* A page has read from its start to its position, backward below its end.
JobShape ==
    \/ job = NoJob
    \/ job \in SentJobs /\ job.cursor \in Ids
    \/ /\ job \in RunJobs /\ IsFiniteSet(job.merged)
       /\ \A p \in Partitions : /\ job.starts[p] <= job.pos[p] /\ job.pos[p] <= logEnd[p]
                                /\ job.ends[p] <= logEnd[p] /\ job.chain.from[p] <= logEnd[p]
       /\ \A m \in job.merged : job.starts[m[1]] <= m[2] /\ m[2] < job.pos[m[1]]
       /\ job.q.mode \in Backward => \A m \in job.merged : m[2] < job.ends[m[1]]

\* From an event on: messages, a cursor, and at the very end the close.
Body(from) ==
    \A i \in from..Len(wire) :
        /\ wire[i].type \in {"MESSAGE", "DONE", "CLOSE"}
        /\ wire[i].type = "CLOSE" => i = Len(wire) /\ job.state # "reading"

\* What may be on its way in each state of the stream; what the server works
\* on is the request of the address.
Protocol ==
    /\ stream.q = Url.q
    /\ job # NoJob => job.q = stream.q
    /\ stream.state \in {"none", "retry", "refused"} => wire = <<>> /\ job = NoJob
    /\ stream.state = "sent" =>
         \/ wire = <<>> /\ job.state = "sent"
         \/ /\ Len(wire) = 2 /\ wire[1].type = "FAIL" /\ wire[2].type = "CLOSE"
            /\ job = NoJob
         \/ wire # <<>> /\ wire[1].type = "PHASE" /\ Ran /\ Body(2)
    /\ stream.state = "open" => Ran /\ Body(1)
    /\ stream.state = "failed" => Len(wire) = 1 /\ wire[1].type = "CLOSE" /\ job = NoJob
    /\ stream.state = "closed" => wire = <<>> /\ job.state \in {"done", "ended"}

\* Within a partition a forward page and a live stream arrive by growing
\* offsets, a backward page by falling ones.
Follows(q, a, b) ==
    a[1] = b[1] => IF q.mode \in Backward THEN a[2] > b[2] ELSE a[2] < b[2]

\* What arrived at the page and what is on its way to it.
Arrived == IF Answered THEN Range(messages) \cup Range(pending) ELSE {}
\* The messages on their way.
Incoming == {wire[i].message : i \in OnWire}
\* A list in the order its messages arrived.
InArrivalOrder(s) ==
    \A i, j \in DOMAIN s : i < j => Follows(job.q, s[i], s[j])

\* What the server answered is, in order, what arrived and what is on its way.
Delivered ==
    Ran =>
      /\ Answer = Arrived \cup Incoming
      /\ \A i, j \in OnWire : i < j => Follows(job.q, wire[i].message, wire[j].message)
      /\ \A r \in Arrived, s \in Incoming : Follows(job.q, r, s)
      /\ Answered =>
           /\ InArrivalOrder(IF job.q.mode = "TAILING" THEN Reverse(messages) ELSE messages)
           /\ InArrivalOrder(pending)
           /\ \A r \in Range(messages), s \in Range(pending) : Follows(job.q, r, s)

\* What is still retained between two offsets was read.
RetainedRead(covered, p, lo, hi) ==
    \A o \in Retained(p, lo, hi) : <<p, o>> \in covered

\* A forward cursor points past what its chain of pages has read.
ForwardEntry(e) ==
    /\ \A c \in e.chain.covered : c[2] < e.offsets[c[1]]
    /\ \A p \in Partitions : RetainedRead(e.chain.covered, p, e.chain.from[p], e.offsets[p])

\* A backward cursor points below what its chain of pages has read.
BackwardEntry(e) ==
    /\ \A p \in Partitions :
         \/ e.offsets[p] <= logStart[p]
         \/ \A c \in e.chain.covered : c[1] = p => e.offsets[p] <= c[2]
    /\ ~e.chain.hole => \A p \in Partitions :
         RetainedRead(e.chain.covered, p, e.offsets[p], e.chain.from[p])

\* Every cached cursor agrees with the pages that led to it.
EntriesRead ==
    \A i \in DOMAIN entries :
        /\ issued[i].mode \in Forward => ForwardEntry(entries[i])
        /\ issued[i].mode \in Backward => BackwardEntry(entries[i])

\* A forward page continues where the chain ended and leaves nothing out.
ForwardJob ==
    /\ \A c \in job.old : c[2] < job.starts[c[1]]
    /\ \A p \in Partitions : RetainedRead(job.chain.covered, p, job.chain.from[p], job.pos[p])

\* A backward page ends where the chain ended; below it, it reads upwards.
BackwardJob ==
    /\ \A p \in Partitions :
         \/ job.starts[p] = job.ends[p] /\ job.ends[p] <= logStart[p]
         \/ \A c \in job.old : c[1] = p => job.ends[p] <= c[2]
    /\ \A p \in Partitions : job.starts[p] <= job.ends[p]
    /\ job.empty => job.chain.hole
    /\ ~job.chain.hole => \A p \in Partitions :
         /\ RetainedRead(job.chain.covered, p, job.ends[p], job.chain.from[p])
         /\ RetainedRead(job.chain.covered, p, job.starts[p],
                  IF job.pos[p] <= job.ends[p] THEN job.pos[p] ELSE job.ends[p])
    /\ job.state = "done" => job.empty \/ \A p \in Partitions : job.pos[p] >= job.ends[p]

\* The page belongs to its chain.
JobRead ==
    Ran =>
      /\ job.chain.covered = job.old \cup job.merged
      /\ job.q.mode \in Forward => ForwardJob
      /\ job.q.mode \in Backward => BackwardJob

---------------------------------------------------------------------------
\* The events a batch is sent as.

\* How many of the hits are sent before r.
Rank(q, hits, r) == Cardinality({x \in hits : Precedes(q, x, r)})

\* The ranks number the hits.
LEMMA RankFacts ==
  ASSUME NEW q, NEW hits \in SUBSET Records, IsFiniteSet(hits),
         q.mode \notin Backward => \A r, s \in hits : r[1] = s[1]
  PROVE  /\ Cardinality(hits) \in Nat
         /\ \A r \in hits : Rank(q, hits, r) + 1 \in 1..Cardinality(hits)
         /\ \A r, s \in hits : r # s => Rank(q, hits, r) # Rank(q, hits, s)
         /\ \A r, s \in hits : Rank(q, hits, r) < Rank(q, hits, s) => Precedes(q, r, s)
         /\ \A i \in 1..Cardinality(hits) : \E r \in hits : Rank(q, hits, r) = i - 1
<1>. DEFINE n == Cardinality(hits)
            Below(r) == {x \in hits : Precedes(q, x, r)}
<1>1. n \in Nat BY FS_CardinalityType
<1>2. \A r \in hits : r[1] \in Nat /\ r[2] \in Nat /\ r = <<r[1], r[2]>>
  BY Numbered DEF Records
<1>3. \A r, s \in hits : r # s => Precedes(q, r, s) \/ Precedes(q, s, r)
  <2>1. SUFFICES ASSUME NEW r \in hits, NEW s \in hits, r # s
                 PROVE  Precedes(q, r, s) \/ Precedes(q, s, r)
    OBVIOUS
  <2>2. /\ r[1] \in Nat /\ r[2] \in Nat /\ s[1] \in Nat /\ s[2] \in Nat
        /\ r[1] # s[1] \/ r[2] # s[2]
    BY <1>2, <2>1
  <2>3. CASE q.mode \in Backward BY <2>2, <2>3 DEF Precedes
  <2>4. CASE q.mode \notin Backward
    <3>1. r[1] = s[1] BY <2>4
    <3>. QED BY <2>2, <2>4, <3>1 DEF Precedes
  <2>. QED BY <2>3, <2>4
<1>4. \A r, s \in hits : Precedes(q, r, s) => ~Precedes(q, s, r)
  <2>1. SUFFICES ASSUME NEW r \in hits, NEW s \in hits, Precedes(q, r, s)
                 PROVE  ~Precedes(q, s, r)
    OBVIOUS
  <2>2. r[1] \in Nat /\ r[2] \in Nat /\ s[1] \in Nat /\ s[2] \in Nat BY <1>2
  <2>. QED BY <2>1, <2>2 DEF Precedes
<1>5. \A r, s, t \in hits : Precedes(q, r, s) /\ Precedes(q, s, t) => Precedes(q, r, t)
  <2>1. SUFFICES ASSUME NEW r \in hits, NEW s \in hits, NEW t \in hits,
                        Precedes(q, r, s), Precedes(q, s, t)
                 PROVE  Precedes(q, r, t)
    OBVIOUS
  <2>2. /\ r[1] \in Nat /\ r[2] \in Nat /\ s[1] \in Nat /\ s[2] \in Nat
        /\ t[1] \in Nat /\ t[2] \in Nat
    BY <1>2
  <2>. QED BY <2>1, <2>2 DEF Precedes
<1>6. \A r \in hits : /\ IsFiniteSet(Below(r)) /\ Below(r) \in SUBSET (hits \ {r})
                      /\ Rank(q, hits, r) \in Nat
                      /\ Rank(q, hits, r) = Cardinality(Below(r))
  <2>1. \A r \in hits : Below(r) \in SUBSET (hits \ {r}) BY <1>4
  <2>2. \A r \in hits : Below(r) \in SUBSET hits OBVIOUS
  <2>3. \A r \in hits : Rank(q, hits, r) = Cardinality(Below(r)) BY DEF Rank
  <2>. HIDE DEF Below
  <2>. QED BY <2>1, <2>2, <2>3, FS_Subset, FS_CardinalityType
<1>7. ASSUME NEW r \in hits PROVE Rank(q, hits, r) + 1 \in 1..n
  <2>1. IsFiniteSet(hits \ {r}) /\ Cardinality(hits \ {r}) = n - 1
    BY FS_RemoveElement
  <2>2. Cardinality(Below(r)) <= n - 1
    <3>. HIDE DEF n, Below
    <3>. QED BY <1>6, <2>1, FS_Subset
  <2>3. Rank(q, hits, r) \in Nat /\ Rank(q, hits, r) <= n - 1
    <3>. HIDE DEF n, Below
    <3>. QED BY <2>2, <1>6
  <2>. HIDE DEF n
  <2>. QED BY <2>3, <1>1
<1>8. ASSUME NEW r \in hits, NEW s \in hits, Precedes(q, r, s)
      PROVE  Rank(q, hits, r) < Rank(q, hits, s)
  <2>1. Below(r) \in SUBSET Below(s) BY <1>5, <1>8
  <2>2. r \in Below(s) /\ r \notin Below(r) BY <1>4, <1>8
  <2>3. Cardinality(Below(r)) <= Cardinality(Below(s))
        /\ Cardinality(Below(r)) # Cardinality(Below(s))
    <3>. HIDE DEF Below
    <3>. QED BY <2>1, <2>2, <1>6, FS_Subset
  <2>4. Rank(q, hits, r) \in Nat /\ Rank(q, hits, s) \in Nat
        /\ Rank(q, hits, r) = Cardinality(Below(r))
        /\ Rank(q, hits, s) = Cardinality(Below(s))
    <3>. HIDE DEF Below
    <3>. QED BY <1>6
  <2>. HIDE DEF Below
  <2>. QED BY <2>3, <2>4
<1>9. \A r, s \in hits : r # s => Rank(q, hits, r) # Rank(q, hits, s)
  <2>1. SUFFICES ASSUME NEW r \in hits, NEW s \in hits, r # s
                 PROVE  Rank(q, hits, r) # Rank(q, hits, s)
    OBVIOUS
  <2>2. Rank(q, hits, r) \in Nat /\ Rank(q, hits, s) \in Nat
    <3>. HIDE DEF Below
    <3>. QED BY <1>6
  <2>3. Rank(q, hits, r) < Rank(q, hits, s) \/ Rank(q, hits, s) < Rank(q, hits, r)
    BY <2>1, <1>3, <1>8
  <2>. QED BY <2>2, <2>3
<1>10. \A r, s \in hits : Rank(q, hits, r) < Rank(q, hits, s) => Precedes(q, r, s)
  <2>1. SUFFICES ASSUME NEW r \in hits, NEW s \in hits,
                        Rank(q, hits, r) < Rank(q, hits, s), ~Precedes(q, r, s)
                 PROVE  FALSE
    OBVIOUS
  <2>2. Rank(q, hits, r) \in Nat /\ Rank(q, hits, s) \in Nat BY <1>6
  <2>3. CASE r = s BY <2>1, <2>2, <2>3
  <2>4. CASE Precedes(q, s, r) BY <2>1, <2>2, <2>4, <1>8
  <2>. QED BY <2>1, <2>3, <2>4, <1>3
<1>11. ASSUME NEW i \in 1..n PROVE \E r \in hits : Rank(q, hits, r) = i - 1
  <2>. DEFINE f == [r \in hits |-> Rank(q, hits, r) + 1]
  <2>1. f \in [hits -> 1..n] BY <1>7
  <2>2. \A r, s \in hits : f[r] = f[s] => r = s
    <3>1. SUFFICES ASSUME NEW r \in hits, NEW s \in hits, f[r] = f[s] PROVE r = s
      OBVIOUS
    <3>2. Rank(q, hits, r) \in Nat /\ Rank(q, hits, s) \in Nat BY <1>6
    <3>3. Rank(q, hits, r) = Rank(q, hits, s) BY <3>1, <3>2
    <3>. QED BY <3>3, <1>9
  <2>3. f \in Injection(hits, 1..n)
    <3>. HIDE DEF f
    <3>. QED BY <2>1, <2>2 DEF Injection, IsInjective
  <2>4. IsFiniteSet(1..n) /\ Cardinality(1..n) = n
    <3>1. 1 \in Int /\ n \in Int BY <1>1
    <3>. HIDE DEF n
    <3>2. IsFiniteSet(1..n)
          /\ Cardinality(1..n) = IF 1 > n THEN 0 ELSE n - 1 + 1
      BY <3>1, FS_Interval
    <3>. QED BY <3>2, <1>1
  <2>5. f \in Surjection(hits, 1..n)
    <3>. HIDE DEF f
    <3>. QED BY <2>3, <2>4, FS_Injection
  <2>6. PICK r \in hits : f[r] = i
    <3>. HIDE DEF f
    <3>. QED BY <2>5 DEF Surjection
  <2>7. Rank(q, hits, r) \in Nat BY <1>6
  <2>. QED BY <2>6, <2>7
<1>. QED BY <1>1, <1>7, <1>9, <1>10, <1>11

\* Send is the matching records, each once, as message events in the order of
\* the page.
LEMMA SendFacts ==
  ASSUME NEW q, NEW R \in SUBSET Records, IsFiniteSet(R),
         q.mode \notin Backward => \A r, s \in R : r[1] = s[1]
  PROVE  LET s == Send(q, R)
             hits == {r \in R : Matches(q, r[1], r[2])}
         IN  /\ s \in Seq(Events)
             /\ \A i \in DOMAIN s : /\ s[i].type = "MESSAGE" /\ s[i].cursor = 0
                                    /\ s[i].message \in hits
             /\ \A r \in hits : \E i \in DOMAIN s : s[i].message = r
             /\ \A i, j \in DOMAIN s : i < j => Follows(q, s[i].message, s[j].message)
<1>. DEFINE hits == {r \in R : Matches(q, r[1], r[2])}
            n == Cardinality(hits)
            Nth(i) == CHOOSE r \in hits :
                          Cardinality({x \in hits : Precedes(q, x, r)}) = i - 1
            s == Send(q, R)
<1>1. hits \in SUBSET Records /\ hits \in SUBSET R OBVIOUS
<1>2. IsFiniteSet(hits)
  <2>. HIDE DEF hits
  <2>. QED BY <1>1, FS_Subset
<1>3. q.mode \notin Backward => \A r, t \in hits : r[1] = t[1] BY <1>1
<1>. HIDE DEF hits
<1>4. /\ n \in Nat
      /\ \A r \in hits : Rank(q, hits, r) + 1 \in 1..n
      /\ \A r, t \in hits : r # t => Rank(q, hits, r) # Rank(q, hits, t)
      /\ \A r, t \in hits : Rank(q, hits, r) < Rank(q, hits, t) => Precedes(q, r, t)
      /\ \A i \in 1..n : \E r \in hits : Rank(q, hits, r) = i - 1
  BY <1>1, <1>2, <1>3, RankFacts
<1>5. ASSUME NEW i \in 1..n PROVE Nth(i) \in hits /\ Rank(q, hits, Nth(i)) = i - 1
  BY <1>4 DEF Rank
<1>6. s = [i \in 1..n |-> Message(Nth(i)[1], Nth(i)[2])] BY DEF Send, hits
<1>. HIDE DEF s, n, Nth
<1>7. \A r \in hits : r = <<r[1], r[2]>> BY <1>1 DEF Records
<1>8. ASSUME NEW i \in 1..n
      PROVE  s[i] = [type |-> "MESSAGE", cursor |-> 0, message |-> Nth(i)]
  BY <1>5, <1>6, <1>7 DEF Message, Event, None
<1>9. DOMAIN s = 1..n BY <1>6
<1>10. \A i \in 1..n : s[i] \in Events
  <2>1. SUFFICES ASSUME NEW i \in 1..n PROVE s[i] \in Events OBVIOUS
  <2>2. Nth(i) \in Records \cup {<<>>} BY <1>5, <1>1
  <2>3. s[i] = [type |-> "MESSAGE", cursor |-> 0, message |-> Nth(i)] BY <1>8
  <2>. HIDE DEF Records
  <2>. QED BY <2>2, <2>3 DEF Events
<1>11. s \in Seq(Events)
  <2>1. s \in [1..n -> Events] BY <1>6, <1>9, <1>10
  <2>. QED BY <2>1, <1>4
<1>12. \A i \in 1..n : /\ s[i].type = "MESSAGE" /\ s[i].cursor = 0
                       /\ s[i].message = Nth(i)
  <2>1. SUFFICES ASSUME NEW i \in 1..n
                 PROVE  s[i].type = "MESSAGE" /\ s[i].cursor = 0 /\ s[i].message = Nth(i)
    OBVIOUS
  <2>2. s[i] = [type |-> "MESSAGE", cursor |-> 0, message |-> Nth(i)] BY <1>8
  <2>. QED BY <2>2
<1>13. ASSUME NEW r \in hits PROVE \E i \in 1..n : s[i].message = r
  <2>. DEFINE i == Rank(q, hits, r) + 1
  <2>1. i \in 1..n BY <1>4
  <2>2. Rank(q, hits, r) \in Nat
    <3>1. {x \in hits : Precedes(q, x, r)} \in SUBSET hits OBVIOUS
    <3>. QED BY <3>1, <1>2, FS_Subset, FS_CardinalityType DEF Rank
  <2>3. Rank(q, hits, Nth(i)) = Rank(q, hits, r) /\ Nth(i) \in hits
    BY <1>5, <2>1, <2>2
  <2>4. Nth(i) = r BY <2>3, <1>4
  <2>. QED BY <2>1, <2>4, <1>12
<1>14. ASSUME NEW i \in 1..n, NEW j \in 1..n, i < j
       PROVE  Follows(q, s[i].message, s[j].message)
  <2>1. Rank(q, hits, Nth(i)) < Rank(q, hits, Nth(j)) BY <1>5, <1>14
  <2>2. Precedes(q, Nth(i), Nth(j)) BY <2>1, <1>4, <1>5
  <2>3. Nth(i) \in Records /\ Nth(j) \in Records BY <1>5, <1>1
  <2>4. Follows(q, Nth(i), Nth(j))
    <3>. DEFINE a == Nth(i)
                b == Nth(j)
    <3>1. a[1] \in Nat /\ a[2] \in Nat /\ b[1] \in Nat /\ b[2] \in Nat
      BY <2>3, Numbered DEF Records
    <3>2. Precedes(q, a, b) BY <2>2
    <3>. HIDE DEF a, b
    <3>3. Follows(q, a, b) BY <3>1, <3>2 DEF Precedes, Follows
    <3>. QED BY <3>3 DEF a, b
  <2>. QED BY <2>4, <1>12
<1>. QED BY <1>9, <1>11, <1>12, <1>13, <1>14, <1>5 DEF s, hits

---------------------------------------------------------------------------
\* Smallest and largest elements, offsets, polls.

\* A minimum is one of the numbers and below the others.
LEMMA MinFacts ==
  ASSUME NEW S \in SUBSET Nat, S # {}
  PROVE  Min(S) \in S /\ \A x \in S : Min(S) <= x
BY NatMin DEF Min

\* A maximum of bounded numbers is one of them and above the others.
LEMMA MaxFacts ==
  ASSUME NEW S \in SUBSET Nat, S # {}, NEW b \in Nat, \A x \in S : x <= b
  PROVE  Max(S) \in S /\ \A x \in S : x <= Max(S)
<1>. DEFINE T == {b - x : x \in S}
<1>1. T \in SUBSET Nat /\ T # {}
  <2>1. \A x \in S : b - x \in Nat OBVIOUS
  <2>. QED BY <2>1
<1>2. PICK t \in T : \A u \in T : t <= u
  <2>. HIDE DEF T
  <2>. QED BY <1>1, NatMin
<1>3. PICK m \in S : t = b - m BY <1>2
<1>4. ASSUME NEW x \in S PROVE m >= x
  <2>1. b - m <= b - x BY <1>2, <1>3
  <2>. QED BY <2>1
<1>. QED BY <1>4 DEF Max

\* The lengths of the partitions have a maximum.
LEMMA LongestFacts ==
  LET L == {Len(Log[p]) : p \in Partitions}
  IN  Partitions # {} => Max(L) \in Nat /\ \A p \in Partitions : Len(Log[p]) <= Max(L)
<1>. DEFINE L == {Len(Log[p]) : p \in Partitions}
            N == Len(Log)
            Bounded(n) == \E b \in Nat : \A p \in 1..n : Len(Log[p]) <= b
            A == {n \in 0..N : Bounded(n)}
<1>1. N \in Nat /\ Partitions = 1..N BY Numbered
<1>2. \A p \in Partitions : Len(Log[p]) \in Nat BY BrowseLog DEF Partitions
<1>3. 0 \in A BY <1>1
<1>4. ASSUME NEW n \in 1..N, n - 1 \in A PROVE n \in A
  <2>1. PICK b \in Nat : \A p \in 1..(n - 1) : Len(Log[p]) <= b BY <1>4
  <2>2. Len(Log[n]) \in Nat BY <1>1, <1>2
  <2>3. PICK c \in Nat : c >= b /\ c >= Len(Log[n])
    <3>1. CASE b <= Len(Log[n]) BY <2>2, <3>1
    <3>2. CASE b > Len(Log[n]) BY <2>2, <3>2
    <3>. QED BY <2>2, <3>1, <3>2
  <2>4. ASSUME NEW p \in 1..n PROVE Len(Log[p]) <= c
    <3>1. Len(Log[p]) \in Nat BY <1>1, <1>2
    <3>2. CASE p = n BY <3>2, <2>3
    <3>3. CASE p # n
      <4>1. p \in 1..(n - 1) BY <3>3
      <4>2. Len(Log[p]) <= b BY <4>1, <2>1
      <4>. QED BY <4>2, <3>1, <2>3
    <3>. QED BY <3>2, <3>3
  <2>5. Bounded(n) BY <2>4
  <2>6. n \in 0..N BY <1>1
  <2>. HIDE DEF Bounded
  <2>. QED BY <2>5, <2>6
<1>5. N \in A
  <2>1. N \in 0..N BY <1>1
  <2>. HIDE DEF A, N
  <2>2. 0..N \subseteq A BY <1>1, <1>3, <1>4, Upto
  <2>. QED BY <2>1, <2>2
<1>6. PICK b \in Nat : \A p \in Partitions : Len(Log[p]) <= b BY <1>5, <1>1
<1>7. SUFFICES ASSUME Partitions # {}
               PROVE  Max(L) \in Nat /\ \A p \in Partitions : Len(Log[p]) <= Max(L)
  OBVIOUS
<1>8. L \in SUBSET Nat /\ L # {} /\ \A x \in L : x <= b BY <1>2, <1>6, <1>7
<1>9. \A p \in Partitions : Len(Log[p]) \in L OBVIOUS
<1>. HIDE DEF L
<1>10. Max(L) \in L /\ \A x \in L : x <= Max(L) BY <1>8, MaxFacts
<1>11. Max(L) \in Nat BY <1>10, <1>8
<1>12. \A p \in Partitions : Len(Log[p]) <= Max(L) BY <1>9, <1>10
<1>. QED BY <1>11, <1>12 DEF L

\* A clamped offset lies between the bounds (clampOffset).
LEMMA ClampFacts ==
  ASSUME NEW v \in Nat, NEW lo \in Nat, NEW hi \in Nat, lo <= hi
  PROVE  /\ clampOffset(v, lo, hi) \in lo..hi
         /\ v < lo => clampOffset(v, lo, hi) = lo
         /\ lo <= v /\ v <= hi => clampOffset(v, lo, hi) = v
BY DEF clampOffset

\* The bounds of a partition are offsets of its log.
LEMMA LogFacts ==
  ASSUME LogShape, NEW p \in Partitions
  PROVE  /\ logStart[p] \in Nat /\ logEnd[p] \in Nat /\ Len(Log[p]) \in Nat
         /\ logStart[p] <= logEnd[p] /\ logEnd[p] <= Len(Log[p])
BY BrowseLog DEF LogShape, Offs, Partitions

\* A poll returns the records from the position on, without a gap.
LEMMA BatchFacts ==
  ASSUME LogShape, NEW p \in Partitions, NEW at \in Nat, NEW k \in Nat
  PROVE  /\ Batch(p, at, k) \in SUBSET Nat /\ IsFiniteSet(Batch(p, at, k))
         /\ \A o \in Batch(p, at, k) : at <= o /\ o < logEnd[p]
         /\ \A o \in Batch(p, at, k), x \in Readable(p) :
                at <= x /\ x < o => x \in Batch(p, at, k)
<1>. DEFINE B == Batch(p, at, k)
            R == Readable(p)
            Below(o) == {x \in R : at <= x /\ x < o}
<1>1. logStart[p] \in Nat /\ logEnd[p] \in Nat BY LogFacts
<1>2. \A o \in R : o \in Nat /\ o < logEnd[p] /\ o <= logEnd[p] BY <1>1 DEF Readable
<1>3. R \in SUBSET Nat BY <1>2
<1>4. IsFiniteSet(R)
  <2>. HIDE DEF R
  <2>. QED BY <1>1, <1>2, <1>3, FS_BoundedSetOfNaturals
<1>5. B = {o \in R : o >= at /\ Cardinality(Below(o)) < k} BY DEF Batch
<1>. HIDE DEF B, R
<1>6. B \in SUBSET R BY <1>5
<1>7. IsFiniteSet(B) BY <1>4, <1>6, FS_Subset
<1>8. ASSUME NEW o \in B, NEW x \in R, at <= x, x < o PROVE x \in B
  <2>1. Below(x) \in SUBSET Below(o) BY <1>2, <1>6, <1>8
  <2>2. Below(o) \in SUBSET R OBVIOUS
  <2>3. Cardinality(Below(o)) < k BY <1>5
  <2>4. /\ Cardinality(Below(x)) \in Nat /\ Cardinality(Below(o)) \in Nat
        /\ Cardinality(Below(x)) <= Cardinality(Below(o))
    <3>. HIDE DEF Below
    <3>1. IsFiniteSet(Below(o)) BY <2>2, <1>4, FS_Subset
    <3>2. IsFiniteSet(Below(x)) BY <2>1, <3>1, FS_Subset
    <3>. QED BY <2>1, <3>1, <3>2, FS_Subset, FS_CardinalityType
  <2>5. Cardinality(Below(x)) < k
    <3>. HIDE DEF Below
    <3>. QED BY <2>3, <2>4
  <2>6. x \in Nat /\ x >= at BY <1>2, <1>8
  <2>. HIDE DEF Below
  <2>. QED BY <1>5, <2>5, <2>6
<1>9. \A o \in B : at <= o /\ o < logEnd[p] BY <1>5, <1>2
<1>. QED BY <1>3, <1>6, <1>7, <1>8, <1>9 DEF B, R

\* What the forward emitter takes of a batch has no gap either.
LEMMA TakenFacts ==
  ASSUME NEW p \in Partitions, NEW B \in SUBSET Nat, IsFiniteSet(B),
         job.count \in Nat
  PROVE  /\ Taken(p, B) \in SUBSET B
         /\ \A o \in Taken(p, B), x \in B : x < o => x \in Taken(p, B)
<1>. DEFINE T == Taken(p, B)
            Upto1(o) == {x \in B : x <= o /\ IsData(p, x)}
            room == Limit - job.count
<1>1. T = {o \in B : Cardinality(Upto1(o)) <= room} BY DEF Taken
<1>2. room \in Int BY BrowseBounds
<1>. HIDE DEF T, room
<1>3. T \in SUBSET B BY <1>1
<1>4. ASSUME NEW o \in T, NEW x \in B, x < o PROVE x \in T
  <2>1. Upto1(x) \in SUBSET Upto1(o)
    <3>1. x \in Nat /\ o \in Nat /\ \A y \in B : y \in Nat BY <1>3, <1>4
    <3>2. \A y \in B : y <= x => y <= o BY <3>1, <1>4
    <3>3. ASSUME NEW y \in Upto1(x) PROVE y \in Upto1(o)
      <4>1. y \in B /\ y <= x /\ IsData(p, y) OBVIOUS
      <4>. QED BY <4>1, <3>2
    <3>. QED BY <3>3
  <2>2. Upto1(o) \in SUBSET B OBVIOUS
  <2>3. Cardinality(Upto1(o)) <= room BY <1>1
  <2>4. /\ Cardinality(Upto1(x)) \in Nat /\ Cardinality(Upto1(o)) \in Nat
        /\ Cardinality(Upto1(x)) <= Cardinality(Upto1(o))
    <3>. HIDE DEF Upto1
    <3>1. IsFiniteSet(Upto1(o)) BY <2>2, FS_Subset
    <3>2. IsFiniteSet(Upto1(x)) BY <2>1, <3>1, FS_Subset
    <3>. QED BY <2>1, <3>1, <3>2, FS_Subset, FS_CardinalityType
  <2>5. Cardinality(Upto1(x)) <= room
    <3>. HIDE DEF Upto1
    <3>. QED BY <2>3, <2>4, <1>2
  <2>. HIDE DEF Upto1
  <2>. QED BY <1>1, <2>5
<1>. QED BY <1>3, <1>4 DEF T

\* The budget of a page, whatever it may hold of each partition.
LEMMA PageBudgetFacts ==
  ASSUME NEW limit \in Nat, NEW capacity \in Offs,
         \A p \in Partitions : capacity[p] <= Len(Log[p])
  PROVE  LET budget == backwardBudgets(limit)[capacity]
         IN  /\ budget \in Offs
             /\ \A p \in Partitions : budget[p] <= capacity[p]
             /\ Total(budget) = Min({limit, Total(capacity)})
<1>. DEFINE M == Max({Len(Log[p]) : p \in Partitions})
<1>1. capacity \in [Partitions -> Nat] BY DEF Offs
<1>2. ASSUME NEW p \in Partitions PROVE capacity[p] \in 0..M
  <2>1. M \in Nat /\ Len(Log[p]) <= M BY LongestFacts
  <2>2. Len(Log[p]) \in Nat /\ capacity[p] \in Nat /\ capacity[p] <= Len(Log[p])
    BY <1>1, BrowseLog DEF Partitions
  <2>. HIDE DEF M
  <2>. QED BY <2>1, <2>2
<1>. HIDE DEF M
<1>3. capacity \in [Partitions -> 0..M] BY <1>1, <1>2
<1>4. backwardBudgets(limit)[capacity] = Rounds(limit, capacity)[Len(Log)].budget
  BY <1>3 DEF backwardBudgets, M
<1>. QED BY <1>1, <1>4, BudgetsSound DEF Offs

---------------------------------------------------------------------------
\* The invariant whole, and the steps of the user.

\* The invariant: the tab, the server, the page being read, the link between.
Urls == [q : Queries, cursor : Nat]
ServerInv == LogShape /\ CacheShape /\ CacheConsistent /\ EntriesRead
JobInv == JobShape /\ JobRead
LinkInv == Protocol /\ Delivered
BrowseInv == ClientShape /\ ServerInv /\ JobInv /\ LinkInv

\* The server's part of the invariant is about the cache and the log.
LEMMA SameServer ==
  ASSUME ServerInv, UNCHANGED <<cursors, kafka>>
  PROVE  ServerInv'
BY DEF ServerInv, LogShape, CacheShape, CacheConsistent, EntriesRead, ForwardEntry,
       BackwardEntry, RetainedRead, Retained, cursors, kafka

\* What a page has read depends on the job and the log alone.
LEMMA SameJob ==
  ASSUME JobInv, UNCHANGED <<job, cursors, kafka>>
  PROVE  JobInv'
<1>. USE DEF cursors, kafka
<1>1. JobShape' BY DEF JobInv, JobShape, Ids
<1>2. JobRead'
  BY DEF JobInv, JobRead, Ran, ForwardJob, BackwardJob, RetainedRead, Retained
<1>. QED BY <1>1, <1>2 DEF JobInv

\* No page is being read, or the request for one has just arrived.
Asked(j) == \/ j = NoJob
            \/ j \in SentJobs /\ j.cursor \in Ids
\* A page not yet begun has read nothing.
LEMMA AskedJob ==
  ASSUME Asked(job)'
  PROVE  JobInv' /\ Delivered' /\ ~Ran'
<1>1. ~Ran' BY DEF Asked, Ran, NoJob, SentJobs
<1>2. JobShape' BY DEF Asked, JobShape
<1>. QED BY <1>1, <1>2 DEF JobInv, JobRead, Delivered

\* The effect of useTopicMessages.
LEMMA FetchStep ==
  ASSUME BrowseInv, NEW url \in Urls, Fetch(url), url.cursor <= urls + 1,
         history' \in Seq(Urls), visit' \in DOMAIN history', history'[visit'] = url,
         \A i \in DOMAIN history' : history'[i].cursor <= urls + 1
  PROVE  BrowseInv'
<1>1. /\ urls < MaxUrls /\ urls' = urls + 1 /\ pending' = <<>> /\ isFetching' = TRUE
      /\ stream' = [state |-> "sent", q |-> url.q, cursor |-> SendCursor(url)]
      /\ prevCursor' = url.cursor /\ wire' = <<>>
      /\ job' = [state |-> "sent", q |-> url.q, cursor |-> SendCursor(url)]
      /\ UNCHANGED <<messages, nextCursor, cursors, kafka, faults>>
  BY DEF Fetch, Asks, cancelPendingMessages
<1>2. SendCursor(url) \in Ids
  <2>1. nextCursor \in Ids /\ None \in Ids BY DEF BrowseInv, ClientShape, Ids, None, ServerInv, CacheShape
  <2>. QED BY <2>1 DEF SendCursor
<1>3. Ids' = Ids /\ Ids \subseteq Nat BY <1>1 DEF Ids, cursors
<1>4. ServerInv' BY <1>1, SameServer DEF BrowseInv
<1>5. Asked(job)' BY <1>1, <1>2, <1>3 DEF Asked, SentJobs, Urls
<1>6. ClientShape'
  <2>1. MaxUrls \in Nat /\ urls \in Nat /\ url.cursor \in Nat /\ url.q \in Queries
    BY BrowseBounds DEF BrowseInv, ClientShape, Urls
  <2>2. stream' \in [state : {"none", "sent", "open", "failed", "closed", "refused",
                              "retry"}, q : Queries, cursor : Ids]
    BY <1>1, <1>2, <2>1
  <2>3. urls' \in 0..MaxUrls /\ prevCursor' \in 0..MaxUrls BY <1>1, <2>1
  <2>4. wire' \in Seq(Events) /\ pending' \in Seq(Records) /\ DOMAIN wire' = {}
    BY <1>1
  <2>. QED BY <1>1, <1>3, <2>2, <2>3, <2>4 DEF BrowseInv, ClientShape, Urls
<1>7. Protocol'
  <2>1. Url' = url BY DEF Url
  <2>2. stream'.state = "sent" /\ stream'.q = url.q /\ job'.q = url.q
        /\ job'.state = "sent" /\ wire' = <<>>
    BY <1>1
  <2>. QED BY <2>1, <2>2 DEF Protocol
<1>. QED BY <1>4, <1>5, <1>6, <1>7, AskedJob DEF BrowseInv, LinkInv

\* Every address in the history is one the user made.
LEMMA HistoryFacts ==
  ASSUME BrowseInv
  PROVE  /\ history \in Seq(Urls) /\ visit \in 1..Len(history) /\ Len(history) \in Nat
         /\ Url \in Urls /\ urls \in Nat
         /\ \A i \in 1..Len(history) : history[i] \in Urls /\ history[i].cursor <= urls
<1>1. /\ history \in Seq(Urls) /\ visit \in DOMAIN history /\ urls \in 0..MaxUrls
      /\ \A i \in DOMAIN history : history[i].cursor <= urls
  BY DEF BrowseInv, ClientShape, Urls
<1>2. DOMAIN history = 1..Len(history) /\ Len(history) \in Nat BY <1>1
<1>3. \A i \in 1..Len(history) : history[i] \in Urls BY <1>1
<1>. QED BY <1>1, <1>2, <1>3, BrowseBounds DEF Url

\* A new address keeps the invariant.
LEMMA PushStep ==
  ASSUME BrowseInv, NEW url \in Urls, Push(url), url.cursor <= urls + 1
  PROVE  BrowseInv'
<1>1. /\ history \in Seq(Urls) /\ visit \in 1..Len(history) /\ Len(history) \in Nat
      /\ urls \in Nat
      /\ \A i \in 1..Len(history) : history[i] \in Urls /\ history[i].cursor <= urls
  BY HistoryFacts
<1>. DEFINE h == SubSeq(history, 1, visit)
<1>2. /\ history' = Append(h, url) /\ visit' = visit + 1 /\ Fetch(url)
  BY DEF Push
<1>3. h \in Seq(Urls) /\ Len(h) = visit
      /\ \A i \in 1..visit : h[i] = history[i]
  BY <1>1
<1>. HIDE DEF h
<1>4. /\ history' \in Seq(Urls) /\ Len(history') = visit + 1
      /\ history'[visit'] = url
      /\ \A i \in 1..visit : history'[i] = h[i]
  BY <1>1, <1>2, <1>3
<1>5. DOMAIN history' = 1..(visit + 1) BY <1>4, <1>1
<1>6. ASSUME NEW i \in DOMAIN history' PROVE history'[i].cursor <= urls + 1
  <2>1. CASE i = visit + 1 BY <2>1, <1>4, <1>2
  <2>2. CASE i # visit + 1
    <3>1. i \in 1..visit /\ i \in 1..Len(history) BY <2>2, <1>5, <1>1
    <3>2. history'[i] = history[i] BY <3>1, <1>3, <1>4
    <3>3. history[i].cursor <= urls /\ history[i].cursor \in Nat
      BY <1>1, <3>1 DEF Urls
    <3>. QED BY <3>2, <3>3, <1>1
  <2>. QED BY <2>1, <2>2
<1>7. visit' \in DOMAIN history' BY <1>5, <1>2, <1>1
<1>. QED BY <1>2, <1>4, <1>6, <1>7, FetchStep

\* Filters, Refresh, Next, and the browser's own buttons.
LEMMA AskStep ==
  ASSUME BrowseInv, ChangeQuery \/ refreshData \/ paginate \/ Go
  PROVE  BrowseInv'
<1>1. /\ history \in Seq(Urls) /\ visit \in 1..Len(history) /\ Len(history) \in Nat
      /\ urls \in Nat
      /\ \A i \in 1..Len(history) : history[i] \in Urls /\ history[i].cursor <= urls
  BY HistoryFacts
<1>2. /\ Url \in Urls /\ Url.cursor \in Nat /\ Url.cursor <= urls /\ Url.q \in Queries
  BY <1>1 DEF Url, Urls
<1>3. CASE ChangeQuery
  <2>1. PICK q \in Queries : Push([Url EXCEPT !.q = q]) BY <1>3 DEF ChangeQuery
  <2>. DEFINE u == [Url EXCEPT !.q = q]
  <2>2. u \in Urls /\ u.cursor = Url.cursor BY <1>2 DEF Urls
  <2>3. u.cursor <= urls + 1 /\ Push(u) BY <2>1, <2>2, <1>1, <1>2
  <2>. HIDE DEF u
  <2>. QED BY <2>2, <2>3, PushStep
<1>4. CASE refreshData BY <1>1, <1>2, <1>4, PushStep DEF refreshData
<1>5. CASE paginate
  <2>. DEFINE u == [Url EXCEPT !.cursor = @ + 1]
  <2>1. u \in Urls /\ u.cursor = Url.cursor + 1 BY <1>2 DEF Urls
  <2>2. u.cursor <= urls + 1 /\ Push(u) BY <2>1, <1>1, <1>2, <1>5 DEF paginate
  <2>. HIDE DEF u
  <2>. QED BY <2>1, <2>2, PushStep
<1>6. CASE Go
  <2>1. PICK v \in DOMAIN history : visit' = v /\ history' = history /\ Fetch(history[v])
    BY <1>6 DEF Go
  <2>2. v \in 1..Len(history) /\ DOMAIN history = 1..Len(history) BY <1>1
  <2>3. history[v] \in Urls /\ history[v].cursor \in Nat /\ history[v].cursor <= urls
    BY <1>1, <2>2 DEF Urls
  <2>4. \A i \in DOMAIN history' : history'[i].cursor <= urls + 1
    <3>1. SUFFICES ASSUME NEW i \in 1..Len(history) PROVE history[i].cursor <= urls + 1
      BY <2>1, <2>2
    <3>2. history[i].cursor <= urls /\ history[i].cursor \in Nat BY <1>1 DEF Urls
    <3>. QED BY <3>2, <1>1
  <2>5. history[v].cursor <= urls + 1 BY <2>3, <1>1
  <2>. QED BY <2>1, <2>2, <2>3, <2>4, <2>5, <1>1, FetchStep
<1>. QED BY <1>3, <1>4, <1>5, <1>6

\* Leaving the page and opening it again keeps the invariant.
LEMMA ReopenStep ==
  ASSUME BrowseInv, Reopen
  PROVE  BrowseInv'
<1>. DEFINE url == [Url EXCEPT !.cursor = 0]
<1>1. /\ urls < MaxUrls /\ urls' = urls + 1 /\ history' = <<url>> /\ visit' = 1
      /\ stream' = [state |-> "sent", q |-> Url.q, cursor |-> None]
      /\ job' = [state |-> "sent", q |-> Url.q, cursor |-> None]
      /\ messages' = <<>> /\ pending' = <<>> /\ isFetching' = TRUE
      /\ prevCursor' = 0 /\ wire' = <<>>
      /\ UNCHANGED <<nextCursor, cursors, kafka, faults>>
  BY DEF Reopen, Asks
<1>2. Url \in Urls /\ urls \in Nat BY HistoryFacts
<1>3. url \in Urls /\ url.cursor = 0 /\ url.q = Url.q /\ url.q \in Queries
  BY <1>2 DEF Urls
<1>. HIDE DEF url
<1>4. ServerInv' BY <1>1, SameServer DEF BrowseInv
<1>5. Ids' = Ids /\ Ids \subseteq Nat /\ None \in Ids
  BY <1>1 DEF Ids, cursors, None, BrowseInv, ServerInv, CacheShape
<1>6. Asked(job)' BY <1>1, <1>3, <1>5 DEF Asked, SentJobs
<1>7. ClientShape'
  <2>1. MaxUrls \in Nat BY BrowseBounds
  <2>2. stream' \in [state : {"none", "sent", "open", "failed", "closed", "refused",
                              "retry"}, q : Queries, cursor : Ids]
    BY <1>1, <1>3, <1>5
  <2>3. urls' \in 0..MaxUrls /\ prevCursor' \in 0..MaxUrls BY <1>1, <1>2, <2>1
  <2>4. /\ wire' \in Seq(Events) /\ pending' \in Seq(Records) /\ messages' \in Seq(Records)
        /\ DOMAIN wire' = {}
    BY <1>1
  <2>5. /\ history' \in Seq(Urls) /\ visit' \in DOMAIN history' /\ DOMAIN history' = 1..1
        /\ history'[1] = url
    BY <1>1, <1>3
  <2>6. \A i \in DOMAIN history' : history'[i].cursor <= urls'
    BY <2>5, <1>1, <1>2, <1>3
  <2>. QED BY <1>1, <1>5, <2>2, <2>3, <2>4, <2>5, <2>6 DEF BrowseInv, ClientShape, Urls
<1>8. Protocol'
  <2>1. Url' = url BY <1>1 DEF Url
  <2>2. stream'.state = "sent" /\ stream'.q = url.q /\ job'.q = url.q
        /\ job'.state = "sent" /\ wire' = <<>>
    BY <1>1, <1>3
  <2>. QED BY <2>1, <2>2 DEF Protocol
<1>. QED BY <1>4, <1>6, <1>7, <1>8, AskedJob DEF BrowseInv, LinkInv

---------------------------------------------------------------------------
\* The steps of the browser: frames and events.

\* Reversing keeps the messages, and newer ones come first.
LEMMA ReverseFacts ==
  ASSUME NEW S, NEW s \in Seq(S), NEW t \in Seq(S)
  PROVE  /\ Reverse(s) \in Seq(S) /\ Range(Reverse(s)) = Range(s)
         /\ Reverse(Reverse(t) \o s) = Reverse(s) \o t
<1>1. ASSUME NEW u \in Seq(S)
      PROVE  /\ Reverse(u) \in Seq(S) /\ Len(Reverse(u)) = Len(u)
             /\ \A i \in 1..Len(u) : Reverse(u)[i] = u[Len(u) - i + 1]
  <2>1. Len(u) \in Nat /\ \A i \in 1..Len(u) : u[i] \in S OBVIOUS
  <2>2. \A i \in 1..Len(u) : (Len(u) - i) + 1 \in 1..Len(u) BY <2>1
  <2>3. Reverse(u) = [i \in 1..Len(u) |-> u[(Len(u) - i) + 1]] BY DEF Reverse
  <2>4. Reverse(u) \in [1..Len(u) -> S] BY <2>1, <2>2, <2>3
  <2>5. Reverse(u) \in Seq(S) BY <2>1, <2>4
  <2>. QED BY <2>1, <2>3, <2>4, <2>5
<1>2. Range(Reverse(s)) = Range(s)
  <2>1. DOMAIN s = 1..Len(s) /\ DOMAIN Reverse(s) = 1..Len(s) BY <1>1
  <2>2. \A i \in 1..Len(s) : /\ Len(s) - i + 1 \in 1..Len(s)
                             /\ Reverse(s)[i] = s[Len(s) - i + 1]
                             /\ Reverse(s)[Len(s) - i + 1] = s[i]
    <3>1. Len(s) \in Nat OBVIOUS
    <3>2. SUFFICES ASSUME NEW i \in 1..Len(s)
                   PROVE  /\ Len(s) - i + 1 \in 1..Len(s)
                          /\ Reverse(s)[i] = s[Len(s) - i + 1]
                          /\ Reverse(s)[Len(s) - i + 1] = s[i]
      OBVIOUS
    <3>3. Len(s) - i + 1 \in 1..Len(s) BY <3>1
    <3>4. Len(s) - (Len(s) - i + 1) + 1 = i BY <3>1
    <3>5. Reverse(s)[Len(s) - i + 1] = s[Len(s) - (Len(s) - i + 1) + 1] BY <3>3, <1>1
    <3>. QED BY <3>3, <3>4, <3>5, <1>1
  <2>. DEFINE u == Reverse(s)
  <2>3. \A i \in DOMAIN s : \E j \in DOMAIN u : u[j] = s[i] BY <2>1, <2>2
  <2>4. \A i \in DOMAIN u : \E j \in DOMAIN s : s[j] = u[i] BY <2>1, <2>2
  <2>5. Range(u) = Range(s)
    <3>. HIDE DEF u
    <3>. QED BY <2>3, <2>4 DEF Range
  <2>. QED BY <2>5
<1>3. Reverse(Reverse(t) \o s) = Reverse(s) \o t
  <2>. DEFINE a == Reverse(Reverse(t) \o s)
              b == Reverse(s) \o t
              n == Len(s)
              m == Len(t)
              r == Reverse(t)
              w == r \o s
  <2>1. n \in Nat /\ m \in Nat OBVIOUS
  <2>2. r \in Seq(S) /\ Len(r) = m BY <1>1
  <2>3. Reverse(s) \in Seq(S) /\ Len(Reverse(s)) = n BY <1>1
  <2>4. /\ w \in Seq(S) /\ Len(w) = m + n
        /\ \A i \in 1..m + n : w[i] = IF i <= m THEN r[i] ELSE s[i - m]
    <3>. HIDE DEF r
    <3>1. /\ r \o s \in Seq(S) /\ Len(r \o s) = Len(r) + Len(s)
          /\ \A i \in 1..Len(r) + Len(s) :
                 (r \o s)[i] = IF i <= Len(r) THEN r[i] ELSE s[i - Len(r)]
      BY <2>2, ConcatProperties
    <3>2. Len(r) = m /\ Len(s) = n BY <2>2
    <3>. HIDE DEF n, m
    <3>. QED BY <3>1, <3>2
  <2>5. /\ b \in Seq(S) /\ Len(b) = n + m
        /\ \A i \in 1..n + m : b[i] = IF i <= n THEN Reverse(s)[i] ELSE t[i - n]
    <3>. DEFINE u == Reverse(s)
    <3>1. u \in Seq(S) /\ Len(u) = n BY <2>3
    <3>. HIDE DEF u
    <3>2. /\ u \o t \in Seq(S) /\ Len(u \o t) = Len(u) + Len(t)
          /\ \A i \in 1..Len(u) + Len(t) :
                 (u \o t)[i] = IF i <= Len(u) THEN u[i] ELSE t[i - Len(u)]
      BY <3>1, ConcatProperties
    <3>3. Len(u) = n /\ Len(t) = m BY <3>1
    <3>. HIDE DEF n, m
    <3>4. /\ u \o t \in Seq(S) /\ Len(u \o t) = n + m
          /\ \A i \in 1..n + m : (u \o t)[i] = IF i <= n THEN u[i] ELSE t[i - n]
      BY <3>2, <3>3
    <3>. QED BY <3>4 DEF u
  <2>6. /\ a \in Seq(S) /\ Len(a) = m + n
        /\ \A i \in 1..m + n : a[i] = w[m + n - i + 1]
    <3>. HIDE DEF w
    <3>1. Reverse(w) \in Seq(S) /\ Len(Reverse(w)) = Len(w)
          /\ \A i \in 1..Len(w) : Reverse(w)[i] = w[Len(w) - i + 1]
      BY <2>4, <1>1
    <3>. QED BY <3>1, <2>4 DEF w
  <2>7. \A i \in 1..n : Reverse(s)[i] = s[n - i + 1] BY <1>1
  <2>8. \A i \in 1..m : r[i] = t[m - i + 1] BY <1>1
  <2>. HIDE DEF a, b, n, m, r, w
  <2>9. ASSUME NEW i \in 1..m + n PROVE a[i] = b[i]
    <3>1. m + n - i + 1 \in 1..m + n /\ i \in 1..n + m BY <2>1
    <3>2. CASE i <= n
      <4>1. /\ ~(m + n - i + 1 <= m) /\ m + n - i + 1 - m = n - i + 1 /\ i \in 1..n
        BY <2>1, <3>2
      <4>2. a[i] = w[m + n - i + 1] BY <2>6
      <4>3. w[m + n - i + 1] = s[n - i + 1]
        <5>1. PICK j \in 1..m + n : j = m + n - i + 1 BY <3>1
        <5>2. ~(j <= m) /\ j - m = n - i + 1 BY <5>1, <4>1, <2>1
        <5>3. w[j] = s[j - m] BY <5>2, <2>4
        <5>. QED BY <5>1, <5>2, <5>3
      <4>4. b[i] = Reverse(s)[i] BY <3>1, <3>2, <2>5
      <4>. QED BY <4>1, <4>2, <4>3, <4>4, <2>7
    <3>3. CASE ~(i <= n)
      <4>1. /\ m + n - i + 1 <= m /\ m + n - i + 1 \in 1..m
            /\ m - (m + n - i + 1) + 1 = i - n
        BY <2>1, <3>3
      <4>2. r[m + n - i + 1] = t[m - (m + n - i + 1) + 1] BY <4>1, <2>8
      <4>. QED BY <4>1, <4>2, <3>1, <3>3, <2>4, <2>5, <2>6
    <3>. QED BY <3>2, <3>3
  <2>10. a = b
    <3>1. Len(a) = Len(b) /\ Len(a) = m + n BY <2>5, <2>6, <2>1
    <3>. QED BY <3>1, <2>5, <2>6, <2>9, SeqEqual
  <2>. QED BY <2>10 DEF a, b
<1>. QED BY <1>1, <1>2, <1>3

\* Messages that all follow the earlier ones may be appended.
LEMMA OrderedConcat ==
  ASSUME NEW s \in Seq(Records), NEW t \in Seq(Records),
         InArrivalOrder(s), InArrivalOrder(t),
         \A r \in Range(s), u \in Range(t) : Follows(job.q, r, u)
  PROVE  InArrivalOrder(s \o t) /\ Range(s \o t) = Range(s) \cup Range(t)
<1>1. /\ s \o t \in Seq(Records) /\ Len(s \o t) = Len(s) + Len(t)
      /\ Len(s) \in Nat /\ Len(t) \in Nat
      /\ \A i \in 1..Len(s) + Len(t) : (s \o t)[i] = IF i <= Len(s) THEN s[i] ELSE t[i - Len(s)]
  BY ConcatProperties, LenProperties
<1>2. DOMAIN (s \o t) = 1..Len(s) + Len(t) BY <1>1
<1>3. \A i \in 1..Len(s) : i \in DOMAIN s /\ s[i] \in Range(s) BY DEF Range
<1>4. \A i \in 1..Len(t) : i \in DOMAIN t /\ t[i] \in Range(t) BY DEF Range
<1>5. ASSUME NEW i \in 1..Len(s) + Len(t), NEW j \in 1..Len(s) + Len(t), i < j
      PROVE  Follows(job.q, (s \o t)[i], (s \o t)[j])
  <2>1. CASE j <= Len(s)
    <3>1. i \in 1..Len(s) /\ j \in 1..Len(s) BY <2>1, <1>1, <1>5
    <3>. QED BY <3>1, <1>1, <1>3, <1>5 DEF InArrivalOrder
  <2>2. CASE i <= Len(s) /\ ~(j <= Len(s))
    <3>1. i \in 1..Len(s) /\ j - Len(s) \in 1..Len(t) BY <2>2, <1>1
    <3>. QED BY <3>1, <2>2, <1>1, <1>3, <1>4
  <2>3. CASE ~(i <= Len(s))
    <3>1. /\ i - Len(s) \in 1..Len(t) /\ j - Len(s) \in 1..Len(t)
          /\ i - Len(s) < j - Len(s) /\ ~(j <= Len(s))
      BY <2>3, <1>1, <1>5
    <3>. QED BY <3>1, <2>3, <1>1, <1>4 DEF InArrivalOrder
  <2>. QED BY <2>1, <2>2, <2>3
<1>6. Range(s \o t) = Range(s) \cup Range(t) BY RangeConcatenation
<1>. QED BY <1>2, <1>5, <1>6 DEF InArrivalOrder

\* A frame shows what was queued, in the order of the page.
LEMMA FlushFacts ==
  ASSUME messages \in Seq(Records), pending \in Seq(Records), messages' = Flushed,
         pending' = <<>>
  PROVE  /\ messages' \in Seq(Records) /\ pending' \in Seq(Records)
         /\ Range(messages)' = Range(messages) \cup Range(pending)
         /\ Range(pending)' = {}
         /\ Url.q = job.q /\ job' = job
            /\ InArrivalOrder(IF job.q.mode = "TAILING" THEN Reverse(messages) ELSE messages)
            /\ InArrivalOrder(pending)
            /\ (\A r \in Range(messages), s \in Range(pending) : Follows(job.q, r, s))
            => InArrivalOrder(IF job.q.mode = "TAILING" THEN Reverse(messages) ELSE messages)'
<1>1. /\ Reverse(pending) \in Seq(Records) /\ Range(Reverse(pending)) = Range(pending)
      /\ Reverse(messages) \in Seq(Records) /\ Range(Reverse(messages)) = Range(messages)
      /\ Reverse(Reverse(pending) \o messages) = Reverse(messages) \o pending
  BY ReverseFacts
<1>2. messages' \in Seq(Records) BY <1>1, ConcatProperties DEF Flushed
<1>3. Range(messages)' = Range(messages) \cup Range(pending)
  <2>1. Range(messages') = Range(messages) \cup Range(pending)
    <3>1. CASE Url.q.mode = "TAILING"
      <4>1. Range(Reverse(pending) \o messages) = Range(Reverse(pending)) \cup Range(messages)
        BY <1>1, RangeConcatenation
      <4>. QED BY <4>1, <3>1, <1>1 DEF Flushed
    <3>2. CASE Url.q.mode # "TAILING"
      <4>1. Range(messages \o pending) = Range(messages) \cup Range(pending)
        BY RangeConcatenation
      <4>. QED BY <4>1, <3>2 DEF Flushed
    <3>. QED BY <3>1, <3>2
  <2>. QED BY <2>1
<1>4. Range(pending)' = {} BY DEF Range
<1>5. ASSUME Url.q = job.q, job' = job,
             InArrivalOrder(IF job.q.mode = "TAILING" THEN Reverse(messages) ELSE messages),
             InArrivalOrder(pending),
             \A r \in Range(messages), s \in Range(pending) : Follows(job.q, r, s)
      PROVE  InArrivalOrder(IF job.q.mode = "TAILING" THEN Reverse(messages) ELSE messages)'
  <2>1. CASE job.q.mode = "TAILING"
    <3>1. InArrivalOrder(Reverse(messages) \o pending) BY <2>1, <1>1, <1>5, OrderedConcat
    <3>2. Reverse(messages') = Reverse(messages) \o pending BY <2>1, <1>1, <1>5 DEF Flushed
    <3>. QED BY <3>1, <3>2, <2>1, <1>5 DEF InArrivalOrder
  <2>2. CASE job.q.mode # "TAILING"
    <3>1. InArrivalOrder(messages \o pending) BY <2>2, <1>5, OrderedConcat
    <3>2. messages' = messages \o pending BY <2>2, <1>5 DEF Flushed
    <3>. QED BY <3>1, <3>2, <2>2, <1>5 DEF InArrivalOrder
  <2>. QED BY <2>1, <2>2
<1>. QED BY <1>2, <1>3, <1>4, <1>5

\* An event is received.
LEMMA ReceiveFacts ==
  ASSUME wire \in Seq(Events), wire # <<>>, wire' = Tail(wire),
         \A i \in DOMAIN wire : wire[i].cursor \in Ids
                  /\ (wire[i].type = "MESSAGE" => wire[i].message \in Records)
  PROVE  /\ Len(wire) \in Nat \ {0} /\ Head(wire) = wire[1] /\ 1 \in DOMAIN wire
         /\ wire' \in Seq(Events) /\ Len(wire') = Len(wire) - 1
         /\ \A i \in 1..Len(wire') : i + 1 \in DOMAIN wire /\ wire'[i] = wire[i + 1]
         /\ \A i \in DOMAIN wire' : wire'[i].cursor \in Ids
                  /\ (wire'[i].type = "MESSAGE" => wire'[i].message \in Records)
         /\ Incoming = Incoming' \cup
                (IF wire[1].type = "MESSAGE" THEN {wire[1].message} ELSE {})
<1>1. /\ Len(wire) \in Nat \ {0} /\ Head(wire) = wire[1]
      /\ wire' \in Seq(Events) /\ Len(wire') = Len(wire) - 1
      /\ \A i \in 1..Len(wire') : wire'[i] = wire[i + 1]
      /\ DOMAIN wire = 1..Len(wire)
  BY HeadTailProperties, EmptySeq
<1>2. \A i \in 1..Len(wire') : i + 1 \in DOMAIN wire BY <1>1
<1>3. DOMAIN wire' = 1..Len(wire') BY <1>1
<1>4. OnWire' = {i \in 1..Len(wire') : wire[i + 1].type = "MESSAGE"}
  BY <1>1, <1>3 DEF OnWire
<1>5. \A i \in DOMAIN wire : i # 1 => i - 1 \in 1..Len(wire') /\ (i - 1) + 1 = i BY <1>1
<1>6. \A i \in OnWire : i = 1 \/ (i - 1 \in OnWire' /\ wire'[i - 1] = wire[i])
  BY <1>1, <1>4, <1>5 DEF OnWire
<1>7. \A i \in OnWire' : i + 1 \in OnWire /\ wire'[i] = wire[i + 1]
  BY <1>1, <1>2, <1>4 DEF OnWire
<1>8. Incoming' = {wire'[i].message : i \in OnWire'} BY DEF Incoming
<1>9. 1 \in OnWire <=> wire[1].type = "MESSAGE" BY <1>1 DEF OnWire
<1>10. Incoming = Incoming' \cup (IF wire[1].type = "MESSAGE" THEN {wire[1].message} ELSE {})
  <2>1. Incoming \subseteq Incoming' \cup (IF wire[1].type = "MESSAGE" THEN {wire[1].message} ELSE {})
    BY <1>6, <1>8, <1>9 DEF Incoming
  <2>2. Incoming' \subseteq Incoming BY <1>7, <1>8 DEF Incoming
  <2>3. wire[1].type = "MESSAGE" => wire[1].message \in Incoming BY <1>9 DEF Incoming
  <2>. QED BY <2>1, <2>2, <2>3
<1>11. 1 \in DOMAIN wire BY <1>1
<1>12. \A i \in DOMAIN wire' : wire'[i].cursor \in Ids
                  /\ (wire'[i].type = "MESSAGE" => wire'[i].message \in Records)
  BY <1>1, <1>2, <1>3
<1>. QED BY <1>1, <1>2, <1>10, <1>11, <1>12

\* What is left on its way is still in order.
LEMMA ReceiveOrder ==
  ASSUME wire \in Seq(Events), wire # <<>>, wire' = Tail(wire), job' = job, Delivered, Ran
  PROVE  /\ \A i, j \in OnWire' : i < j => Follows(job.q, wire'[i].message, wire'[j].message)
         /\ wire[1].type = "MESSAGE" =>
                \A s \in Incoming' : Follows(job.q, wire[1].message, s)
<1>1. /\ Len(wire) \in Nat \ {0}
      /\ wire' \in Seq(Events) /\ Len(wire') = Len(wire) - 1
      /\ \A i \in 1..Len(wire') : wire'[i] = wire[i + 1]
      /\ DOMAIN wire = 1..Len(wire)
  BY HeadTailProperties, EmptySeq
<1>2. OnWire' = {i \in 1..Len(wire') : wire[i + 1].type = "MESSAGE"}
  BY <1>1 DEF OnWire
<1>3. \A i \in OnWire' : i \in Nat /\ i > 0 /\ i + 1 \in OnWire /\ wire'[i] = wire[i + 1]
  BY <1>1, <1>2 DEF OnWire
<1>4. \A i, j \in OnWire : i < j => Follows(job.q, wire[i].message, wire[j].message)
  BY DEF Delivered
<1>5. ASSUME NEW i \in OnWire', NEW j \in OnWire', i < j
      PROVE  Follows(job.q, wire'[i].message, wire'[j].message)
  <2>1. i + 1 < j + 1 BY <1>3, <1>5
  <2>. QED BY <2>1, <1>3, <1>4
<1>6. ASSUME wire[1].type = "MESSAGE", NEW i \in OnWire'
      PROVE  Follows(job.q, wire[1].message, wire'[i].message)
  <2>1. 1 \in OnWire BY <1>6, <1>1 DEF OnWire
  <2>2. 1 < i + 1 BY <1>3
  <2>. QED BY <2>1, <2>2, <1>3, <1>4
<1>. QED BY <1>5, <1>6 DEF Incoming

\* A frame that flushes the queue keeps the invariant.
LEMMA FlushStep ==
  ASSUME BrowseInv, flushPendingMessages
  PROVE  BrowseInv'
<1>1. /\ messages' = Flushed /\ pending' = <<>>
      /\ UNCHANGED <<history, visit, urls, stream, isFetching, prevCursor,
                     nextCursor, wire, job, orphans, cursors, kafka, faults>>
  BY DEF flushPendingMessages
<1>2. messages \in Seq(Records) /\ pending \in Seq(Records) BY DEF BrowseInv, ClientShape
<1>3. ServerInv' /\ JobInv' BY <1>1, SameServer, SameJob DEF BrowseInv
<1>4. /\ messages' \in Seq(Records) /\ pending' \in Seq(Records)
      /\ Range(messages)' = Range(messages) \cup Range(pending)
      /\ Range(pending)' = {}
      /\ Url.q = job.q /\ job' = job
         /\ InArrivalOrder(IF job.q.mode = "TAILING" THEN Reverse(messages) ELSE messages)
         /\ InArrivalOrder(pending)
         /\ (\A r \in Range(messages), s \in Range(pending) : Follows(job.q, r, s))
         => InArrivalOrder(IF job.q.mode = "TAILING" THEN Reverse(messages) ELSE messages)'
  BY <1>1, <1>2, FlushFacts
<1>5. ClientShape' BY <1>1, <1>4 DEF BrowseInv, ClientShape, Ids, cursors
<1>6. Protocol' BY <1>1 DEF BrowseInv, LinkInv, Protocol, Url, Ran, Body
<1>7. Delivered'
  <2>1. SUFFICES ASSUME Ran PROVE Delivered' BY <1>1 DEF Delivered, Ran
  <2>2. Delivered BY DEF BrowseInv, LinkInv
  <2>3. Url.q = job.q BY <2>1 DEF BrowseInv, LinkInv, Protocol, Ran, NoJob
  <2>4. Answer' = Answer /\ Incoming' = Incoming /\ OnWire' = OnWire
        /\ (Answered' <=> Answered)
    BY <1>1 DEF Answer, Incoming, OnWire, Answered
  <2>5. Arrived' = Arrived BY <1>4, <2>4 DEF Arrived
  <2>6. InArrivalOrder(pending)' BY <1>1 DEF InArrivalOrder
  <2>7. Answered => InArrivalOrder(IF job.q.mode = "TAILING" THEN Reverse(messages) ELSE messages)'
    BY <2>1, <2>2, <2>3, <1>1, <1>4 DEF Delivered
  <2>. QED BY <2>1, <2>2, <2>4, <2>5, <2>6, <2>7, <1>1, <1>4 DEF Delivered
<1>. QED BY <1>3, <1>5, <1>6, <1>7 DEF BrowseInv, LinkInv

\* The begin of a response keeps the invariant.
LEMMA OnopenStep ==
  ASSUME BrowseInv, onopen
  PROVE  BrowseInv'
<1>1. /\ wire # <<>> /\ wire' = Tail(wire) /\ stream.state = "sent"
      /\ UNCHANGED <<history, visit, urls, prevCursor, job, orphans, cursors, kafka,
                     faults, isFetching>>
      /\ nextCursor' = IF Head(wire).type = "FAIL" THEN nextCursor ELSE None
      /\ \/ /\ Head(wire).type # "FAIL"
            /\ stream' = [stream EXCEPT !.state = "open"]
            /\ pending' = <<>> /\ messages' = <<>>
         \/ /\ Head(wire).type = "FAIL"
            /\ stream' = [stream EXCEPT !.state = "failed"]
            /\ UNCHANGED <<pending, messages>>
  BY DEF onopen, Received, cancelPendingMessages
<1>2. /\ wire \in Seq(Events)
      /\ \A i \in DOMAIN wire : wire[i].cursor \in Ids
                  /\ (wire[i].type = "MESSAGE" => wire[i].message \in Records)
      /\ stream \in [state : {"none", "sent", "open", "failed", "closed", "refused",
                              "retry"}, q : Queries, cursor : Ids]
      /\ nextCursor \in Ids
  BY DEF BrowseInv, ClientShape
<1>3. /\ Len(wire) \in Nat \ {0} /\ Head(wire) = wire[1] /\ 1 \in DOMAIN wire
      /\ wire' \in Seq(Events) /\ Len(wire') = Len(wire) - 1
      /\ \A i \in 1..Len(wire') : i + 1 \in DOMAIN wire /\ wire'[i] = wire[i + 1]
      /\ \A i \in DOMAIN wire' : wire'[i].cursor \in Ids
                  /\ (wire'[i].type = "MESSAGE" => wire'[i].message \in Records)
      /\ Incoming = Incoming' \cup
                (IF wire[1].type = "MESSAGE" THEN {wire[1].message} ELSE {})
  BY <1>1, <1>2, ReceiveFacts
<1>4. ServerInv' /\ JobInv' BY <1>1, SameServer, SameJob DEF BrowseInv
<1>5. Ids' = Ids /\ None \in Ids
  BY <1>1 DEF Ids, cursors, None, BrowseInv, ServerInv, CacheShape
<1>6. /\ stream'.q = stream.q /\ stream'.cursor = stream.cursor
      /\ stream' \in [state : {"none", "sent", "open", "failed", "closed", "refused",
                               "retry"}, q : Queries, cursor : Ids]
  BY <1>1, <1>2
<1>7. ClientShape'
  <2>1. messages' \in Seq(Records) /\ pending' \in Seq(Records)
    <3>1. messages \in Seq(Records) /\ pending \in Seq(Records) /\ <<>> \in Seq(Records)
      BY DEF BrowseInv, ClientShape
    <3>. QED BY <3>1, <1>1
  <2>2. nextCursor' \in Ids BY <1>1, <1>2, <1>5
  <2>. QED BY <1>1, <1>3, <1>5, <1>6, <2>1, <2>2 DEF BrowseInv, ClientShape
<1>8. CASE wire[1].type = "FAIL"
  <2>1. stream'.state = "failed" /\ stream'.q = stream.q BY <1>1, <1>2, <1>3, <1>8
  <2>2. Protocol BY DEF BrowseInv, LinkInv
  <2>3. /\ Len(wire) = 2 /\ wire[2].type = "CLOSE" /\ job = NoJob
    BY <1>1, <1>8, <2>2 DEF Protocol
  <2>4. Len(wire') = 1 /\ wire'[1].type = "CLOSE" /\ job' = NoJob
    <3>1. Len(wire') = 1 BY <2>3, <1>3
    <3>2. wire'[1] = wire[1 + 1] BY <3>1, <1>3
    <3>. QED BY <3>1, <3>2, <2>3, <1>1
  <2>5. Protocol'
    BY <1>1, <2>1, <2>2, <2>4 DEF Protocol, Url
  <2>6. Delivered' BY <2>4, AskedJob DEF Asked
  <2>. QED BY <1>4, <1>7, <2>5, <2>6 DEF BrowseInv, LinkInv
<1>9. CASE wire[1].type # "FAIL"
  <2>1. stream'.state = "open" /\ stream'.q = stream.q /\ messages' = <<>> /\ pending' = <<>>
    BY <1>1, <1>2, <1>3, <1>9
  <2>2. Protocol /\ Delivered BY DEF BrowseInv, LinkInv
  <2>3. wire[1].type = "PHASE" /\ Ran /\ Body(2)
    BY <1>1, <1>3, <1>9, <2>2 DEF Protocol
  <2>4. Ran' BY <2>3, <1>1 DEF Ran
  <2>5. Body(1)'
    <3>1. SUFFICES ASSUME NEW i \in 1..Len(wire')
                   PROVE  /\ wire'[i].type \in {"MESSAGE", "DONE", "CLOSE"}
                          /\ wire'[i].type = "CLOSE" => i = Len(wire') /\ job.state # "reading"
      BY <1>1 DEF Body
    <3>2. i + 1 \in 2..Len(wire) /\ wire'[i] = wire[i + 1] BY <1>3
    <3>3. /\ wire[i + 1].type \in {"MESSAGE", "DONE", "CLOSE"}
          /\ wire[i + 1].type = "CLOSE" => i + 1 = Len(wire) /\ job.state # "reading"
      BY <2>3, <3>2 DEF Body
    <3>. QED BY <3>2, <3>3, <1>3
  <2>6. Protocol'
    <3>1. stream'.q = (Url.q)' BY <1>1, <2>1, <2>2 DEF Protocol, Url
    <3>2. job' # NoJob => job'.q = stream'.q BY <1>1, <2>1, <2>2 DEF Protocol
    <3>. QED BY <2>1, <2>4, <2>5, <3>1, <3>2, <1>1, <2>2 DEF Protocol, Url
  <2>7. Delivered'
    <3>1. Range(messages)' = {} /\ Range(pending)' = {} /\ DOMAIN pending' = {}
          /\ DOMAIN messages' = {}
      BY <2>1 DEF Range
    <3>2. Arrived' = {} /\ Arrived = {} BY <3>1, <2>1, <1>1 DEF Arrived, Answered
    <3>3. Incoming' = Incoming BY <1>3, <2>3
    <3>4. Answer' = Answer BY <1>1 DEF Answer
    <3>5. \A i, j \in OnWire' : i < j => Follows(job.q, wire'[i].message, wire'[j].message)
      BY <1>1, <1>2, <2>2, <2>3, ReceiveOrder
    <3>6. InArrivalOrder(pending)' BY <3>1 DEF InArrivalOrder
    <3>7. InArrivalOrder(IF job.q.mode = "TAILING" THEN Reverse(messages) ELSE messages)'
      <4>1. Reverse(messages') \in Seq(Records) /\ Range(Reverse(messages')) = Range(messages')
        BY <1>7, ReverseFacts DEF ClientShape
      <4>2. DOMAIN Reverse(messages') = {} BY <4>1, <3>1 DEF Range
      <4>. QED BY <3>1, <4>2 DEF InArrivalOrder
    <3>. QED BY <2>2, <2>3, <3>1, <3>2, <3>3, <3>4, <3>5, <3>6, <3>7, <1>1 DEF Delivered
  <2>. QED BY <1>4, <1>7, <2>6, <2>7 DEF BrowseInv, LinkInv
<1>. QED BY <1>8, <1>9

\* An event that arrives keeps the invariant.
LEMMA OnmessageStep ==
  ASSUME BrowseInv, onmessage
  PROVE  BrowseInv'
<1>1. /\ wire # <<>> /\ wire' = Tail(wire) /\ stream.state = "open"
      /\ UNCHANGED <<history, visit, urls, prevCursor, job, orphans, cursors, kafka,
                     faults, isFetching, stream, messages>>
      /\ Head(wire).type \in {"MESSAGE", "DONE"}
      /\ nextCursor' = Head(wire).cursor
      /\ pending' = IF Head(wire).type = "MESSAGE"
                    THEN Append(pending, Head(wire).message) ELSE pending
  BY DEF onmessage, Received
<1>2. /\ wire \in Seq(Events) /\ pending \in Seq(Records) /\ messages \in Seq(Records)
      /\ \A i \in DOMAIN wire : wire[i].cursor \in Ids
                  /\ (wire[i].type = "MESSAGE" => wire[i].message \in Records)
  BY DEF BrowseInv, ClientShape
<1>3. /\ Len(wire) \in Nat \ {0} /\ Head(wire) = wire[1] /\ 1 \in DOMAIN wire
      /\ wire' \in Seq(Events) /\ Len(wire') = Len(wire) - 1
      /\ \A i \in 1..Len(wire') : i + 1 \in DOMAIN wire /\ wire'[i] = wire[i + 1]
      /\ \A i \in DOMAIN wire' : wire'[i].cursor \in Ids
                  /\ (wire'[i].type = "MESSAGE" => wire'[i].message \in Records)
      /\ Incoming = Incoming' \cup
                (IF wire[1].type = "MESSAGE" THEN {wire[1].message} ELSE {})
  BY <1>1, <1>2, ReceiveFacts
<1>4. ServerInv' /\ JobInv' BY <1>1, SameServer, SameJob DEF BrowseInv
<1>5. Ids' = Ids BY <1>1 DEF Ids, cursors
<1>6. pending' \in Seq(Records)
  <2>1. wire[1].type = "MESSAGE" => wire[1].message \in Records BY <1>2, <1>3
  <2>. QED BY <1>1, <1>2, <1>3, <2>1, AppendProperties
<1>7. ClientShape'
  <2>1. nextCursor' \in Ids BY <1>1, <1>2, <1>3
  <2>. QED BY <1>1, <1>3, <1>5, <1>6, <2>1 DEF BrowseInv, ClientShape
<1>8. Protocol /\ Delivered /\ Ran /\ Body(1)
  BY <1>1 DEF BrowseInv, LinkInv, Protocol
<1>9. Protocol'
  <2>1. Body(1)'
    <3>1. SUFFICES ASSUME NEW i \in 1..Len(wire')
                   PROVE  /\ wire'[i].type \in {"MESSAGE", "DONE", "CLOSE"}
                          /\ wire'[i].type = "CLOSE" => i = Len(wire') /\ job.state # "reading"
      BY <1>1 DEF Body
    <3>2. i + 1 \in 1..Len(wire) /\ wire'[i] = wire[i + 1] BY <1>3
    <3>3. /\ wire[i + 1].type \in {"MESSAGE", "DONE", "CLOSE"}
          /\ wire[i + 1].type = "CLOSE" => i + 1 = Len(wire) /\ job.state # "reading"
      BY <1>8, <3>2 DEF Body
    <3>. QED BY <3>2, <3>3, <1>3
  <2>2. Ran' BY <1>8, <1>1 DEF Ran
  <2>3. stream'.q = (Url.q)' /\ (job' # NoJob => job'.q = stream'.q) /\ stream'.state = "open"
    BY <1>1, <1>8 DEF Protocol, Url
  <2>. QED BY <2>1, <2>2, <2>3, <1>8, <1>1 DEF Protocol, Url
<1>10. Delivered'
  <2>1. Answer' = Answer /\ Answered /\ Answered' BY <1>1 DEF Answer, Answered
  <2>2. \A i, j \in OnWire' : i < j => Follows(job.q, wire'[i].message, wire'[j].message)
    BY <1>1, <1>2, <1>8, ReceiveOrder
  <2>3. wire[1].type = "MESSAGE" => \A s \in Incoming' : Follows(job.q, wire[1].message, s)
    BY <1>1, <1>2, <1>8, ReceiveOrder
  <2>4. /\ Answer = Arrived \cup Incoming
        /\ \A r \in Arrived, s \in Incoming : Follows(job.q, r, s)
        /\ InArrivalOrder(IF job.q.mode = "TAILING" THEN Reverse(messages) ELSE messages)
        /\ InArrivalOrder(pending)
        /\ \A r \in Range(messages), s \in Range(pending) : Follows(job.q, r, s)
    BY <1>8, <2>1 DEF Delivered
  <2>5. Arrived = Range(messages) \cup Range(pending)
        /\ Arrived' = Range(messages) \cup Range(pending)'
    BY <2>1, <1>1 DEF Arrived, Range
  <2>6. InArrivalOrder(IF job.q.mode = "TAILING" THEN Reverse(messages) ELSE messages)'
    BY <2>4, <1>1 DEF InArrivalOrder
  <2>7. CASE wire[1].type # "MESSAGE"
    <3>1. pending' = pending /\ Incoming' = Incoming BY <2>7, <1>1, <1>3
    <3>2. Range(pending)' = Range(pending) /\ InArrivalOrder(pending)'
      BY <3>1, <2>4, <1>1 DEF Range, InArrivalOrder
    <3>3. Range(messages)' = Range(messages) BY <1>1 DEF Range
    <3>. QED BY <2>1, <2>2, <2>4, <2>5, <2>6, <3>1, <3>2, <3>3, <1>1 DEF Delivered
  <2>8. CASE wire[1].type = "MESSAGE"
    <3>. DEFINE m == wire[1].message
    <3>1. m \in Records /\ pending' = Append(pending, m) BY <2>8, <1>1, <1>2, <1>3
    <3>2. m \in Incoming /\ Incoming = Incoming' \cup {m} BY <2>8, <1>3
    <3>. HIDE DEF m
    <3>3. <<m>> \in Seq(Records) /\ Range(<<m>>) = {m} /\ pending' = pending \o <<m>>
      <4>1. <<m>> \in Seq(Records) BY <3>1
      <4>2. Range(<<m>>) = {m} BY DEF Range
      <4>. QED BY <4>1, <4>2, <3>1, <1>2, AppendIsConcat
    <3>4. InArrivalOrder(<<m>>) BY DEF InArrivalOrder
    <3>5. \A r \in Range(pending) : Follows(job.q, r, m) BY <2>4, <2>5, <3>2
    <3>6. /\ InArrivalOrder(pending \o <<m>>)
          /\ Range(pending \o <<m>>) = Range(pending) \cup {m}
      <4>1. \A r \in Range(pending), u \in Range(<<m>>) : Follows(job.q, r, u)
        BY <3>3, <3>5
      <4>2. InArrivalOrder(pending) BY <2>4
      <4>. QED BY <3>3, <3>4, <4>1, <4>2, <1>2, OrderedConcat
    <3>7. InArrivalOrder(pending)' /\ Range(pending)' = Range(pending) \cup {m}
      BY <3>6, <3>3, <1>1 DEF InArrivalOrder, Range
    <3>8. Range(messages)' = Range(messages) BY <1>1 DEF Range
    <3>9. \A r \in Range(messages)', s \in Range(pending)' : Follows(job.q, r, s)
      BY <3>7, <3>8, <2>4, <2>5, <3>2
    <3>10. \A r \in Arrived', s \in Incoming' : Follows(job.q, r, s)
      BY <2>4, <2>5, <3>2, <3>7, <2>3, <2>8 DEF m
    <3>11. Answer' = Arrived' \cup Incoming' BY <2>1, <2>4, <2>5, <3>2, <3>7
    <3>. QED BY <2>1, <2>2, <2>6, <3>7, <3>9, <3>10, <3>11, <1>1 DEF Delivered
  <2>. QED BY <2>7, <2>8
<1>. QED BY <1>4, <1>7, <1>9, <1>10 DEF BrowseInv, LinkInv

---------------------------------------------------------------------------
\* Streams that end, break and are asked for again.

\* The end of a response keeps the invariant.
LEMMA OncloseStep ==
  ASSUME BrowseInv, onclose
  PROVE  BrowseInv'
<1>1. /\ wire # <<>> /\ wire' = Tail(wire) /\ stream.state \in {"open", "failed"}
      /\ Head(wire).type = "CLOSE"
      /\ UNCHANGED <<history, visit, urls, prevCursor, job, orphans, cursors, kafka,
                     faults, nextCursor>>
      /\ messages' = Flushed /\ pending' = <<>> /\ isFetching' = FALSE
      /\ stream' = [stream EXCEPT !.state = IF @ = "open" THEN "closed" ELSE "refused"]
  BY DEF onclose, Received
<1>2. /\ wire \in Seq(Events) /\ pending \in Seq(Records) /\ messages \in Seq(Records)
      /\ \A i \in DOMAIN wire : wire[i].cursor \in Ids
                  /\ (wire[i].type = "MESSAGE" => wire[i].message \in Records)
      /\ stream \in [state : {"none", "sent", "open", "failed", "closed", "refused",
                              "retry"}, q : Queries, cursor : Ids]
  BY DEF BrowseInv, ClientShape
<1>3. /\ Len(wire) \in Nat \ {0} /\ Head(wire) = wire[1] /\ 1 \in DOMAIN wire
      /\ wire' \in Seq(Events) /\ Len(wire') = Len(wire) - 1
      /\ \A i \in DOMAIN wire' : wire'[i].cursor \in Ids
                  /\ (wire'[i].type = "MESSAGE" => wire'[i].message \in Records)
      /\ Incoming = Incoming' \cup
                (IF wire[1].type = "MESSAGE" THEN {wire[1].message} ELSE {})
  BY <1>1, <1>2, ReceiveFacts
<1>4. ServerInv' /\ JobInv' BY <1>1, SameServer, SameJob DEF BrowseInv
<1>5. Ids' = Ids BY <1>1 DEF Ids, cursors
<1>6. /\ messages' \in Seq(Records) /\ pending' \in Seq(Records)
      /\ Range(messages)' = Range(messages) \cup Range(pending)
      /\ Range(pending)' = {}
      /\ Url.q = job.q /\ job' = job
         /\ InArrivalOrder(IF job.q.mode = "TAILING" THEN Reverse(messages) ELSE messages)
         /\ InArrivalOrder(pending)
         /\ (\A r \in Range(messages), s \in Range(pending) : Follows(job.q, r, s))
         => InArrivalOrder(IF job.q.mode = "TAILING" THEN Reverse(messages) ELSE messages)'
  BY <1>1, <1>2, FlushFacts
<1>7. /\ stream' \in [state : {"none", "sent", "open", "failed", "closed", "refused",
                               "retry"}, q : Queries, cursor : Ids]
      /\ stream'.q = stream.q
      /\ stream'.state = IF stream.state = "open" THEN "closed" ELSE "refused"
  BY <1>1, <1>2
<1>8. ClientShape' BY <1>1, <1>3, <1>5, <1>6, <1>7 DEF BrowseInv, ClientShape
<1>9. Protocol /\ Delivered BY DEF BrowseInv, LinkInv
<1>10. Len(wire) = 1
  <2>1. CASE stream.state = "open"
    <3>1. Body(1) BY <2>1, <1>9 DEF Protocol
    <3>2. 1 \in 1..Len(wire) BY <1>3
    <3>. QED BY <3>1, <3>2, <1>1, <1>3 DEF Body
  <2>2. CASE stream.state = "failed" BY <2>2, <1>9 DEF Protocol
  <2>. QED BY <2>1, <2>2, <1>1
<1>11. wire' = <<>>
  <2>1. Len(wire') = 0 BY <1>3, <1>10
  <2>. QED BY <2>1, <1>3, EmptySeq
<1>12. Protocol'
  <2>1. stream'.q = (Url.q)' /\ (job' # NoJob => job'.q = stream'.q)
    BY <1>1, <1>7, <1>9 DEF Protocol, Url
  <2>2. CASE stream.state = "open"
    <3>1. Body(1) /\ Ran BY <2>2, <1>9 DEF Protocol
    <3>2. 1 \in 1..Len(wire) BY <1>3
    <3>3. job.state # "reading" BY <3>1, <3>2, <1>1, <1>3 DEF Body
    <3>4. job'.state \in {"done", "ended"} BY <3>1, <3>3, <1>1 DEF Ran
    <3>5. stream'.state = "closed" BY <2>2, <1>7
    <3>. QED BY <2>1, <3>4, <3>5, <1>11 DEF Protocol
  <2>3. CASE stream.state = "failed"
    <3>1. job' = NoJob /\ stream'.state = "refused" BY <2>3, <1>1, <1>7, <1>9 DEF Protocol
    <3>. QED BY <2>1, <3>1, <1>11 DEF Protocol
  <2>. QED BY <2>2, <2>3, <1>1
<1>13. Delivered'
  <2>1. CASE ~Ran BY <2>1, <1>1 DEF Delivered, Ran
  <2>2. CASE Ran
    <3>1. stream.state = "open" BY <2>2, <1>1, <1>9 DEF Protocol, Ran, NoJob
    <3>2. Answered /\ Answered' /\ Answer' = Answer
      BY <3>1, <1>1, <1>7 DEF Answered, Answer
    <3>3. Incoming' = Incoming BY <1>1, <1>3
    <3>4. OnWire' = {} /\ Incoming' = {} BY <1>11 DEF OnWire, Incoming
    <3>5. Arrived' = Range(messages) \cup Range(pending) /\ Arrived' = Arrived
      BY <3>2, <1>6 DEF Arrived
    <3>6. InArrivalOrder(pending)' BY <1>1 DEF InArrivalOrder
    <3>7. Url.q = job.q BY <2>2, <1>9 DEF Protocol, Ran, NoJob
    <3>8. InArrivalOrder(IF job.q.mode = "TAILING" THEN Reverse(messages) ELSE messages)'
      BY <2>2, <3>2, <3>7, <1>1, <1>6, <1>9 DEF Delivered
    <3>. QED BY <2>2, <3>2, <3>3, <3>4, <3>5, <3>6, <3>8, <1>6, <1>9 DEF Delivered
  <2>. QED BY <2>1, <2>2
<1>. QED BY <1>4, <1>8, <1>12, <1>13 DEF BrowseInv, LinkInv

\* The page stops or loses the stream: nothing is on its way any more.
LEMMA CutStep ==
  ASSUME BrowseInv, abortFetchData \/ onerror
  PROVE  BrowseInv'
<1>1. /\ wire' = <<>> /\ job' = NoJob /\ isFetching' = FALSE
      /\ nextCursor' \in {nextCursor, None} /\ pending' \in {pending, <<>>}
      /\ faults' \in {faults, faults + 1} /\ (faults' # faults => faults < MaxFaults)
      /\ \E s \in {"none", "retry"} : stream' = [stream EXCEPT !.state = s]
      /\ UNCHANGED <<history, visit, urls, messages, prevCursor, cursors, kafka>>
  BY DEF abortFetchData, onerror, cancelPendingMessages
<1>2. PICK s \in {"none", "retry"} : stream' = [stream EXCEPT !.state = s] BY <1>1
<1>3. /\ stream \in [state : {"none", "sent", "open", "failed", "closed", "refused",
                              "retry"}, q : Queries, cursor : Ids]
      /\ pending \in Seq(Records) /\ nextCursor \in Ids /\ faults \in 0..MaxFaults
  BY DEF BrowseInv, ClientShape
<1>4. /\ stream' \in [state : {"none", "sent", "open", "failed", "closed", "refused",
                               "retry"}, q : Queries, cursor : Ids]
      /\ stream'.q = stream.q /\ stream'.state = s
  BY <1>2, <1>3
<1>5. ServerInv' BY <1>1, SameServer DEF BrowseInv
<1>6. JobInv' /\ Delivered' BY <1>1, AskedJob DEF Asked
<1>7. Ids' = Ids /\ None \in Ids
  BY <1>1 DEF Ids, cursors, None, BrowseInv, ServerInv, CacheShape
<1>8. ClientShape'
  <2>1. wire' \in Seq(Events) /\ DOMAIN wire' = {} /\ pending' \in Seq(Records)
    <3>1. wire' \in Seq(Events) /\ DOMAIN wire' = {} BY <1>1
    <3>2. <<>> \in Seq(Records) OBVIOUS
    <3>. QED BY <3>1, <3>2, <1>1, <1>3
  <2>2. faults' \in 0..MaxFaults /\ nextCursor' \in Ids BY <1>1, <1>3, <1>7, BrowseBounds
  <2>. QED BY <1>1, <1>4, <1>7, <2>1, <2>2 DEF BrowseInv, ClientShape
<1>9. Protocol' BY <1>1, <1>4 DEF BrowseInv, LinkInv, Protocol, Url
<1>. QED BY <1>5, <1>6, <1>8, <1>9 DEF BrowseInv, LinkInv

\* Asking again keeps the invariant.
LEMMA RetryStep ==
  ASSUME BrowseInv, Retry
  PROVE  BrowseInv'
<1>1. /\ stream.state = "retry" /\ stream' = [stream EXCEPT !.state = "sent"]
      /\ job' = [state |-> "sent", q |-> stream.q, cursor |-> stream.cursor]
      /\ UNCHANGED <<history, visit, urls, isFetching, messages, pending,
                     prevCursor, nextCursor, wire, orphans, cursors, kafka, faults>>
  BY DEF Retry
<1>2. stream \in [state : {"none", "sent", "open", "failed", "closed", "refused",
                           "retry"}, q : Queries, cursor : Ids]
  BY DEF BrowseInv, ClientShape
<1>3. /\ stream' \in [state : {"none", "sent", "open", "failed", "closed", "refused",
                               "retry"}, q : Queries, cursor : Ids]
      /\ stream'.q = stream.q /\ stream'.state = "sent"
  BY <1>1, <1>2
<1>4. Ids' = Ids /\ Ids \subseteq Nat BY <1>1 DEF Ids, cursors
<1>5. Asked(job)' BY <1>1, <1>2, <1>4 DEF Asked, SentJobs
<1>6. ServerInv' BY <1>1, SameServer DEF BrowseInv
<1>7. ClientShape' BY <1>1, <1>3, <1>4 DEF BrowseInv, ClientShape
<1>8. Protocol'
  <2>1. wire = <<>> /\ stream.q = Url.q BY <1>1 DEF BrowseInv, LinkInv, Protocol
  <2>2. (Url.q)' = Url.q BY <1>1 DEF Url
  <2>3. job'.state = "sent" /\ job'.q = stream.q BY <1>1
  <2>. QED BY <1>1, <1>3, <2>1, <2>2, <2>3 DEF Protocol
<1>. QED BY <1>5, <1>6, <1>7, <1>8, AskedJob DEF BrowseInv, LinkInv

\* An error before the first event keeps the invariant.
LEMMA PreStreamErrorStep ==
  ASSUME BrowseInv, PreStreamError
  PROVE  BrowseInv'
<1>1. /\ job.state = "sent" /\ faults < MaxFaults /\ faults' = faults + 1
      /\ job' = NoJob /\ wire' = wire \o <<Event("FAIL"), Event("CLOSE")>>
      /\ UNCHANGED <<client, orphans, cursors, kafka>>
  BY DEF PreStreamError, Fault, Emit
<1>2. Protocol BY DEF BrowseInv, LinkInv
<1>3. stream.state = "sent" /\ wire = <<>>
  <2>1. /\ stream.state \in {"none", "sent", "open", "failed", "closed", "refused", "retry"}
        /\ ~Ran /\ job # NoJob
    BY <1>1 DEF BrowseInv, ClientShape, Ran, NoJob
  <2>. QED BY <1>1, <1>2, <2>1 DEF Protocol
<1>. DEFINE a == Event("FAIL")
            b == Event("CLOSE")
<1>4. /\ a \in Events /\ b \in Events /\ a.type = "FAIL" /\ b.type = "CLOSE"
      /\ a.cursor = 0 /\ b.cursor = 0
  BY DEF Event, Events, None
<1>. HIDE DEF a, b
<1>5. wire' = <<a, b>> BY <1>1, <1>3 DEF a, b
<1>6. Ids' = Ids /\ 0 \in Ids BY <1>1 DEF Ids, cursors, BrowseInv, ServerInv, CacheShape
<1>7. /\ wire' \in Seq(Events) /\ Len(wire') = 2 /\ wire'[1] = a /\ wire'[2] = b
      /\ DOMAIN wire' = {1, 2}
  BY <1>4, <1>5
<1>8. ServerInv' BY <1>1, SameServer DEF BrowseInv
<1>9. JobInv' /\ Delivered' BY <1>1, AskedJob DEF Asked
<1>10. ClientShape'
  <2>1. faults' \in 0..MaxFaults BY <1>1, BrowseBounds DEF BrowseInv, ClientShape
  <2>2. \A i \in DOMAIN wire' : wire'[i].cursor \in Ids
                  /\ (wire'[i].type = "MESSAGE" => wire'[i].message \in Records)
    BY <1>4, <1>6, <1>7
  <2>. QED BY <1>1, <1>6, <1>7, <2>1, <2>2 DEF BrowseInv, ClientShape, client
<1>11. Protocol'
  <2>1. stream' = stream /\ (Url.q)' = Url.q BY <1>1 DEF client, Url
  <2>. QED BY <1>1, <1>2, <1>3, <1>4, <1>7, <2>1 DEF Protocol
<1>. QED BY <1>8, <1>9, <1>10, <1>11 DEF BrowseInv, LinkInv

---------------------------------------------------------------------------
\* The log and the passing of time.

\* Retention and producers leave what was read to the pages that read it.
LEMMA LogStep ==
  ASSUME BrowseInv, LogShape', UNCHANGED <<client, wire, job, orphans, cursors>>,
         faults' \in 0..MaxFaults,
         \A p \in Partitions : logStart[p] <= logStart'[p] /\ logEnd[p] <= logEnd'[p]
  PROVE  BrowseInv'
<1>1. ClientShape'
  BY DEF BrowseInv, ClientShape, Ids, client, cursors
<1>2. \A p \in Partitions : /\ logStart[p] \in Nat /\ logEnd[p] \in Nat
                            /\ logStart'[p] \in Nat /\ logEnd'[p] \in Nat
                            /\ logStart[p] <= logStart'[p] /\ logEnd[p] <= logEnd'[p]
  BY DEF BrowseInv, ServerInv, LogShape, Offs
<1>3. ASSUME NEW covered, NEW p \in Partitions, NEW lo \in Nat, NEW hi \in Nat,
             hi <= logEnd[p], RetainedRead(covered, p, lo, hi)
      PROVE  RetainedRead(covered, p, lo, hi)'
  <2>1. ASSUME NEW o \in Retained(p, lo, hi)' PROVE o \in Retained(p, lo, hi)
    <3>1. o \in logStart'[p]..(logEnd'[p] - 1) /\ lo <= o /\ o < hi /\ IsData(p, o)
      BY <2>1 DEF Retained, IsData, Kind
    <3>2. o \in logStart[p]..(logEnd[p] - 1) BY <3>1, <1>2, <1>3
    <3>. QED BY <3>1, <3>2 DEF Retained
  <2>. QED BY <2>1, <1>3 DEF RetainedRead
<1>4. CacheShape' /\ CacheConsistent'
  <2>1. CacheShape /\ CacheConsistent BY DEF BrowseInv, ServerInv
  <2>2. CacheConsistent' BY <2>1 DEF CacheConsistent, cursors
  <2>3. ASSUME NEW i \in DOMAIN entries, NEW p \in Partitions
        PROVE  entries[i].offsets[p] <= logEnd'[p] /\ entries[i].chain.from[p] <= logEnd'[p]
    <3>1. /\ entries[i].offsets[p] <= logEnd[p] /\ entries[i].chain.from[p] <= logEnd[p]
          /\ entries[i].offsets \in Offs /\ entries[i].chain \in Chains
      BY <2>1 DEF CacheShape
    <3>2. entries[i].offsets[p] \in Nat /\ entries[i].chain.from[p] \in Nat
      BY <3>1 DEF Offs, Chains
    <3>. QED BY <3>1, <3>2, <1>2
  <2>. QED BY <2>1, <2>2, <2>3 DEF CacheShape, cursors
<1>5. JobShape'
  <2>1. JobShape BY DEF BrowseInv, JobInv
  <2>2. CASE Ran
    <3>1. /\ job \in RunJobs /\ IsFiniteSet(job.merged)
          /\ \A p \in Partitions : /\ job.starts[p] <= job.pos[p] /\ job.pos[p] <= logEnd[p]
                                   /\ job.ends[p] <= logEnd[p] /\ job.chain.from[p] <= logEnd[p]
          /\ \A m \in job.merged : job.starts[m[1]] <= m[2] /\ m[2] < job.pos[m[1]]
          /\ job.q.mode \in Backward => \A m \in job.merged : m[2] < job.ends[m[1]]
      BY <2>1, <2>2 DEF JobShape, Ran, NoJob, SentJobs
    <3>2. \A p \in Partitions : /\ job.pos[p] \in Nat /\ job.ends[p] \in Nat
                                /\ job.chain.from[p] \in Nat
      BY <3>1 DEF RunJobs, Offs, Chains
    <3>3. \A p \in Partitions : /\ job.pos[p] <= logEnd'[p] /\ job.ends[p] <= logEnd'[p]
                                /\ job.chain.from[p] <= logEnd'[p]
      BY <3>1, <3>2, <1>2
    <3>. QED BY <3>1, <3>3 DEF JobShape
  <2>3. CASE ~Ran
    <3>1. job = NoJob \/ (job \in SentJobs /\ job.cursor \in Ids)
      BY <2>1, <2>3 DEF JobShape, Ran, RunJobs
    <3>. QED BY <3>1 DEF JobShape, Ids, cursors
  <2>. QED BY <2>2, <2>3
<1>6. JobRead'
  <2>1. SUFFICES ASSUME Ran PROVE JobRead' BY DEF JobRead, Ran
  <2>2. JobRead BY DEF BrowseInv, JobInv
  <2>3. /\ job \in RunJobs
        /\ \A p \in Partitions : /\ job.pos[p] <= logEnd[p] /\ job.ends[p] <= logEnd[p]
                                 /\ job.chain.from[p] <= logEnd[p]
    BY <2>1 DEF BrowseInv, JobInv, JobShape, Ran, NoJob, SentJobs
  <2>4. \A p \in Partitions : /\ job.pos[p] \in Nat /\ job.ends[p] \in Nat
                              /\ job.starts[p] \in Nat /\ job.chain.from[p] \in Nat
    BY <2>3 DEF RunJobs, Offs, Chains
  <2>5. job.q.mode \in Forward => ForwardJob'
    <3>1. SUFFICES ASSUME job.q.mode \in Forward PROVE ForwardJob' OBVIOUS
    <3>2. ForwardJob BY <2>1, <2>2, <3>1 DEF JobRead
    <3>3. \A p \in Partitions : RetainedRead(job.chain.covered, p, job.chain.from[p], job.pos[p])'
      <4>1. SUFFICES ASSUME NEW p \in Partitions
                     PROVE RetainedRead(job.chain.covered, p, job.chain.from[p], job.pos[p])'
        OBVIOUS
      <4>. DEFINE c == job.chain.covered
                  lo == job.chain.from[p]
                  hi == job.pos[p]
      <4>2. /\ lo \in Nat /\ hi \in Nat /\ hi <= logEnd[p] /\ RetainedRead(c, p, lo, hi)
            /\ c' = c /\ lo' = lo /\ hi' = hi
        BY <2>3, <2>4, <3>2 DEF ForwardJob
      <4>. QED BY <4>2, <1>3 DEF RetainedRead, Retained
    <3>. QED BY <3>2, <3>3 DEF ForwardJob
  <2>6. job.q.mode \in Backward => BackwardJob'
    <3>1. SUFFICES ASSUME job.q.mode \in Backward PROVE BackwardJob' OBVIOUS
    <3>2. BackwardJob BY <2>1, <2>2, <3>1 DEF JobRead
    <3>3. \A p \in Partitions : job.ends[p] <= logStart[p] => job.ends[p] <= logStart'[p]
      BY <1>2, <2>4
    <3>4. ASSUME ~job.chain.hole, NEW p \in Partitions
          PROVE  /\ RetainedRead(job.chain.covered, p, job.ends[p], job.chain.from[p])'
                 /\ RetainedRead(job.chain.covered, p, job.starts[p],
                        IF job.pos[p] <= job.ends[p] THEN job.pos[p] ELSE job.ends[p])'
      <4>. DEFINE c == job.chain.covered
                  end == job.ends[p]
                  from == job.chain.from[p]
                  start == job.starts[p]
                  hi == IF job.pos[p] <= job.ends[p] THEN job.pos[p] ELSE job.ends[p]
      <4>1. /\ end \in Nat /\ from \in Nat /\ start \in Nat /\ hi \in Nat
            /\ from <= logEnd[p] /\ hi <= logEnd[p]
            /\ RetainedRead(c, p, end, from) /\ RetainedRead(c, p, start, hi)
        BY <2>3, <2>4, <3>2, <3>4 DEF BackwardJob
      <4>. QED BY <4>1, <1>3 DEF RetainedRead, Retained
    <3>. QED BY <3>2, <3>3, <3>4 DEF BackwardJob
  <2>. QED BY <2>1, <2>2, <2>5, <2>6 DEF JobRead, Ran
<1>7. EntriesRead'
  <2>1. EntriesRead /\ CacheShape BY DEF BrowseInv, ServerInv
  <2>2. SUFFICES ASSUME NEW i \in DOMAIN entries
                 PROVE  /\ issued[i].mode \in Forward => ForwardEntry(entries[i])'
                        /\ issued[i].mode \in Backward => BackwardEntry(entries[i])'
    BY DEF EntriesRead, cursors
  <2>. DEFINE e == entries[i]
  <2>3. /\ e.offsets \in Offs /\ e.chain \in Chains
        /\ \A p \in Partitions : e.offsets[p] <= logEnd[p] /\ e.chain.from[p] <= logEnd[p]
    BY <2>1 DEF CacheShape
  <2>4. \A p \in Partitions : e.offsets[p] \in Nat /\ e.chain.from[p] \in Nat
    BY <2>3 DEF Offs, Chains
  <2>5. e' = e BY DEF cursors
  <2>. HIDE DEF e
  <2>6. ASSUME ForwardEntry(e) PROVE ForwardEntry(e)'
    <3>1. \A p \in Partitions : RetainedRead(e.chain.covered, p, e.chain.from[p], e.offsets[p])'
      <4>1. SUFFICES ASSUME NEW p \in Partitions
                     PROVE RetainedRead(e.chain.covered, p, e.chain.from[p], e.offsets[p])'
        OBVIOUS
      <4>2. RetainedRead(e.chain.covered, p, e.chain.from[p], e.offsets[p])
        BY <2>6 DEF ForwardEntry
      <4>. DEFINE c == e.chain.covered
                  lo == e.chain.from[p]
                  hi == e.offsets[p]
      <4>3. lo \in Nat /\ hi \in Nat /\ hi <= logEnd[p] /\ RetainedRead(c, p, lo, hi)
            /\ c' = c /\ lo' = lo /\ hi' = hi
        BY <2>3, <2>4, <2>5, <4>2
      <4>. QED BY <4>3, <1>3 DEF RetainedRead, Retained
    <3>. QED BY <2>5, <2>6, <3>1 DEF ForwardEntry
  <2>7. ASSUME BackwardEntry(e) PROVE BackwardEntry(e)'
    <3>1. \A p \in Partitions : e.offsets[p] <= logStart[p] => e.offsets[p] <= logStart'[p]
      BY <1>2, <2>4
    <3>2. ASSUME ~e.chain.hole, NEW p \in Partitions
          PROVE RetainedRead(e.chain.covered, p, e.offsets[p], e.chain.from[p])'
      <4>2. RetainedRead(e.chain.covered, p, e.offsets[p], e.chain.from[p])
        BY <2>7, <3>2 DEF BackwardEntry
      <4>. DEFINE c == e.chain.covered
                  hi == e.chain.from[p]
                  lo == e.offsets[p]
      <4>3. lo \in Nat /\ hi \in Nat /\ hi <= logEnd[p] /\ RetainedRead(c, p, lo, hi)
            /\ c' = c /\ lo' = lo /\ hi' = hi
        BY <2>3, <2>4, <2>5, <4>2
      <4>. QED BY <4>3, <1>3 DEF RetainedRead, Retained
    <3>. QED BY <2>5, <2>7, <3>1, <3>2 DEF BackwardEntry
  <2>8. issued[i].mode \in Forward => ForwardEntry(e) BY <2>1 DEF EntriesRead, e
  <2>9. issued[i].mode \in Backward => BackwardEntry(e) BY <2>1 DEF EntriesRead, e
  <2>. QED BY <2>5, <2>6, <2>7, <2>8, <2>9 DEF e
<1>8. LinkInv'
  <2>1. Protocol' BY DEF BrowseInv, LinkInv, Protocol, Url, Ran, Body, client
  <2>2. Delivered'
    BY DEF BrowseInv, LinkInv, Delivered, Ran, Answer, Arrived, Answered, Incoming, OnWire,
           InArrivalOrder, client
  <2>. QED BY <2>1, <2>2 DEF LinkInv
<1>. QED BY <1>1, <1>4, <1>5, <1>6, <1>7, <1>8 DEF BrowseInv, ServerInv, JobInv

\* Faults stay within their bound.
LEMMA FaultCounted ==
  ASSUME BrowseInv, Fault
  PROVE  faults' \in 0..MaxFaults
BY BrowseBounds DEF BrowseInv, ClientShape, Fault

\* New records keep the invariant.
LEMMA ProduceStep ==
  ASSUME BrowseInv, Produce
  PROVE  BrowseInv'
<1>1. PICK p \in Partitions : /\ logEnd[p] < Len(Log[p])
                              /\ logEnd' = [logEnd EXCEPT ![p] = Len(Log[p])]
  BY DEF Produce
<1>2. UNCHANGED <<client, wire, job, orphans, cursors, logStart>> /\ Fault BY DEF Produce
<1>3. LogShape BY DEF BrowseInv, ServerInv
<1>4. \A x \in Partitions : /\ logStart[x] \in Nat /\ logEnd[x] \in Nat /\ Len(Log[x]) \in Nat
                            /\ logStart[x] <= logEnd[x] /\ logEnd[x] <= Len(Log[x])
  BY <1>3, LogFacts
<1>5. logEnd' \in Offs /\ \A x \in Partitions : logEnd'[x] = IF x = p THEN Len(Log[p]) ELSE logEnd[x]
  BY <1>1, <1>3, <1>4 DEF LogShape, Offs
<1>6. LogShape' BY <1>2, <1>3, <1>4, <1>5 DEF LogShape
<1>7. \A x \in Partitions : logStart[x] <= logStart'[x] /\ logEnd[x] <= logEnd'[x]
  BY <1>2, <1>4, <1>5
<1>. QED BY <1>2, <1>6, <1>7, FaultCounted, LogStep

\* The removal of old records keeps the invariant.
LEMMA RetainStep ==
  ASSUME BrowseInv, Retain
  PROVE  BrowseInv'
<1>1. PICK p \in Partitions : /\ logStart[p] < logEnd[p]
                              /\ logStart' = [logStart EXCEPT ![p] = @ + 1]
  BY DEF Retain
<1>2. UNCHANGED <<client, wire, job, orphans, cursors, logEnd>> /\ Fault BY DEF Retain
<1>3. LogShape BY DEF BrowseInv, ServerInv
<1>4. \A x \in Partitions : /\ logStart[x] \in Nat /\ logEnd[x] \in Nat /\ Len(Log[x]) \in Nat
                            /\ logStart[x] <= logEnd[x] /\ logEnd[x] <= Len(Log[x])
  BY <1>3, LogFacts
<1>5. /\ logStart' \in Offs
      /\ \A x \in Partitions : logStart'[x] = IF x = p THEN logStart[x] + 1 ELSE logStart[x]
  BY <1>1, <1>3, <1>4 DEF LogShape, Offs
<1>6. LogShape' BY <1>1, <1>2, <1>3, <1>4, <1>5 DEF LogShape
<1>7. \A x \in Partitions : logStart[x] <= logStart'[x] /\ logEnd[x] <= logEnd'[x]
  BY <1>2, <1>4, <1>5
<1>. QED BY <1>2, <1>6, <1>7, FaultCounted, LogStep

\* A cursor that expires keeps the invariant.
LEMMA ExpireStep ==
  ASSUME BrowseInv, Expire
  PROVE  BrowseInv'
<1>1. PICK id \in DOMAIN entries \ expired : expired' = expired \cup {id} BY DEF Expire
<1>2. UNCHANGED <<client, wire, job, orphans, entries, order, issued, kafka>> /\ Fault
  BY DEF Expire
<1>3. ServerInv'
  <2>1. CacheShape' BY <1>1, <1>2 DEF BrowseInv, ServerInv, CacheShape, kafka
  <2>. QED BY <1>2, <2>1
       DEF BrowseInv, ServerInv, LogShape, CacheConsistent, EntriesRead, ForwardEntry,
           BackwardEntry, RetainedRead, Retained, kafka
<1>4. JobInv'
  <2>1. JobShape' BY <1>2 DEF BrowseInv, JobInv, JobShape, Ids, kafka
  <2>2. JobRead'
    BY <1>2 DEF BrowseInv, JobInv, JobRead, Ran, ForwardJob, BackwardJob, RetainedRead,
                Retained, kafka
  <2>. QED BY <2>1, <2>2 DEF JobInv
<1>5. ClientShape' BY <1>2, FaultCounted DEF BrowseInv, ClientShape, Ids, client
<1>6. LinkInv'
  <2>1. Protocol' BY <1>2 DEF BrowseInv, LinkInv, Protocol, Url, Ran, Body, client
  <2>2. Delivered'
    BY <1>2 DEF BrowseInv, LinkInv, Delivered, Ran, Answer, Arrived, Answered, Incoming,
                OnWire, InArrivalOrder, client
  <2>. QED BY <2>1, <2>2 DEF LinkInv
<1>. QED BY <1>3, <1>4, <1>5, <1>6 DEF BrowseInv

---------------------------------------------------------------------------
\* The cursor cache.

\* The order after a save: the new id at the end, the oldest out when full.
LEMMA KeptFacts ==
  ASSUME NEW s \in Seq(Nat), NEW id \in Nat, id \notin Range(s), IsInjective(s),
         Len(s) <= Capacity
  PROVE  LET o == Append(s, id)
             kept == SubSeq(o, IF Len(o) > Capacity THEN 2 ELSE 1, Len(o))
         IN  /\ kept \in Seq(Nat) /\ Len(kept) <= Capacity /\ IsInjective(kept)
             /\ Range(kept) \subseteq Range(s) \cup {id} /\ id \in Range(kept)
<1>. DEFINE o == Append(s, id)
            d == IF Len(o) > Capacity THEN 1 ELSE 0
            kept == SubSeq(o, d + 1, Len(o))
<1>1. /\ Len(s) \in Nat /\ o \in Seq(Nat) /\ Len(o) = Len(s) + 1
      /\ o[Len(s) + 1] = id /\ \A i \in 1..Len(s) : o[i] = s[i] /\ s[i] \in Nat
      /\ DOMAIN s = 1..Len(s)
  OBVIOUS
<1>2. Capacity \in Nat /\ Capacity # 0 BY BrowseBounds
<1>. HIDE DEF o
<1>3. d \in 0..1 /\ Len(s) + 1 - d <= Capacity /\ Len(s) + 1 - d >= 1 /\ d + 1 \in 1..2
      /\ d <= Len(s)
  BY <1>1, <1>2
<1>3a. SubSeq(o, IF Len(o) > Capacity THEN 2 ELSE 1, Len(o)) = kept OBVIOUS
<1>. HIDE DEF d
<1>4. /\ kept \in Seq(Nat) /\ Len(kept) = Len(s) + 1 - d
      /\ \A i \in 1..(Len(s) + 1 - d) : kept[i] = o[i + d]
  BY <1>1, <1>3
<1>5. DOMAIN kept = 1..(Len(s) + 1 - d) BY <1>4
<1>. HIDE DEF kept
<1>6. ASSUME NEW i \in 1..(Len(s) + 1), NEW j \in 1..(Len(s) + 1), o[i] = o[j]
      PROVE  i = j
  <2>1. \A k \in 1..Len(s) : s[k] # id BY <1>1 DEF Range
  <2>2. CASE i <= Len(s) /\ j <= Len(s)
    <3>1. i \in DOMAIN s /\ j \in DOMAIN s BY <2>2, <1>1
    <3>2. s[i] = s[j] BY <3>1, <1>1, <1>6
    <3>. QED BY <3>1, <3>2 DEF IsInjective
  <2>3. CASE i = Len(s) + 1 /\ j <= Len(s)
    <3>1. j \in 1..Len(s) BY <2>3
    <3>. QED BY <2>1, <2>3, <3>1, <1>1, <1>6
  <2>4. CASE j = Len(s) + 1 /\ i <= Len(s)
    <3>1. i \in 1..Len(s) BY <2>4
    <3>. QED BY <2>1, <2>4, <3>1, <1>1, <1>6
  <2>5. CASE j = Len(s) + 1 /\ i = Len(s) + 1 BY <2>5
  <2>. QED BY <2>2, <2>3, <2>4, <2>5, <1>1
<1>7. IsInjective(kept)
  <2>1. SUFFICES ASSUME NEW i \in 1..(Len(s) + 1 - d), NEW j \in 1..(Len(s) + 1 - d),
                        kept[i] = kept[j]
                 PROVE  i = j
    BY <1>5 DEF IsInjective
  <2>2. i + d \in 1..(Len(s) + 1) /\ j + d \in 1..(Len(s) + 1) BY <1>1, <1>3
  <2>3. o[i + d] = o[j + d] BY <2>1, <1>4
  <2>4. i + d = j + d BY <2>2, <2>3, <1>6
  <2>. QED BY <2>4, <1>1, <1>3
<1>8. Range(kept) \subseteq Range(s) \cup {id}
  <2>1. SUFFICES ASSUME NEW i \in 1..(Len(s) + 1 - d) PROVE kept[i] \in Range(s) \cup {id}
    BY <1>5 DEF Range
  <2>2. i + d \in 1..(Len(s) + 1) /\ kept[i] = o[i + d] BY <1>1, <1>3, <1>4
  <2>3. i + d \in 1..Len(s) \/ i + d = Len(s) + 1 BY <2>2, <1>1, <1>3
  <2>. QED BY <2>2, <2>3, <1>1 DEF Range
<1>9. id \in Range(kept)
  <2>1. Len(s) + 1 - d \in 1..(Len(s) + 1 - d) BY <1>1, <1>3
  <2>2. (Len(s) + 1 - d) + d = Len(s) + 1 BY <1>1, <1>3
  <2>3. kept[Len(s) + 1 - d] = id BY <2>1, <2>2, <1>1, <1>4
  <2>. QED BY <2>1, <2>3, <1>5 DEF Range
<1>. QED BY <1>3, <1>3a, <1>4, <1>7, <1>8, <1>9 DEF o

\* Saving a page's cursor keeps the cache in order, whichever page it was.
LEMMA SaveFacts ==
  ASSUME ServerInv, NEW offsets \in Offs, NEW chain \in Chains,
         NEW q \in Queries \cup {[mode |-> "aborted"]},
         Save(offsets, q, chain), UNCHANGED <<expired, kafka>>,
         \A p \in Partitions : offsets[p] <= logEnd[p] /\ chain.from[p] <= logEnd[p],
         q.mode \in Forward => ForwardEntry([offsets |-> offsets, chain |-> chain]),
         q.mode \in Backward => BackwardEntry([offsets |-> offsets, chain |-> chain])
  PROVE  ServerInv' /\ Ids \subseteq Ids' /\ Len(issued) + 1 \in Ids' /\ Ids' \subseteq Nat
<1>. DEFINE id == Len(issued) + 1
            o == Append(order, id)
            kept == SubSeq(o, IF Len(o) > Capacity THEN 2 ELSE 1, Len(o))
            new == [offsets |-> offsets, chain |-> chain]
<1>1. /\ entries' = [i \in Range(kept) |-> IF i = id THEN new ELSE entries[i]]
      /\ order' = kept /\ issued' = Append(issued, q)
  BY DEF Save
<1>2. LogShape /\ CacheShape /\ CacheConsistent /\ EntriesRead BY DEF ServerInv
<1>3. /\ issued \in Seq(Queries \cup {[mode |-> "aborted"]}) /\ Len(issued) \in Nat
      /\ DOMAIN issued = 1..Len(issued)
  BY <1>2 DEF CacheShape
<1>4. /\ issued' \in Seq(Queries \cup {[mode |-> "aborted"]})
      /\ Len(issued') = Len(issued) + 1 /\ issued'[id] = q
      /\ \A i \in DOMAIN issued : issued'[i] = issued[i]
      /\ DOMAIN issued' = 1..(Len(issued) + 1)
  BY <1>1, <1>3
<1>5. id \in Nat /\ id \notin DOMAIN issued /\ id \in DOMAIN issued'
      /\ DOMAIN issued \subseteq DOMAIN issued'
  BY <1>3, <1>4
<1>. HIDE DEF id
<1>6. /\ order \in Seq(Nat) /\ DOMAIN entries \subseteq DOMAIN issued
      /\ Len(order) <= Capacity /\ Range(order) = DOMAIN entries /\ IsInjective(order)
  BY <1>2 DEF CacheShape, CacheConsistent
<1>7. id \notin Range(order) BY <1>5, <1>6
<1>8. /\ kept \in Seq(Nat) /\ Len(kept) <= Capacity /\ IsInjective(kept)
      /\ Range(kept) \subseteq Range(order) \cup {id} /\ id \in Range(kept)
  BY <1>5, <1>6, <1>7, KeptFacts
<1>. HIDE DEF kept, o, new
<1>9. /\ DOMAIN entries' = Range(kept) /\ entries'[id] = new
      /\ \A i \in DOMAIN entries' : i = id \/ (i \in DOMAIN entries /\ entries'[i] = entries[i])
  BY <1>1, <1>6, <1>8
<1>10. CacheConsistent' BY <1>1, <1>8, <1>9 DEF CacheConsistent, Range, IsInjective
<1>11. LogShape' BY <1>2 DEF LogShape, kafka
<1>12. new = [offsets |-> new.offsets, chain |-> new.chain] /\ new.offsets = offsets
       /\ new.chain = chain
  BY DEF new
<1>13. CacheShape'
  <2>1. expired' \subseteq DOMAIN issued' BY <1>2, <1>5 DEF CacheShape
  <2>2. DOMAIN entries' \subseteq DOMAIN issued' BY <1>5, <1>6, <1>9
  <2>3. ASSUME NEW i \in DOMAIN entries'
        PROVE  /\ entries'[i] = [offsets |-> entries'[i].offsets, chain |-> entries'[i].chain]
               /\ entries'[i].offsets \in Offs /\ entries'[i].chain \in Chains
               /\ \A p \in Partitions : entries'[i].offsets[p] <= logEnd'[p]
                       /\ entries'[i].chain.from[p] <= logEnd'[p]
    <3>1. CASE i = id BY <3>1, <1>9, <1>12 DEF kafka
    <3>2. CASE i # id
      <4>1. i \in DOMAIN entries /\ entries'[i] = entries[i] BY <3>2, <1>9
      <4>. QED BY <4>1, <1>2 DEF CacheShape, kafka
    <3>. QED BY <3>1, <3>2
  <2>4. order' \in Seq(Nat) BY <1>1, <1>8
  <2>. QED BY <2>1, <2>2, <2>3, <2>4, <1>4 DEF CacheShape
<1>14. EntriesRead'
  <2>1. SUFFICES ASSUME NEW i \in DOMAIN entries'
                 PROVE  /\ issued'[i].mode \in Forward => ForwardEntry(entries[i])'
                        /\ issued'[i].mode \in Backward => BackwardEntry(entries[i])'
    BY DEF EntriesRead
  <2>. DEFINE e == entries[i]
              f == entries'[i]
  <2>2. ASSUME NEW g, ForwardEntry(g), f = g PROVE ForwardEntry(e)'
    BY <2>2 DEF ForwardEntry, RetainedRead, Retained, kafka
  <2>3. ASSUME NEW g, BackwardEntry(g), f = g PROVE BackwardEntry(e)'
    BY <2>3 DEF BackwardEntry, RetainedRead, Retained, kafka
  <2>4. CASE i = id
    <3>1. f = new /\ issued'[i] = q BY <2>4, <1>9, <1>4
    <3>2. q.mode \in Forward => ForwardEntry(new) BY DEF new
    <3>3. q.mode \in Backward => BackwardEntry(new) BY DEF new
    <3>. HIDE DEF e, f
    <3>4. /\ issued'[i].mode \in Forward => ForwardEntry(e)'
          /\ issued'[i].mode \in Backward => BackwardEntry(e)'
      BY <3>1, <3>2, <3>3, <2>2, <2>3
    <3>. QED BY <3>4 DEF e
  <2>5. CASE i # id
    <3>1. i \in DOMAIN entries /\ f = entries[i] BY <2>5, <1>9
    <3>2. issued'[i] = issued[i] BY <3>1, <1>4, <1>6
    <3>3. /\ issued[i].mode \in Forward => ForwardEntry(entries[i])
          /\ issued[i].mode \in Backward => BackwardEntry(entries[i])
      BY <3>1, <1>2 DEF EntriesRead
    <3>4. /\ issued'[i].mode \in Forward => ForwardEntry(e)'
          /\ issued'[i].mode \in Backward => BackwardEntry(e)'
      BY <3>1, <3>2, <3>3, <2>2, <2>3
    <3>. QED BY <3>4 DEF e
  <2>. QED BY <2>4, <2>5
<1>15. Ids \subseteq Ids' /\ Len(issued) + 1 \in Ids' /\ Ids' \subseteq Nat
  BY <1>3, <1>4 DEF Ids
<1>. QED BY <1>10, <1>11, <1>13, <1>14, <1>15 DEF ServerInv

\* The cursor of an aborted page is of no use to any query of the page.
LEMMA OrphanStep ==
  ASSUME BrowseInv, OrphanEnds
  PROVE  BrowseInv'
<1>1. UNCHANGED <<client, wire, job, kafka, faults>>
      /\ \/ UNCHANGED cursors
         \/ /\ Save([p \in Partitions |-> logStart[p]], [mode |-> "aborted"], NoChain)
            /\ UNCHANGED expired
  BY DEF OrphanEnds
<1>2. LogShape /\ ServerInv BY DEF BrowseInv, ServerInv
<1>3. ServerInv' /\ Ids \subseteq Ids' /\ Ids' \subseteq Nat
  <2>1. CASE UNCHANGED cursors
    <3>1. ServerInv' BY <1>1, <1>2, <2>1, SameServer
    <3>2. Ids' = Ids /\ Ids \subseteq Nat BY <2>1 DEF Ids, cursors
    <3>. QED BY <3>1, <3>2
  <2>2. CASE /\ Save([p \in Partitions |-> logStart[p]], [mode |-> "aborted"], NoChain)
             /\ UNCHANGED expired
    <3>. DEFINE offs == [p \in Partitions |-> logStart[p]]
                q == [mode |-> "aborted"]
    <3>1. offs \in Offs /\ \A p \in Partitions : offs[p] = logStart[p] /\ offs[p] <= logEnd[p]
      BY <1>2 DEF LogShape, Offs
    <3>2. NoChain \in Chains /\ \A p \in Partitions : NoChain.from[p] <= logEnd[p]
      BY <1>2 DEF LogShape, Chains, NoChain
    <3>3. q.mode \notin Forward /\ q.mode \notin Backward BY DEF Forward, Backward
    <3>4. Save(offs, q, NoChain) /\ q \in Queries \cup {[mode |-> "aborted"]} BY <2>2
    <3>. HIDE DEF offs, q
    <3>. QED BY <1>1, <1>2, <2>2, <3>1, <3>2, <3>3, <3>4, SaveFacts
  <2>. QED BY <1>1, <2>1, <2>2
<1>4. ClientShape'
  <2>1. ClientShape BY DEF BrowseInv
  <2>2. stream' \in [state : {"none", "sent", "open", "failed", "closed", "refused",
                              "retry"}, q : Queries, cursor : Ids']
    BY <1>1, <1>3, <2>1 DEF ClientShape, client
  <2>3. nextCursor' \in Ids' BY <1>1, <1>3, <2>1 DEF ClientShape, client
  <2>4. \A i \in DOMAIN wire' : wire'[i].cursor \in Ids'
                  /\ (wire'[i].type = "MESSAGE" => wire'[i].message \in Records)
    BY <1>1, <1>3, <2>1 DEF ClientShape
  <2>. QED BY <1>1, <2>1, <2>2, <2>3, <2>4 DEF ClientShape, client
<1>5. JobInv'
  <2>1. JobShape' BY <1>1, <1>3 DEF BrowseInv, JobInv, JobShape, kafka
  <2>2. JobRead' BY <1>1 DEF BrowseInv, JobInv, JobRead, Ran, ForwardJob, BackwardJob,
                            RetainedRead, Retained, kafka
  <2>. QED BY <2>1, <2>2 DEF JobInv
<1>6. LinkInv'
  <2>1. Protocol' BY <1>1 DEF BrowseInv, LinkInv, Protocol, Url, Ran, Body, client
  <2>2. Delivered'
    BY <1>1 DEF BrowseInv, LinkInv, Delivered, Ran, Answer, Arrived, Answered, Incoming,
                OnWire, InArrivalOrder, client
  <2>. QED BY <2>1, <2>2 DEF LinkInv
<1>. QED BY <1>3, <1>4, <1>5, <1>6 DEF BrowseInv

---------------------------------------------------------------------------
\* What the server emits.

\* What a running page emits reaches the end of the stream it belongs to.
Sent(es) == {es[i].message : i \in {j \in DOMAIN es : es[j].type = "MESSAGE"}}
Emitted(es) ==
    \A i \in DOMAIN es :
        /\ es[i].type \in {"MESSAGE", "DONE", "CLOSE"}
        /\ es[i].type = "MESSAGE" => es[i].message \in Records
        /\ \A j \in DOMAIN es :
              i < j /\ es[i].type = "MESSAGE" /\ es[j].type = "MESSAGE" =>
                  Follows(job.q, es[i].message, es[j].message)

LEMMA EmitStep ==
  ASSUME BrowseInv, job.state = "reading", NEW es \in Seq(Events), Emit(es),
         UNCHANGED client, faults' \in 0..MaxFaults,
         ServerInv', JobInv', Ids \subseteq Ids',
         job'.state \in {"reading", "done", "ended"}, job'.q = job.q,
         Emitted(es), \A i \in DOMAIN es : es[i].cursor \in Ids',
         \A i \in DOMAIN es : es[i].type = "CLOSE" => i = Len(es) /\ job'.state # "reading",
         Answer' = Answer \cup Sent(es),
         \A a \in Answer, h \in Sent(es) : Follows(job.q, a, h)
  PROVE  BrowseInv'
<1>1. ClientShape /\ Protocol /\ Delivered /\ Ran
  BY DEF BrowseInv, LinkInv, Ran
<1>2. wire \in Seq(Events) /\ wire' = wire \o es BY <1>1 DEF ClientShape, Emit
<1>. DEFINE n == Len(wire)
            k == Len(es)
<1>3. /\ n \in Nat /\ k \in Nat /\ wire' \in Seq(Events) /\ Len(wire') = n + k
      /\ \A i \in 1..(n + k) : wire'[i] = IF i <= n THEN wire[i] ELSE es[i - n]
      /\ DOMAIN wire = 1..n /\ DOMAIN es = 1..k /\ DOMAIN wire' = 1..(n + k)
  <2>1. n \in Nat /\ k \in Nat /\ DOMAIN wire = 1..n /\ DOMAIN es = 1..k
    BY <1>2, LenProperties
  <2>2. wire' \in Seq(Events) /\ Len(wire') = n + k
    BY <1>2, ConcatProperties, LenProperties
  <2>3. \A i \in 1..(n + k) : wire'[i] = IF i <= n THEN wire[i] ELSE es[i - n]
    BY <1>2, ConcatProperties, LenProperties
  <2>4. DOMAIN wire' = 1..(n + k) BY <2>2, LenProperties
  <2>. QED BY <2>1, <2>2, <2>3, <2>4
<1>. HIDE DEF n, k
\* The events of the longer stream, old and new.
<1>4. /\ \A i \in 1..n : i \in 1..(n + k) /\ wire'[i] = wire[i]
      /\ \A j \in 1..k : n + j \in 1..(n + k) /\ wire'[n + j] = es[j]
      /\ \A i \in 1..(n + k) : i \in 1..n \/ (i - n \in 1..k /\ i > n /\ wire'[i] = es[i - n])
  <2>1. \A i \in 1..n : i \in 1..(n + k) /\ i <= n BY <1>3
  <2>2. \A j \in 1..k : n + j \in 1..(n + k) /\ ~(n + j <= n) /\ (n + j) - n = j BY <1>3
  <2>3. \A i \in 1..(n + k) : i \in 1..n \/ (i - n \in 1..k /\ i > n /\ ~(i <= n)) BY <1>3
  <2>. QED BY <2>1, <2>2, <2>3, <1>3
<1>5. ClientShape'
  <2>1. \A i \in DOMAIN wire' : wire'[i].cursor \in Ids'
                  /\ (wire'[i].type = "MESSAGE" => wire'[i].message \in Records)
    <3>1. SUFFICES ASSUME NEW i \in 1..(n + k)
                   PROVE  wire'[i].cursor \in Ids'
                          /\ (wire'[i].type = "MESSAGE" => wire'[i].message \in Records)
      BY <1>3
    <3>2. CASE i \in 1..n
      <4>1. wire'[i] = wire[i] BY <3>2, <1>4
      <4>2. wire[i].cursor \in Ids
                  /\ (wire[i].type = "MESSAGE" => wire[i].message \in Records)
        BY <3>2, <1>1, <1>3 DEF ClientShape
      <4>. QED BY <4>1, <4>2
    <3>3. CASE i - n \in 1..k /\ wire'[i] = es[i - n] BY <3>3, <1>3 DEF Emitted
    <3>. QED BY <3>2, <3>3, <1>4
  <2>2. stream' \in [state : {"none", "sent", "open", "failed", "closed", "refused",
                              "retry"}, q : Queries, cursor : Ids']
    BY <1>1 DEF ClientShape, client
  <2>3. nextCursor' \in Ids' BY <1>1 DEF ClientShape, client
  <2>. QED BY <1>1, <1>3, <2>1, <2>2, <2>3 DEF ClientShape, client
<1>6. ASSUME NEW from \in Nat, from # 0, Body(from) PROVE Body(from)'
  <2>1. SUFFICES ASSUME NEW i \in from..Len(wire')
                 PROVE  /\ wire'[i].type \in {"MESSAGE", "DONE", "CLOSE"}
                        /\ wire'[i].type = "CLOSE" => i = Len(wire') /\ job'.state # "reading"
    BY DEF Body
  <2>2. i \in 1..(n + k) BY <1>3, <1>6, <2>1
  <2>3. CASE i \in 1..n
    <3>1. wire'[i] = wire[i] BY <2>3, <1>4
    <3>2. i \in from..n BY <2>1, <2>3, <1>3, <1>6
    <3>3. wire[i].type \in {"MESSAGE", "DONE", "CLOSE"} /\ wire[i].type # "CLOSE"
      BY <3>2, <1>6 DEF Body, n
    <3>. QED BY <3>1, <3>3
  <2>4. CASE i - n \in 1..k /\ wire'[i] = es[i - n]
    <3>1. es[i - n].type \in {"MESSAGE", "DONE", "CLOSE"} BY <2>4, <1>3 DEF Emitted
    <3>2. es[i - n].type = "CLOSE" => i - n = k /\ job'.state # "reading"
      BY <2>4, <1>3 DEF k
    <3>. QED BY <2>4, <3>1, <3>2, <1>3, <2>2
  <2>. QED BY <2>2, <2>3, <2>4, <1>4
<1>7. Protocol'
  <2>1. \/ stream.state = "sent" /\ wire # <<>> /\ wire[1].type = "PHASE" /\ Body(2)
        \/ stream.state = "open" /\ Body(1)
    <3>1. stream.state \in {"none", "sent", "open", "failed", "closed", "refused", "retry"}
      BY <1>1 DEF ClientShape
    <3>. QED BY <1>1, <3>1 DEF Protocol, NoJob
  <2>2. stream'.q = (Url.q)' /\ (job' # NoJob => job'.q = stream'.q)
    <3>1. job # NoJob BY DEF NoJob
    <3>. QED BY <1>1, <3>1 DEF Protocol, Url, client
  <2>3. Ran' BY DEF Ran
  <2>4. CASE stream.state = "sent" /\ wire # <<>> /\ wire[1].type = "PHASE" /\ Body(2)
    <3>1. 1 \in 1..n
      <4>1. n # 0 BY <2>4, <1>2 DEF n
      <4>. QED BY <4>1, <1>3
    <3>2. wire'[1].type = "PHASE" /\ wire' # <<>>
      <4>1. wire'[1] = wire[1] BY <3>1, <1>4
      <4>2. Len(wire') # 0 BY <3>1, <1>3
      <4>3. wire' # <<>> BY <4>2
      <4>. QED BY <4>1, <4>3, <2>4
    <3>3. Body(2)' BY <2>4, <1>6
    <3>4. stream'.state = "sent" BY <2>4 DEF client
    <3>. QED BY <2>2, <2>3, <3>2, <3>3, <3>4 DEF Protocol
  <2>5. CASE stream.state = "open" /\ Body(1)
    <3>1. Body(1)' BY <2>5, <1>6
    <3>2. stream'.state = "open" BY <2>5 DEF client
    <3>. QED BY <2>2, <2>3, <3>1, <3>2 DEF Protocol
  <2>. QED BY <2>1, <2>4, <2>5
<1>8. Incoming' = Incoming \cup Sent(es)
  <2>1. ASSUME NEW m \in Incoming' PROVE m \in Incoming \cup Sent(es)
    <3>1. PICK i \in 1..(n + k) : wire'[i].type = "MESSAGE" /\ m = wire'[i].message
      BY <1>3 DEF Incoming, OnWire
    <3>2. CASE i \in 1..n BY <3>1, <3>2, <1>3, <1>4 DEF Incoming, OnWire
    <3>3. CASE i - n \in 1..k /\ wire'[i] = es[i - n] BY <3>1, <3>3, <1>3 DEF Sent
    <3>. QED BY <3>2, <3>3, <1>4
  <2>2. ASSUME NEW m \in Incoming PROVE m \in Incoming'
    <3>1. PICK i \in 1..n : wire[i].type = "MESSAGE" /\ m = wire[i].message
      BY <1>3 DEF Incoming, OnWire
    <3>2. i \in 1..(n + k) /\ wire'[i] = wire[i] BY <1>4
    <3>3. i \in OnWire' BY <3>1, <3>2, <1>3 DEF OnWire
    <3>. QED BY <3>1, <3>2, <3>3 DEF Incoming
  <2>3. ASSUME NEW m \in Sent(es) PROVE m \in Incoming'
    <3>1. PICK j \in 1..k : es[j].type = "MESSAGE" /\ m = es[j].message
      BY <1>3 DEF Sent
    <3>2. n + j \in 1..(n + k) /\ wire'[n + j] = es[j] BY <1>4
    <3>3. n + j \in OnWire' BY <3>1, <3>2, <1>3 DEF OnWire
    <3>. QED BY <3>1, <3>2, <3>3 DEF Incoming
  <2>. QED BY <2>1, <2>2, <2>3
<1>9. /\ Answer = Arrived \cup Incoming
      /\ \A i, j \in OnWire : i < j => Follows(job.q, wire[i].message, wire[j].message)
      /\ \A r \in Arrived, s \in Incoming : Follows(job.q, r, s)
  BY <1>1 DEF Delivered
<1>10. Arrived' = Arrived BY DEF Arrived, Answered, client, Range
<1>11. ASSUME NEW i \in OnWire', NEW j \in OnWire', i < j
       PROVE  Follows(job.q, wire'[i].message, wire'[j].message)
  <2>1. /\ i \in 1..(n + k) /\ j \in 1..(n + k) /\ wire'[i].type = "MESSAGE"
        /\ wire'[j].type = "MESSAGE"
    BY <1>3 DEF OnWire
  <2>2. CASE j \in 1..n
    <3>1. i \in 1..n BY <2>1, <2>2, <1>11, <1>3
    <3>2. wire'[i] = wire[i] /\ wire'[j] = wire[j] BY <3>1, <2>2, <1>4
    <3>3. i \in OnWire /\ j \in OnWire BY <3>1, <3>2, <2>1, <2>2, <1>3 DEF OnWire
    <3>. QED BY <3>2, <3>3, <1>9, <1>11
  <2>3. CASE j - n \in 1..k /\ wire'[j] = es[j - n]
    <3>1. wire'[j].message \in Sent(es) BY <2>1, <2>3, <1>3 DEF Sent
    <3>2. CASE i \in 1..n
      <4>1. wire'[i] = wire[i] /\ i \in OnWire BY <3>2, <2>1, <1>3, <1>4 DEF OnWire
      <4>2. wire'[i].message \in Answer BY <4>1, <1>9 DEF Incoming
      <4>. QED BY <3>1, <4>2
    <3>3. CASE i - n \in 1..k /\ wire'[i] = es[i - n]
      <4>1. i - n < j - n BY <1>11, <2>1, <1>3
      <4>. QED BY <2>1, <2>3, <3>3, <4>1, <1>3 DEF Emitted
    <3>. QED BY <3>2, <3>3, <2>1, <1>4
  <2>. QED BY <2>1, <2>2, <2>3, <1>4
<1>12. \A r \in Arrived', s \in Incoming' : Follows(job.q, r, s) BY <1>8, <1>9, <1>10
<1>13. Delivered'
  <2>1. Answer' = Arrived' \cup Incoming' BY <1>8, <1>9, <1>10
  <2>2. \A i, j \in OnWire' : i < j => Follows(job'.q, wire'[i].message, wire'[j].message)
    BY <1>11
  <2>3. \A r \in Arrived', s \in Incoming' : Follows(job'.q, r, s) BY <1>12
  <2>4. (Answered =>
           /\ InArrivalOrder(IF job.q.mode = "TAILING" THEN Reverse(messages) ELSE messages)
           /\ InArrivalOrder(pending)
           /\ \A r \in Range(messages), s \in Range(pending) : Follows(job.q, r, s))'
    BY <1>1 DEF Delivered, Answered, InArrivalOrder, Range, client
  <2>. QED BY <2>1, <2>2, <2>3, <2>4 DEF Delivered
<1>. QED BY <1>5, <1>7, <1>13 DEF BrowseInv, LinkInv

---------------------------------------------------------------------------
\* Reading.

\* The records at some offsets of one partition.
LEMMA PairsFacts ==
  ASSUME NEW p \in Partitions, NEW D \in SUBSET Nat, IsFiniteSet(D)
  PROVE  /\ Pairs(p, D) \in SUBSET Records /\ IsFiniteSet(Pairs(p, D))
         /\ \A r \in Pairs(p, D) : r[1] = p /\ r[2] \in D
         /\ \A o \in D : <<p, o>> \in Pairs(p, D)
<1>. DEFINE f == [o \in D |-> <<p, o>>]
<1>1. f \in Surjection(D, Pairs(p, D)) BY DEF Surjection, Pairs
<1>2. IsFiniteSet(Pairs(p, D))
  <2>. HIDE DEF f
  <2>. QED BY <1>1, FS_Surjection
<1>. QED BY <1>2 DEF Pairs, Records

\* A poll brings the job past the batch T of partition p and adds the
\* records at the offsets D of it.
Advances(p, T, D) ==
    /\ job' \in RunJobs /\ job'.state = "reading"
    /\ job'.q = job.q /\ job'.starts = job.starts /\ job'.ends = job.ends
    /\ job'.pos = [job.pos EXCEPT ![p] = Max(T) + 1]
    /\ job'.merged = job.merged \cup Pairs(p, D)
    /\ job'.chain.covered = job.chain.covered \cup Pairs(p, D)
    /\ job'.chain.hole = job.chain.hole /\ job'.chain.from = job.chain.from
    /\ job'.old = job.old /\ job'.empty = job.empty

\* The batches a poll may bring: no offset between two of them is left out.
Gapless(p, T) ==
    /\ T \in SUBSET Nat /\ T # {} /\ IsFiniteSet(T)
    /\ \A o \in T : job.pos[p] <= o /\ o < logEnd[p]
    /\ \A o \in T, x \in Readable(p) : job.pos[p] <= x /\ x < o => x \in T

\* What is known of a page that is or was being read.
LEMMA RunFacts ==
  ASSUME JobInv, LogShape, Ran
  PROVE  /\ job \in RunJobs /\ IsFiniteSet(job.merged)
         /\ job.chain \in Chains /\ job.q \in Queries
         /\ job.merged \in SUBSET Records /\ job.old \in SUBSET Records
         /\ job.starts \in Offs /\ job.ends \in Offs /\ job.pos \in Offs
         /\ job.chain.from \in Offs
         /\ \A p \in Partitions :
              /\ job.starts[p] \in Nat /\ job.ends[p] \in Nat /\ job.pos[p] \in Nat
              /\ job.chain.from[p] \in Nat /\ logEnd[p] \in Nat
              /\ job.starts[p] <= job.pos[p] /\ job.pos[p] <= logEnd[p]
              /\ job.ends[p] <= logEnd[p] /\ job.chain.from[p] <= logEnd[p]
         /\ \A m \in job.merged :
              /\ m[1] \in Partitions /\ m[2] \in Nat
              /\ job.starts[m[1]] <= m[2] /\ m[2] < job.pos[m[1]]
              /\ job.q.mode \in Backward => m[2] < job.ends[m[1]]
<1>1. /\ job \in RunJobs /\ IsFiniteSet(job.merged)
      /\ \A p \in Partitions : /\ job.starts[p] <= job.pos[p] /\ job.pos[p] <= logEnd[p]
                               /\ job.ends[p] <= logEnd[p] /\ job.chain.from[p] <= logEnd[p]
      /\ \A m \in job.merged : job.starts[m[1]] <= m[2] /\ m[2] < job.pos[m[1]]
      /\ job.q.mode \in Backward => \A m \in job.merged : m[2] < job.ends[m[1]]
  BY DEF JobInv, JobShape, Ran, NoJob, SentJobs
<1>2. /\ job.chain \in Chains /\ job.q \in Queries
      /\ job.merged \in SUBSET Records /\ job.old \in SUBSET Records
      /\ job.starts \in Offs /\ job.ends \in Offs /\ job.pos \in Offs
  BY <1>1 DEF RunJobs
<1>3. job.chain.from \in Offs BY <1>2 DEF Chains
<1>4. \A p \in Partitions : /\ job.starts[p] \in Nat /\ job.ends[p] \in Nat
                            /\ job.pos[p] \in Nat /\ job.chain.from[p] \in Nat
                            /\ logEnd[p] \in Nat
  BY <1>2, <1>3 DEF Offs, LogShape
<1>5. \A m \in job.merged : m[1] \in Partitions /\ m[2] \in Nat BY <1>2 DEF Records
<1>. QED BY <1>1, <1>2, <1>3, <1>4, <1>5

\* What a poll reads leaves the page a page without repeats and gaps.
LEMMA AdvanceFacts ==
  ASSUME JobInv, LogShape, job.state = "reading", NEW p \in Partitions,
         NEW T, Gapless(p, T), NEW D \in SUBSET T, Advances(p, T, D),
         job.q.mode \in Backward => \A o \in D : o < job.ends[p],
         \A o \in T : IsData(p, o) /\ (job.q.mode \in Backward => o < job.ends[p])
                        => o \in D,
         UNCHANGED <<cursors, kafka>>
  PROVE  /\ JobInv' /\ Pairs(p, D) \in SUBSET Records /\ IsFiniteSet(Pairs(p, D))
         /\ \A r, s \in Pairs(p, D) : r[1] = s[1]
         /\ \A m \in job.merged, r \in Pairs(p, D) : m[1] = r[1] => m[2] < r[2]
<1>. DEFINE P == Pairs(p, D)
            top == Max(T)
<1>1. Ran BY DEF Ran
<1>2. /\ job \in RunJobs /\ IsFiniteSet(job.merged)
      /\ job.chain \in Chains
      /\ job.merged \in SUBSET Records
      /\ job.pos \in Offs
      /\ \A x \in Partitions :
              /\ job.starts[x] \in Nat /\ job.ends[x] \in Nat /\ job.pos[x] \in Nat
              /\ job.chain.from[x] \in Nat /\ logEnd[x] \in Nat
              /\ job.starts[x] <= job.pos[x] /\ job.pos[x] <= logEnd[x]
              /\ job.ends[x] <= logEnd[x] /\ job.chain.from[x] <= logEnd[x]
      /\ \A m \in job.merged :
              /\ m[1] \in Partitions /\ m[2] \in Nat
              /\ job.starts[m[1]] <= m[2] /\ m[2] < job.pos[m[1]]
              /\ job.q.mode \in Backward => m[2] < job.ends[m[1]]
  BY <1>1, RunFacts
<1>3. /\ T \in SUBSET Nat /\ T # {} /\ IsFiniteSet(T)
      /\ \A o \in T : job.pos[p] <= o /\ o < logEnd[p]
      /\ \A o \in T, x \in Readable(p) : job.pos[p] <= x /\ x < o => x \in T
  BY DEF Gapless
<1>4. /\ job' \in RunJobs /\ job'.state = "reading"
      /\ job'.q = job.q /\ job'.starts = job.starts /\ job'.ends = job.ends
      /\ job'.pos = [job.pos EXCEPT ![p] = Max(T) + 1]
      /\ job'.merged = job.merged \cup P
      /\ job'.chain.covered = job.chain.covered \cup P
      /\ job'.chain.hole = job.chain.hole /\ job'.chain.from = job.chain.from
      /\ job'.old = job.old /\ job'.empty = job.empty
  BY DEF Advances
<1>5. D \in SUBSET Nat /\ IsFiniteSet(D) BY <1>3, FS_Subset
<1>6. /\ P \in SUBSET Records /\ IsFiniteSet(P)
      /\ \A r \in P : r[1] = p /\ r[2] \in D
      /\ \A o \in D : <<p, o>> \in P
  BY <1>5, PairsFacts
<1>7. top \in T /\ top \in Nat /\ \A o \in T : o <= top
  <2>1. \A o \in T : o <= logEnd[p] BY <1>2, <1>3
  <2>. QED BY <1>2, <1>3, <2>1, MaxFacts
<1>. HIDE DEF P, top
<1>8. \A x \in Partitions : job'.pos[x] = IF x = p THEN top + 1 ELSE job.pos[x]
  BY <1>2, <1>4 DEF top, Offs
<1>9. /\ \A x \in Partitions : job.pos[x] <= job'.pos[x] /\ job'.pos[x] <= logEnd[x]
                               /\ job'.pos[x] \in Nat
      /\ job.pos[p] <= top /\ top < logEnd[p]
  <2>1. job.pos[p] <= top /\ top < logEnd[p] BY <1>3, <1>7
  <2>. QED BY <2>1, <1>2, <1>7, <1>8
<1>10. \A r \in P : /\ r[1] = p /\ r[2] \in Nat /\ job.pos[p] <= r[2] /\ r[2] <= top
                    /\ job.q.mode \in Backward => r[2] < job.ends[p]
  BY <1>3, <1>5, <1>6, <1>7
<1>11. \A m \in job.merged, r \in P : m[1] = r[1] => m[2] < r[2]
  <2>1. SUFFICES ASSUME NEW m \in job.merged, NEW r \in P, m[1] = r[1] PROVE m[2] < r[2]
    OBVIOUS
  <2>2. m[2] \in Nat /\ m[2] < job.pos[p] BY <1>2, <1>10, <2>1
  <2>. QED BY <2>2, <1>2, <1>10
<1>12. JobShape'
  <2>1. IsFiniteSet(job'.merged)
    <3>1. IsFiniteSet(job.merged) /\ IsFiniteSet(P) BY <1>2, <1>6
    <3>2. IsFiniteSet(job.merged \cup P) BY <3>1, FS_Union
    <3>. QED BY <3>2, <1>4
  <2>2. \A x \in Partitions : /\ job'.starts[x] <= job'.pos[x] /\ job'.pos[x] <= logEnd'[x]
                /\ job'.ends[x] <= logEnd'[x] /\ job'.chain.from[x] <= logEnd'[x]
    <3>1. SUFFICES ASSUME NEW x \in Partitions
                   PROVE  job.starts[x] <= job'.pos[x] /\ job'.pos[x] <= logEnd[x]
      BY <1>2, <1>4 DEF kafka
    <3>. QED BY <1>2, <1>9
  <2>3. \A m \in job'.merged : job'.starts[m[1]] <= m[2] /\ m[2] < job'.pos[m[1]]
    <3>1. SUFFICES ASSUME NEW m \in job'.merged
                   PROVE  job.starts[m[1]] <= m[2] /\ m[2] < job'.pos[m[1]]
      BY <1>4
    <3>2. CASE m \in job.merged
      <4>1. /\ m[1] \in Partitions /\ m[2] \in Nat
            /\ job.starts[m[1]] <= m[2] /\ m[2] < job.pos[m[1]]
        BY <3>2, <1>2
      <4>2. job.pos[m[1]] <= job'.pos[m[1]] /\ job'.pos[m[1]] \in Nat /\ job.pos[m[1]] \in Nat
        BY <4>1, <1>9, <1>2
      <4>. QED BY <4>1, <4>2
    <3>3. CASE m \in P
      <4>1. m[1] = p /\ m[2] \in Nat /\ job.pos[p] <= m[2] /\ m[2] <= top BY <3>3, <1>10
      <4>2. job'.pos[p] = top + 1 BY <1>8
      <4>. QED BY <4>1, <4>2, <1>2, <1>7
    <3>. QED BY <3>2, <3>3, <1>4
  <2>4. job'.q.mode \in Backward => \A m \in job'.merged : m[2] < job'.ends[m[1]]
    BY <1>2, <1>4, <1>10
  <2>. QED BY <1>4, <2>1, <2>2, <2>3, <2>4 DEF JobShape
\* What the poll passed and is still retained, it read.
<1>13. \A o \in Nat : /\ o \in logStart[p]..(logEnd[p] - 1) /\ IsData(p, o)
                      /\ job.pos[p] <= o /\ o <= top
                      /\ (job.q.mode \in Backward => o < job.ends[p])
                      => <<p, o>> \in P
  <2>1. SUFFICES ASSUME NEW o \in Nat, o \in logStart[p]..(logEnd[p] - 1), IsData(p, o),
                        job.pos[p] <= o, o <= top,
                        job.q.mode \in Backward => o < job.ends[p]
                 PROVE  <<p, o>> \in P
    OBVIOUS
  <2>2. o \in Readable(p) BY <2>1 DEF Readable, IsData
  <2>3. o \in T
    <3>1. CASE o = top BY <3>1, <1>7
    <3>2. CASE o < top BY <3>2, <2>1, <2>2, <1>3, <1>7
    <3>. QED BY <3>1, <3>2, <2>1, <1>7
  <2>4. o \in D BY <2>1, <2>3
  <2>. QED BY <2>4, <1>6
<1>14. ASSUME NEW x \in Partitions, NEW lo \in Nat, NEW hi \in Nat,
              RetainedRead(job.chain.covered, x, lo, hi)
       PROVE  RetainedRead(job'.chain.covered, x, lo, hi)
  BY <1>4, <1>14 DEF RetainedRead
<1>15. ASSUME NEW lo \in Nat, NEW hi \in Nat, NEW up \in Nat,
              RetainedRead(job.chain.covered, p, lo, hi),
              up <= top + 1,
              (up <= hi) \/ job.pos[p] <= hi,
              job.q.mode \in Backward => up <= job.ends[p]
       PROVE  RetainedRead(job'.chain.covered, p, lo, up)
  <2>1. SUFFICES ASSUME NEW o \in Retained(p, lo, up) PROVE <<p, o>> \in job'.chain.covered
    BY DEF RetainedRead
  <2>2. /\ o \in logStart[p]..(logEnd[p] - 1) /\ lo <= o /\ o < up /\ IsData(p, o)
        /\ logStart[p] \in Nat
    BY <2>1, LogFacts DEF Retained
  <2>3. o \in Nat BY <2>2, <1>2
  <2>4. CASE o < hi
    <3>1. o \in Retained(p, lo, hi) BY <2>2, <2>4 DEF Retained
    <3>. QED BY <3>1, <1>15, <1>4 DEF RetainedRead
  <2>5. CASE ~(o < hi)
    <3>1. job.pos[p] <= o BY <2>2, <2>3, <2>5, <1>15, <1>2
    <3>2. o <= top BY <2>2, <2>3, <1>15, <1>7
    <3>3. job.q.mode \in Backward => o < job.ends[p] BY <2>2, <2>3, <1>15, <1>2
    <3>4. <<p, o>> \in P BY <2>2, <2>3, <3>1, <3>2, <3>3, <1>13
    <3>. QED BY <3>4, <1>4
  <2>. QED BY <2>4, <2>5
<1>16. JobRead BY DEF JobInv
<1>17. job'.q.mode \in Forward => ForwardJob'
  <2>1. SUFFICES ASSUME job.q.mode \in Forward PROVE ForwardJob' BY <1>4
  <2>2. ForwardJob /\ job.q.mode \notin Backward
    BY <1>1, <1>16, <2>1 DEF JobRead, Forward, Backward
  <2>3. \A x \in Partitions :
           RetainedRead(job'.chain.covered, x, job.chain.from[x], job'.pos[x])
    <3>1. SUFFICES ASSUME NEW x \in Partitions
                   PROVE RetainedRead(job'.chain.covered, x, job.chain.from[x], job'.pos[x])
      OBVIOUS
    <3>2. RetainedRead(job.chain.covered, x, job.chain.from[x], job.pos[x])
      BY <2>2 DEF ForwardJob
    <3>3. CASE x # p
      <4>1. job'.pos[x] = job.pos[x] BY <3>3, <1>8
      <4>. QED BY <3>2, <4>1, <1>2, <1>14
    <3>4. CASE x = p
      <4>. DEFINE lo == job.chain.from[p]
                  hi == job.pos[p]
                  up == job'.pos[p]
      <4>1. lo \in Nat /\ hi \in Nat /\ up \in Nat /\ up <= top + 1 /\ hi <= hi
        BY <1>2, <1>7, <1>8, <1>9
      <4>2. RetainedRead(job.chain.covered, p, lo, hi) BY <3>2, <3>4
      <4>3. job.pos[p] <= hi BY <4>1
      <4>. HIDE DEF lo, hi, up
      <4>4. RetainedRead(job'.chain.covered, p, lo, up) BY <4>1, <4>2, <4>3, <2>2, <1>15
      <4>. QED BY <4>4, <3>4 DEF lo, up
    <3>. QED BY <3>3, <3>4
  <2>4. \A c \in job'.old : c[2] < job'.starts[c[1]] BY <2>2, <1>4 DEF ForwardJob
  <2>. QED BY <2>3, <2>4, <1>4 DEF ForwardJob, RetainedRead, Retained, kafka
<1>18. job'.q.mode \in Backward => BackwardJob'
  <2>1. SUFFICES ASSUME job.q.mode \in Backward PROVE BackwardJob' BY <1>4
  <2>2. BackwardJob BY <1>1, <1>16, <2>1 DEF JobRead
  <2>3. \A x \in Partitions :
         \/ job'.starts[x] = job'.ends[x] /\ job'.ends[x] <= logStart'[x]
         \/ \A c \in job'.old : c[1] = x => job'.ends[x] <= c[2]
    BY <2>2, <1>4 DEF BackwardJob, kafka
  <2>4. /\ \A x \in Partitions : job'.starts[x] <= job'.ends[x]
        /\ job'.empty => job'.chain.hole
        /\ job'.state # "done"
    BY <2>2, <1>4 DEF BackwardJob
  <2>5. ASSUME ~job'.chain.hole, NEW x \in Partitions
        PROVE  /\ RetainedRead(job'.chain.covered, x, job.ends[x], job.chain.from[x])
               /\ RetainedRead(job'.chain.covered, x, job.starts[x],
                      IF job'.pos[x] <= job.ends[x] THEN job'.pos[x] ELSE job.ends[x])
    <3>1. /\ RetainedRead(job.chain.covered, x, job.ends[x], job.chain.from[x])
          /\ RetainedRead(job.chain.covered, x, job.starts[x],
                      IF job.pos[x] <= job.ends[x] THEN job.pos[x] ELSE job.ends[x])
      BY <2>2, <2>5, <1>4 DEF BackwardJob
    <3>2. RetainedRead(job'.chain.covered, x, job.ends[x], job.chain.from[x])
      BY <3>1, <1>2, <1>14
    <3>. DEFINE lo == job.starts[x]
                hi == IF job.pos[x] <= job.ends[x] THEN job.pos[x] ELSE job.ends[x]
                up == IF job'.pos[x] <= job.ends[x] THEN job'.pos[x] ELSE job.ends[x]
    <3>3. lo \in Nat /\ hi \in Nat /\ up \in Nat /\ up <= job.ends[x] /\ up <= job'.pos[x]
      BY <1>2, <1>9
    <3>4. up <= hi \/ job.pos[x] <= hi BY <1>2, <1>9
    <3>5. RetainedRead(job.chain.covered, x, lo, hi) BY <3>1
    <3>6. x # p => up = hi
      <4>1. x # p => job'.pos[x] = job.pos[x] BY <1>8
      <4>. QED BY <4>1
    <3>7. x = p => job'.pos[x] = top + 1 BY <1>8
    <3>8. RetainedRead(job'.chain.covered, x, lo, up)
      <4>. HIDE DEF lo, hi, up
      <4>1. CASE x # p BY <4>1, <3>3, <3>5, <3>6, <1>14
      <4>2. CASE x = p
        <5>1. up <= top + 1 BY <4>2, <3>3, <3>7
        <5>. QED BY <4>2, <5>1, <3>3, <3>4, <3>5, <1>15
      <4>. QED BY <4>1, <4>2
    <3>. QED BY <3>2, <3>8
  <2>. QED BY <2>3, <2>4, <2>5, <1>4 DEF BackwardJob, RetainedRead, Retained, kafka
<1>19. JobRead'
  <2>1. job'.chain.covered = job'.old \cup job'.merged
    BY <1>1, <1>4, <1>16 DEF JobRead
  <2>. QED BY <2>1, <1>17, <1>18 DEF JobRead
<1>20. \A r, s \in P : r[1] = s[1] BY <1>6
<1>. QED BY <1>6, <1>11, <1>12, <1>19, <1>20 DEF JobInv, P

\* Reading fills the job's record field by field.
LEMMA AdvanceTypes ==
  ASSUME JobInv, LogShape, job.state = "reading", NEW p \in Partitions,
         NEW T, Gapless(p, T), NEW D \in SUBSET T, NEW n \in Nat,
         job' = [job EXCEPT !.pos[p] = Max(T) + 1, !.count = n,
                            !.merged = @ \cup Pairs(p, D),
                            !.chain.covered = @ \cup Pairs(p, D)]
  PROVE  Advances(p, T, D)
<1>. DEFINE P == Pairs(p, D)
            pos == [job.pos EXCEPT ![p] = Max(T) + 1]
            chain == [job.chain EXCEPT !.covered = @ \cup P]
<1>1. Ran BY DEF Ran
<1>2. /\ job \in RunJobs /\ job.chain \in Chains /\ job.pos \in Offs
      /\ job.merged \in SUBSET Records
      /\ logEnd[p] \in Nat
  BY <1>1, RunFacts
<1>3. /\ T \in SUBSET Nat /\ T # {} /\ IsFiniteSet(T)
      /\ \A o \in T : o < logEnd[p]
  BY DEF Gapless
<1>4. Max(T) \in Nat
  <2>1. \A o \in T : o <= logEnd[p] BY <1>2, <1>3
  <2>. QED BY <1>2, <1>3, <2>1, MaxFacts
<1>5. P \in SUBSET Records
  <2>1. D \in SUBSET Nat /\ IsFiniteSet(D) BY <1>3, FS_Subset
  <2>. QED BY <2>1, PairsFacts
<1>6. pos \in Offs BY <1>2, <1>4 DEF Offs
<1>7. /\ chain \in Chains /\ chain.covered = job.chain.covered \cup P
      /\ chain.hole = job.chain.hole /\ chain.from = job.chain.from
  <2>. HIDE DEF P
  <2>. QED BY <1>2, <1>5 DEF Chains
<1>8. job.merged \cup P \in SUBSET Records BY <1>2, <1>5
<1>9. job' = [job EXCEPT !.pos = pos, !.count = n, !.merged = job.merged \cup P,
                         !.chain = chain]
  BY <1>2 DEF RunJobs
<1>. HIDE DEF P, pos, chain
<1>10. /\ job'.state = job.state /\ job'.q = job.q /\ job'.starts = job.starts
       /\ job'.ends = job.ends /\ job'.pos = pos /\ job'.merged = job.merged \cup P
       /\ job'.chain = chain /\ job'.old = job.old /\ job'.empty = job.empty
  BY <1>2, <1>9 DEF RunJobs
<1>11. job' \in RunJobs BY <1>2, <1>6, <1>7, <1>8, <1>9 DEF RunJobs
<1>. QED BY <1>7, <1>10, <1>11 DEF Advances, P, pos

\* Messages that are sent as they are read follow all the earlier ones.
LEMMA SentFacts ==
  ASSUME NEW R \in SUBSET Records, IsFiniteSet(R),
         job.q.mode \notin Backward => \A r, s \in R : r[1] = s[1]
  PROVE  /\ Send(job.q, R) \in Seq(Events) /\ Emitted(Send(job.q, R))
         /\ Sent(Send(job.q, R)) = {r \in R : Matches(job.q, r[1], r[2])}
         /\ \A i \in DOMAIN Send(job.q, R) :
               Send(job.q, R)[i].type = "MESSAGE" /\ Send(job.q, R)[i].cursor = 0
<1>. DEFINE s == Send(job.q, R)
            hits == {r \in R : Matches(job.q, r[1], r[2])}
<1>1. /\ s \in Seq(Events)
      /\ \A i \in DOMAIN s : /\ s[i].type = "MESSAGE" /\ s[i].cursor = 0
                             /\ s[i].message \in hits
      /\ \A r \in hits : \E i \in DOMAIN s : s[i].message = r
      /\ \A i, j \in DOMAIN s : i < j => Follows(job.q, s[i].message, s[j].message)
  BY SendFacts
<1>2. hits \subseteq Records OBVIOUS
<1>. HIDE DEF s, hits
<1>3. Emitted(s) BY <1>1, <1>2 DEF Emitted
<1>4. Sent(s) = hits BY <1>1 DEF Sent
<1>. QED BY <1>1, <1>3, <1>4 DEF s, hits

\* A poll keeps the invariant, whatever it read and sends at once.
LEMMA PollStep ==
  ASSUME BrowseInv, job.state = "reading", NEW p \in Partitions,
         NEW T, Gapless(p, T), NEW D \in SUBSET T, Advances(p, T, D),
         job.q.mode \in Backward => \A o \in D : o < job.ends[p],
         \A o \in T : IsData(p, o) /\ (job.q.mode \in Backward => o < job.ends[p])
                        => o \in D,
         Emit(IF job.q.mode \in Backward THEN <<>> ELSE Send(job.q, Pairs(p, D))),
         UNCHANGED <<client, orphans, cursors, kafka, faults>>
  PROVE  BrowseInv'
<1>. DEFINE P == Pairs(p, D)
            es == IF job.q.mode \in Backward THEN <<>> ELSE Send(job.q, P)
<1>1. JobInv /\ LogShape /\ ServerInv BY DEF BrowseInv, ServerInv
<1>2. /\ JobInv' /\ P \in SUBSET Records /\ IsFiniteSet(P)
      /\ \A r, s \in P : r[1] = s[1]
      /\ \A m \in job.merged, r \in P : m[1] = r[1] => m[2] < r[2]
  BY <1>1, AdvanceFacts
<1>3. /\ job'.state = "reading" /\ job'.q = job.q /\ job'.merged = job.merged \cup P
  BY DEF Advances
<1>. HIDE DEF P
<1>4. /\ es \in Seq(Events) /\ Emitted(es)
      /\ \A i \in DOMAIN es : es[i].type = "MESSAGE" /\ es[i].cursor = 0
      /\ Sent(es) = IF job.q.mode \in Backward THEN {}
                    ELSE {r \in P : Matches(job.q, r[1], r[2])}
  <2>1. CASE job.q.mode \in Backward
    <3>1. es = <<>> /\ <<>> \in Seq(Events) /\ DOMAIN <<>> = {} BY <2>1
    <3>. QED BY <2>1, <3>1 DEF Emitted, Sent
  <2>2. CASE job.q.mode \notin Backward
    <3>1. es = Send(job.q, P) BY <2>2
    <3>. HIDE DEF es
    <3>. QED BY <1>2, <2>2, <3>1, SentFacts
  <2>. QED BY <2>1, <2>2
<1>5. Answer' = Answer \cup Sent(es) BY <1>3, <1>4 DEF Answer
<1>6. \A a \in Answer, h \in Sent(es) : Follows(job.q, a, h)
  BY <1>2, <1>4 DEF Answer, Follows
<1>7. Emit(es) BY DEF P
<1>8. ServerInv' BY <1>1, SameServer
<1>9. Ids' = Ids /\ 0 \in Ids BY <1>1 DEF Ids, cursors, ServerInv, CacheShape
<1>10. faults' \in 0..MaxFaults BY DEF BrowseInv, ClientShape
<1>. HIDE DEF es
<1>11. \A i \in DOMAIN es : es[i].cursor \in Ids' BY <1>4, <1>9
<1>12. \A i \in DOMAIN es : es[i].type = "CLOSE" => i = Len(es) /\ job'.state # "reading"
  BY <1>4
<1>. QED BY <1>2, <1>3, <1>4, <1>5, <1>6, <1>7, <1>8, <1>9, <1>10, <1>11, <1>12, EmitStep

\* A poll begins at the position of the page and leaves nothing out.
LEMMA BatchGapless ==
  ASSUME JobInv, LogShape, Ran, NEW p \in Partitions, NEW k \in 1..BatchMax
  PROVE  /\ Batch(p, job.pos[p], k) \in SUBSET Nat
         /\ IsFiniteSet(Batch(p, job.pos[p], k))
         /\ \A o \in Batch(p, job.pos[p], k) : job.pos[p] <= o /\ o < logEnd[p]
         /\ \A o \in Batch(p, job.pos[p], k), x \in Readable(p) :
                job.pos[p] <= x /\ x < o => x \in Batch(p, job.pos[p], k)
<1>1. job.pos[p] \in Nat BY RunFacts
<1>2. k \in Nat BY BrowseBounds
<1>. QED BY <1>1, <1>2, BatchFacts

\* A poll of a forward page keeps the invariant.
LEMMA EmitForwardStep ==
  ASSUME BrowseInv, job.state = "reading", NEW p \in Partitions, NEW k \in 1..BatchMax,
         emitForward(p, k), UNCHANGED <<client, orphans, cursors, kafka, faults>>
  PROVE  BrowseInv'
<1>. DEFINE B == Batch(p, job.pos[p], k)
            T == Taken(p, B)
            D == Data(p, T)
            n == job.count + Cardinality(D)
<1>1. /\ job.q.mode \in Forward /\ T # {}
      /\ job' = [job EXCEPT !.pos[p] = Max(T) + 1,
                                !.count = @ + Cardinality(D),
                                !.merged = @ \cup Pairs(p, D),
                                !.chain.covered = @ \cup Pairs(p, D)]
      /\ Emit(Send(job.q, Pairs(p, D)))
  BY DEF emitForward
<1>2. JobInv /\ LogShape /\ Ran BY DEF BrowseInv, ServerInv, Ran
<1>3. /\ B \in SUBSET Nat /\ IsFiniteSet(B)
      /\ \A o \in B : job.pos[p] <= o /\ o < logEnd[p]
      /\ \A o \in B, x \in Readable(p) : job.pos[p] <= x /\ x < o => x \in B
  BY <1>2, BatchGapless
<1>4. job \in RunJobs /\ job.count \in Nat BY <1>2, RunFacts DEF RunJobs
<1>. HIDE DEF B
<1>5. T \in SUBSET B /\ \A o \in T, x \in B : x < o => x \in T
  BY <1>3, <1>4, TakenFacts
<1>6. Gapless(p, T)
  <2>. HIDE DEF T
  <2>1. IsFiniteSet(T) BY <1>3, <1>5, FS_Subset
  <2>. QED BY <1>1, <1>3, <1>5, <2>1 DEF Gapless
<1>7. D \in SUBSET T /\ \A o \in T : IsData(p, o) => o \in D BY DEF Data
<1>8. job.q.mode \notin Backward BY <1>1 DEF Forward, Backward
<1>9. n \in Nat
  <2>. HIDE DEF T, D
  <2>1. IsFiniteSet(D) BY <1>6, <1>7, FS_Subset DEF Gapless
  <2>2. Cardinality(D) \in Nat BY <2>1, FS_CardinalityType
  <2>. QED BY <2>2, <1>4
<1>10. job' = [job EXCEPT !.pos[p] = Max(T) + 1, !.count = n,
                                !.merged = @ \cup Pairs(p, D),
                                !.chain.covered = @ \cup Pairs(p, D)]
  BY <1>1
<1>. HIDE DEF T, D, n
<1>11. Advances(p, T, D) BY <1>2, <1>6, <1>7, <1>9, <1>10, AdvanceTypes
<1>. QED BY <1>1, <1>6, <1>7, <1>8, <1>11, PollStep

\* A poll of a backward page keeps the invariant.
LEMMA EmitBackwardStep ==
  ASSUME BrowseInv, job.state = "reading", NEW p \in Partitions, NEW k \in 1..BatchMax,
         emitBackward(p, k), UNCHANGED <<client, orphans, cursors, kafka, faults>>
  PROVE  BrowseInv'
<1>. DEFINE T == Batch(p, job.pos[p], k)
            D == {o \in Data(p, T) : o < job.ends[p]}
<1>1. /\ job.q.mode \in Backward /\ T # {}
      /\ job' = [job EXCEPT !.pos[p] = Max(T) + 1,
                                !.merged = @ \cup Pairs(p, D),
                                !.chain.covered = @ \cup Pairs(p, D)]
      /\ Emit(<<>>)
  BY DEF emitBackward
<1>2. JobInv /\ LogShape /\ Ran BY DEF BrowseInv, ServerInv, Ran
<1>3. /\ T \in SUBSET Nat /\ IsFiniteSet(T)
      /\ \A o \in T : job.pos[p] <= o /\ o < logEnd[p]
      /\ \A o \in T, x \in Readable(p) : job.pos[p] <= x /\ x < o => x \in T
  BY <1>2, BatchGapless
<1>4. job \in RunJobs /\ job.count \in Nat BY <1>2, RunFacts DEF RunJobs
<1>. HIDE DEF T
<1>5. Gapless(p, T) BY <1>1, <1>3 DEF Gapless
<1>6. D \in SUBSET T /\ (\A o \in D : o < job.ends[p])
      /\ \A o \in T : IsData(p, o) /\ o < job.ends[p] => o \in D
  BY DEF Data
<1>. HIDE DEF D
<1>7. job' = [job EXCEPT !.pos[p] = Max(T) + 1, !.count = job.count,
                                !.merged = @ \cup Pairs(p, D),
                                !.chain.covered = @ \cup Pairs(p, D)]
  BY <1>1, <1>4 DEF RunJobs
<1>8. Advances(p, T, D) BY <1>2, <1>4, <1>5, <1>6, <1>7, AdvanceTypes
<1>. QED BY <1>1, <1>5, <1>6, <1>8, PollStep

\* A poll of a live stream keeps the invariant.
LEMMA EmitTailingStep ==
  ASSUME BrowseInv, job.state = "reading", NEW p \in Partitions, NEW k \in 1..BatchMax,
         emitTailing(p, k), UNCHANGED <<client, orphans, cursors, kafka, faults>>
  PROVE  BrowseInv'
<1>. DEFINE T == Batch(p, job.pos[p], k)
            D == Data(p, T)
<1>1. /\ job.q.mode = "TAILING" /\ T # {}
      /\ job' = [job EXCEPT !.pos[p] = Max(T) + 1,
                                !.chain.covered = @ \cup Pairs(p, D),
                                !.merged = @ \cup Pairs(p, D)]
      /\ Emit(Send(job.q, Pairs(p, D)))
  BY DEF emitTailing
<1>2. JobInv /\ LogShape /\ Ran BY DEF BrowseInv, ServerInv, Ran
<1>3. /\ T \in SUBSET Nat /\ IsFiniteSet(T)
      /\ \A o \in T : job.pos[p] <= o /\ o < logEnd[p]
      /\ \A o \in T, x \in Readable(p) : job.pos[p] <= x /\ x < o => x \in T
  BY <1>2, BatchGapless
<1>4. job \in RunJobs /\ job.count \in Nat BY <1>2, RunFacts DEF RunJobs
<1>. HIDE DEF T
<1>5. Gapless(p, T) BY <1>1, <1>3 DEF Gapless
<1>6. D \in SUBSET T /\ \A o \in T : IsData(p, o) => o \in D BY DEF Data
<1>. HIDE DEF D
<1>7. job' = [job EXCEPT !.pos[p] = Max(T) + 1, !.count = job.count,
                                !.merged = @ \cup Pairs(p, D),
                                !.chain.covered = @ \cup Pairs(p, D)]
  BY <1>1, <1>4 DEF RunJobs
<1>8. Advances(p, T, D) BY <1>2, <1>4, <1>5, <1>6, <1>7, AdvanceTypes
<1>9. job.q.mode \notin Backward BY <1>1 DEF Backward
<1>. QED BY <1>1, <1>5, <1>6, <1>8, <1>9, PollStep

---------------------------------------------------------------------------
\* The end of a page.

\* A job that only changes its state, or only sees an empty poll, keeps what
\* it read.
LEMMA EndedJob ==
  ASSUME JobInv, LogShape, job.state = "reading",
         NEW s \in {"done", "ended"}, job' = [job EXCEPT !.state = s],
         s = "done" /\ job.q.mode \in Backward => BackwardDone,
         UNCHANGED kafka
  PROVE  JobInv' /\ job'.state = s /\ job'.q = job.q /\ job'.merged = job.merged
<1>1. job \in RunJobs /\ Ran BY RunFacts DEF Ran
<1>2. /\ job'.state = s /\ job'.q = job.q /\ job'.starts = job.starts
      /\ job'.ends = job.ends /\ job'.pos = job.pos /\ job'.merged = job.merged
      /\ job'.chain = job.chain /\ job'.old = job.old /\ job'.empty = job.empty
      /\ job' \in RunJobs
  BY <1>1 DEF RunJobs
<1>3. JobShape'
  BY <1>1, <1>2 DEF JobInv, JobShape, Ran, NoJob, SentJobs, kafka
<1>4. JobRead BY DEF JobInv
<1>5. job'.q.mode \in Forward => ForwardJob'
  BY <1>1, <1>2, <1>4 DEF JobRead, ForwardJob, RetainedRead, Retained, kafka
<1>6. job'.q.mode \in Backward => BackwardJob'
  BY <1>1, <1>2, <1>4 DEF JobRead, BackwardJob, BackwardDone, RetainedRead, Retained, kafka
<1>7. JobRead' BY <1>1, <1>2, <1>4, <1>5, <1>6 DEF JobRead
<1>. QED BY <1>2, <1>3, <1>7 DEF JobInv

\* A poll without records keeps the invariant.
LEMMA EmptyPollStep ==
  ASSUME BrowseInv, EmptyPoll
  PROVE  BrowseInv'
<1>1. /\ job.state = "reading" /\ job.q.mode \in Backward /\ Fault
      /\ job' = [job EXCEPT !.empty = TRUE, !.chain.hole = TRUE]
      /\ UNCHANGED <<client, wire, orphans, cursors, kafka>>
  BY DEF EmptyPoll
<1>2. JobInv /\ LogShape /\ ServerInv /\ Ran BY <1>1 DEF BrowseInv, ServerInv, Ran
<1>3. job \in RunJobs /\ job.chain \in Chains BY <1>2, RunFacts
<1>4. /\ [job.chain EXCEPT !.hole = TRUE] \in Chains
      /\ [job.chain EXCEPT !.hole = TRUE].covered = job.chain.covered
      /\ [job.chain EXCEPT !.hole = TRUE].from = job.chain.from
      /\ [job.chain EXCEPT !.hole = TRUE].hole = TRUE
  BY <1>3 DEF Chains
<1>5. job' = [job EXCEPT !.empty = TRUE, !.chain = [job.chain EXCEPT !.hole = TRUE]]
  BY <1>1, <1>3 DEF RunJobs
<1>6. /\ job'.state = "reading" /\ job'.q = job.q /\ job'.starts = job.starts
      /\ job'.ends = job.ends /\ job'.pos = job.pos /\ job'.merged = job.merged
      /\ job'.chain = [job.chain EXCEPT !.hole = TRUE] /\ job'.old = job.old
      /\ job' \in RunJobs
  BY <1>1, <1>3, <1>4, <1>5 DEF RunJobs
<1>7. /\ job'.chain.covered = job.chain.covered /\ job'.chain.from = job.chain.from
      /\ job'.chain.hole = TRUE
  BY <1>4, <1>6
<1>8. JobShape'
  BY <1>1, <1>2, <1>6, <1>7 DEF JobInv, JobShape, NoJob, SentJobs, kafka
<1>9. JobRead BY <1>2 DEF JobInv
<1>10. BackwardJob'
  BY <1>1, <1>2, <1>6, <1>7, <1>9 DEF JobRead, BackwardJob, kafka
<1>11. JobRead'
  <2>1. job'.q.mode \notin Forward BY <1>1, <1>6 DEF Forward, Backward
  <2>. QED BY <1>2, <1>6, <1>7, <1>9, <1>10, <2>1 DEF JobRead
<1>12. JobInv' BY <1>8, <1>11 DEF JobInv
<1>13. ServerInv' BY <1>1, <1>2, SameServer
<1>14. Ids' = Ids BY <1>1 DEF Ids, cursors
<1>15. Answer' = Answer \cup Sent(<<>>) BY <1>1, <1>6 DEF Answer, Sent
<1>16. <<>> \in Seq(Events) /\ Emitted(<<>>) /\ Sent(<<>>) = {} /\ DOMAIN <<>> = {}
  BY DEF Emitted, Sent
<1>17. Emit(<<>>)
  <2>1. wire \in Seq(Events) BY DEF BrowseInv, ClientShape
  <2>2. wire \o <<>> = wire BY <2>1, ConcatEmptySeq
  <2>. QED BY <2>2, <1>1 DEF Emit
<1>18. faults' \in 0..MaxFaults BY <1>1, FaultCounted
<1>19. /\ \A i \in DOMAIN <<>> : <<>>[i].cursor \in Ids'
       /\ \A i \in DOMAIN <<>> : <<>>[i].type = "CLOSE" => i = Len(<<>>) /\ job'.state # "reading"
       /\ \A a \in Answer, h \in Sent(<<>>) : Follows(job.q, a, h)
  BY <1>16
<1>. DEFINE es == <<>>
<1>20. /\ es \in Seq(Events) /\ Emit(es) /\ Emitted(es) /\ Answer' = Answer \cup Sent(es)
       /\ \A i \in DOMAIN es : es[i].cursor \in Ids'
       /\ \A i \in DOMAIN es : es[i].type = "CLOSE" => i = Len(es) /\ job'.state # "reading"
       /\ \A a \in Answer, h \in Sent(es) : Follows(job.q, a, h)
  BY <1>15, <1>16, <1>17, <1>19
<1>. HIDE DEF es
<1>. QED BY <1>1, <1>6, <1>12, <1>13, <1>14, <1>18, <1>20, EmitStep

\* The last events of a page: what a backward page collected, then the end.
LEMMA EndStep ==
  ASSUME BrowseInv, job.state = "reading", NEW end \in Seq(Events),
         \A i \in DOMAIN end :
            /\ end[i].type \in {"DONE", "CLOSE"} /\ end[i].cursor \in Ids'
            /\ end[i].type = "CLOSE" => i = Len(end),
         Emit((IF job.q.mode \in Backward THEN Send(job.q, job.merged) ELSE <<>>) \o end),
         UNCHANGED client, faults' \in 0..MaxFaults, ServerInv', JobInv',
         Ids \subseteq Ids', 0 \in Ids',
         job'.state \in {"done", "ended"}, job'.q = job.q, job'.merged = job.merged
  PROVE  BrowseInv'
<1>. DEFINE first == IF job.q.mode \in Backward THEN Send(job.q, job.merged) ELSE <<>>
            es == first \o end
            n == Len(first)
            k == Len(end)
<1>1. JobInv /\ LogShape /\ Ran BY DEF BrowseInv, ServerInv, Ran
<1>2. job.merged \in SUBSET Records /\ IsFiniteSet(job.merged) BY <1>1, RunFacts
<1>3. /\ first \in Seq(Events) /\ Emitted(first)
      /\ \A i \in DOMAIN first : first[i].type = "MESSAGE" /\ first[i].cursor = 0
      /\ Sent(first) = IF job.q.mode \in Backward
                       THEN {r \in job.merged : Matches(job.q, r[1], r[2])} ELSE {}
  <2>1. CASE job.q.mode \notin Backward
    <3>1. first = <<>> /\ <<>> \in Seq(Events) /\ DOMAIN <<>> = {} BY <2>1
    <3>. QED BY <2>1, <3>1 DEF Emitted, Sent
  <2>2. CASE job.q.mode \in Backward
    <3>1. first = Send(job.q, job.merged) BY <2>2
    <3>. HIDE DEF first
    <3>. QED BY <1>2, <2>2, <3>1, SentFacts
  <2>. QED BY <2>1, <2>2
<1>4. Emit(es) BY DEF es
<1>. HIDE DEF first
<1>5. /\ n \in Nat /\ k \in Nat /\ es \in Seq(Events) /\ Len(es) = n + k
      /\ \A i \in 1..(n + k) : es[i] = IF i <= n THEN first[i] ELSE end[i - n]
      /\ DOMAIN first = 1..n /\ DOMAIN end = 1..k /\ DOMAIN es = 1..(n + k)
  <2>1. n \in Nat /\ k \in Nat /\ DOMAIN first = 1..n /\ DOMAIN end = 1..k
    BY <1>3, LenProperties
  <2>2. es \in Seq(Events) /\ Len(es) = n + k BY <1>3, ConcatProperties, LenProperties
  <2>3. \A i \in 1..(n + k) : es[i] = IF i <= n THEN first[i] ELSE end[i - n]
    BY <1>3, ConcatProperties, LenProperties
  <2>4. DOMAIN es = 1..(n + k) BY <2>2, LenProperties
  <2>. QED BY <2>1, <2>2, <2>3, <2>4
<1>. HIDE DEF n, k, es
<1>6. /\ \A i \in 1..n : i \in 1..(n + k) /\ es[i] = first[i]
      /\ \A i \in 1..(n + k) : i \in 1..n \/ (i - n \in 1..k /\ es[i] = end[i - n])
  <2>1. \A i \in 1..n : i \in 1..(n + k) /\ i <= n BY <1>5
  <2>2. \A i \in 1..(n + k) : i \in 1..n \/ (i - n \in 1..k /\ ~(i <= n)) BY <1>5
  <2>. QED BY <2>1, <2>2, <1>5
<1>7. \A i \in DOMAIN es :
        \/ i \in DOMAIN first /\ es[i] = first[i] /\ es[i].type = "MESSAGE" /\ es[i].cursor = 0
        \/ /\ es[i].type \in {"DONE", "CLOSE"} /\ es[i].cursor \in Ids'
           /\ es[i].type = "CLOSE" => i = Len(es)
  <2>1. SUFFICES ASSUME NEW i \in 1..(n + k)
                 PROVE
        \/ i \in DOMAIN first /\ es[i] = first[i] /\ es[i].type = "MESSAGE" /\ es[i].cursor = 0
        \/ /\ es[i].type \in {"DONE", "CLOSE"} /\ es[i].cursor \in Ids'
           /\ es[i].type = "CLOSE" => i = Len(es)
    BY <1>5
  <2>2. CASE i \in 1..n BY <2>2, <1>3, <1>5, <1>6
  <2>3. CASE i - n \in 1..k /\ es[i] = end[i - n]
    <3>1. /\ end[i - n].type \in {"DONE", "CLOSE"} /\ end[i - n].cursor \in Ids'
          /\ end[i - n].type = "CLOSE" => i - n = k
      BY <2>3, <1>5 DEF k
    <3>2. i - n = k => i = n + k BY <1>5
    <3>. QED BY <2>3, <3>1, <3>2, <1>5
  <2>. QED BY <2>2, <2>3, <1>6
<1>8. Emitted(es)
  <2>1. SUFFICES ASSUME NEW i \in DOMAIN es
                 PROVE  /\ es[i].type \in {"MESSAGE", "DONE", "CLOSE"}
                        /\ es[i].type = "MESSAGE" => es[i].message \in Records
                        /\ \A j \in DOMAIN es :
                              i < j /\ es[i].type = "MESSAGE" /\ es[j].type = "MESSAGE" =>
                                  Follows(job.q, es[i].message, es[j].message)
    BY DEF Emitted
  <2>2. es[i].type = "MESSAGE" => i \in DOMAIN first /\ es[i] = first[i] BY <1>7
  <2>3. es[i].type = "MESSAGE" => es[i].message \in Records BY <2>2, <1>3 DEF Emitted
  <2>4. \A j \in DOMAIN es : es[j].type = "MESSAGE" => j \in DOMAIN first /\ es[j] = first[j]
    BY <1>7
  <2>5. \A j \in DOMAIN es :
          i < j /\ es[i].type = "MESSAGE" /\ es[j].type = "MESSAGE" =>
              Follows(job.q, es[i].message, es[j].message)
    BY <2>2, <2>4, <1>3 DEF Emitted
  <2>. QED BY <1>7, <2>3, <2>5
<1>9. Sent(es) = Sent(first)
  <2>1. \A i \in DOMAIN es : es[i].type = "MESSAGE" => i \in DOMAIN first /\ es[i] = first[i]
    BY <1>7
  <2>2. \A i \in DOMAIN first : i \in DOMAIN es /\ es[i] = first[i] BY <1>5, <1>6
  <2>. QED BY <2>1, <2>2 DEF Sent
<1>10. Answer' = Answer \cup Sent(es) BY <1>3, <1>9 DEF Answer
<1>11. \A a \in Answer, h \in Sent(es) : Follows(job.q, a, h) BY <1>3, <1>9 DEF Answer
<1>12. \A i \in DOMAIN es : es[i].cursor \in Ids' BY <1>7
<1>13. \A i \in DOMAIN es : es[i].type = "CLOSE" => i = Len(es) /\ job'.state # "reading"
  BY <1>7
<1>. QED BY <1>4, <1>5, <1>8, <1>10, <1>11, <1>12, <1>13, EmitStep

\* An error that ends a stream keeps the invariant.
LEMMA ReadErrorStep ==
  ASSUME BrowseInv, ReadError
  PROVE  BrowseInv'
<1>. DEFINE end == <<Event("CLOSE")>>
<1>1. /\ job.state = "reading" /\ Fault /\ job' = [job EXCEPT !.state = "ended"]
      /\ Emit((IF job.q.mode \in Backward THEN Send(job.q, job.merged) ELSE <<>>) \o end)
      /\ UNCHANGED <<client, orphans, cursors, kafka>>
  BY DEF ReadError
<1>2. JobInv /\ LogShape /\ ServerInv BY DEF BrowseInv, ServerInv
<1>3. JobInv' /\ job'.state = "ended" /\ job'.q = job.q /\ job'.merged = job.merged
  BY <1>1, <1>2, EndedJob
<1>4. ServerInv' BY <1>1, <1>2, SameServer
<1>5. Ids' = Ids /\ 0 \in Ids BY <1>1, <1>2 DEF Ids, cursors, ServerInv, CacheShape
<1>6. Event("CLOSE") \in Events /\ Event("CLOSE").type = "CLOSE" /\ Event("CLOSE").cursor = 0
  <2>. HIDE DEF Records
  <2>. QED BY DEF Event, Events, None
<1>7. /\ end \in Seq(Events) /\ Len(end) = 1 /\ DOMAIN end = 1..1 /\ end[1] = Event("CLOSE")
  BY <1>6
<1>. HIDE DEF end
<1>8. \A i \in DOMAIN end :
            /\ end[i].type \in {"DONE", "CLOSE"} /\ end[i].cursor \in Ids'
            /\ end[i].type = "CLOSE" => i = Len(end)
  BY <1>5, <1>6, <1>7
<1>9. faults' \in 0..MaxFaults BY <1>1, FaultCounted
<1>. QED BY <1>1, <1>3, <1>4, <1>5, <1>7, <1>8, <1>9, EndStep

\* The position saved after a page.
LEMMA NextFacts ==
  ASSUME JobInv, LogShape, Ran, NEW p \in Partitions
  PROVE  /\ NextOf(p) \in Nat /\ NextOf(p) <= logEnd[p] /\ job.starts[p] <= NextOf(p)
         /\ job.q.mode \in Forward => NextOf(p) = job.pos[p]
         /\ job.q.mode \notin Forward =>
              /\ NextOf(p) = job.starts[p]
                   \/ \E m \in job.merged : m[1] = p /\ m[2] = NextOf(p)
              /\ \A m \in job.merged : m[1] = p => NextOf(p) <= m[2]
<1>. DEFINE got == {r[2] : r \in {m \in job.merged : m[1] = p}}
<1>1. /\ job.starts[p] \in Nat /\ job.pos[p] \in Nat /\ logEnd[p] \in Nat
      /\ job.starts[p] <= job.pos[p] /\ job.pos[p] <= logEnd[p]
      /\ \A m \in job.merged :
              /\ m[1] \in Partitions /\ m[2] \in Nat
              /\ job.starts[m[1]] <= m[2] /\ m[2] < job.pos[m[1]]
  BY RunFacts
<1>2. CASE job.q.mode \in Forward BY <1>1, <1>2 DEF NextOf
<1>3. CASE job.q.mode \notin Forward
  <2>1. NextOf(p) = IF got = {} THEN job.starts[p] ELSE Min(got) BY <1>3 DEF NextOf
  <2>2. got \in SUBSET Nat BY <1>1
  <2>3. \A m \in job.merged : m[1] = p => m[2] \in got OBVIOUS
  <2>4. \A x \in got : \E m \in job.merged : m[1] = p /\ m[2] = x OBVIOUS
  <2>. HIDE DEF got
  <2>5. CASE got = {} BY <2>1, <2>3, <2>5, <1>1, <1>3
  <2>6. CASE got # {}
    <3>1. Min(got) \in got /\ \A x \in got : Min(got) <= x BY <2>2, <2>6, MinFacts
    <3>2. PICK m \in job.merged : m[1] = p /\ m[2] = Min(got) BY <2>4, <3>1
    <3>3. /\ NextOf(p) = m[2] /\ m[2] \in Nat /\ job.starts[p] <= m[2] /\ m[2] < job.pos[p]
      BY <2>1, <2>6, <3>2, <1>1
    <3>4. NextOf(p) <= logEnd[p] BY <3>3, <1>1
    <3>5. \A x \in job.merged : x[1] = p => NextOf(p) <= x[2] BY <2>1, <2>3, <2>6, <3>1
    <3>. QED BY <3>2, <3>3, <3>4, <3>5, <1>3
  <2>. QED BY <2>5, <2>6
<1>. QED BY <1>2, <1>3

\* A backward page without an empty poll has read all that is retained from
\* its position on.
LEMMA BackwardComplete ==
  ASSUME JobInv, LogShape, Ran, job.q.mode \in Backward, ~job.chain.hole, BackwardDone,
         NEW p \in Partitions
  PROVE  RetainedRead(job.chain.covered, p, NextOf(p), job.chain.from[p])
<1>1. /\ job.starts[p] \in Nat /\ job.ends[p] \in Nat /\ job.pos[p] \in Nat
      /\ NextOf(p) \in Nat /\ job.starts[p] <= NextOf(p)
  BY RunFacts, NextFacts
<1>2. /\ RetainedRead(job.chain.covered, p, job.ends[p], job.chain.from[p])
      /\ RetainedRead(job.chain.covered, p, job.starts[p],
              IF job.pos[p] <= job.ends[p] THEN job.pos[p] ELSE job.ends[p])
      /\ ~job.empty
  BY DEF JobInv, JobRead, BackwardJob
<1>3. job.pos[p] >= job.ends[p] BY <1>2 DEF BackwardDone
<1>4. (IF job.pos[p] <= job.ends[p] THEN job.pos[p] ELSE job.ends[p]) = job.ends[p]
  BY <1>1, <1>3
<1>5. SUFFICES ASSUME NEW o \in Retained(p, NextOf(p), job.chain.from[p])
               PROVE  <<p, o>> \in job.chain.covered
  BY DEF RetainedRead
<1>6. /\ o \in logStart[p]..(logEnd[p] - 1) /\ NextOf(p) <= o /\ o < job.chain.from[p]
      /\ IsData(p, o)
  BY <1>5 DEF Retained
<1>7. o \in Int BY <1>6
<1>. HIDE DEF NextOf
<1>8. CASE o < job.ends[p]
  <2>1. job.starts[p] <= o BY <1>1, <1>6, <1>7
  <2>2. o \in Retained(p, job.starts[p], job.ends[p]) BY <1>6, <1>8, <2>1 DEF Retained
  <2>. QED BY <2>2, <1>2, <1>4 DEF RetainedRead
<1>9. CASE job.ends[p] <= o
  <2>1. o \in Retained(p, job.ends[p], job.chain.from[p]) BY <1>6, <1>9 DEF Retained
  <2>. QED BY <2>1, <1>2 DEF RetainedRead
<1>. QED BY <1>1, <1>7, <1>8, <1>9

\* The end of a page, with its cursor saved, keeps the invariant.
LEMMA FinishStep ==
  ASSUME BrowseInv, Finish
  PROVE  BrowseInv'
<1>. DEFINE end == <<Done, Event("CLOSE")>>
            next == [p \in Partitions |-> NextOf(p)]
            new == [offsets |-> next, chain |-> job.chain]
<1>1. /\ job.state = "reading" /\ job' = [job EXCEPT !.state = "done"]
      /\ \/ job.q.mode \in Forward /\ ForwardDone
         \/ job.q.mode \in Backward /\ BackwardDone
      /\ Save(next, job.q, job.chain)
      /\ Emit((IF job.q.mode \in Backward THEN Send(job.q, job.merged) ELSE <<>>) \o end)
      /\ UNCHANGED <<client, orphans, expired, kafka, faults>>
  BY DEF Finish
<1>2. JobInv /\ LogShape /\ ServerInv /\ Ran BY <1>1 DEF BrowseInv, ServerInv, Ran
<1>3. JobInv' /\ job'.state = "done" /\ job'.q = job.q /\ job'.merged = job.merged
  <2>1. job.q.mode \in Backward => BackwardDone BY <1>1 DEF Forward, Backward
  <2>. QED BY <1>1, <1>2, <2>1, EndedJob
<1>4. /\ job.chain \in Chains /\ job.q \in Queries
      /\ \A p \in Partitions :
              /\ job.starts[p] \in Nat /\ job.ends[p] \in Nat /\ job.pos[p] \in Nat
              /\ job.chain.from[p] \in Nat
              /\ job.starts[p] <= job.pos[p] /\ job.chain.from[p] <= logEnd[p]
      /\ \A m \in job.merged :
              /\ m[1] \in Partitions /\ m[2] \in Nat
              /\ job.starts[m[1]] <= m[2] /\ m[2] < job.pos[m[1]]
              /\ job.q.mode \in Backward => m[2] < job.ends[m[1]]
      /\ \A c \in job.old : c[1] \in Partitions /\ c[2] \in Nat
      /\ job.chain.covered = job.old \cup job.merged
  <2>1. job.old \in SUBSET Records BY <1>2, RunFacts
  <2>2. \A c \in job.old : c[1] \in Partitions /\ c[2] \in Nat BY <2>1 DEF Records
  <2>3. job.chain.covered = job.old \cup job.merged BY <1>2 DEF JobInv, JobRead
  <2>. QED BY <1>2, <2>2, <2>3, RunFacts
<1>5. /\ next \in Offs /\ \A p \in Partitions : next[p] = NextOf(p)
      /\ \A p \in Partitions : next[p] <= logEnd[p] /\ job.starts[p] <= next[p]
  <2>1. \A p \in Partitions : NextOf(p) \in Nat /\ NextOf(p) <= logEnd[p]
                              /\ job.starts[p] <= NextOf(p)
    BY <1>2, NextFacts
  <2>. HIDE DEF NextOf
  <2>. QED BY <2>1 DEF Offs
<1>6. new.offsets = next /\ new.chain = job.chain OBVIOUS
<1>. HIDE DEF next, new
<1>7. job.q.mode \in Forward => ForwardEntry(new)
  <2>1. SUFFICES ASSUME job.q.mode \in Forward PROVE ForwardEntry(new) OBVIOUS
  <2>2. ForwardJob BY <1>2, <2>1 DEF JobInv, JobRead
  <2>3. \A p \in Partitions : next[p] = job.pos[p] BY <1>2, <1>5, <2>1, NextFacts
  <2>4. \A c \in job.chain.covered : c[2] < next[c[1]]
    <3>1. SUFFICES ASSUME NEW c \in job.chain.covered PROVE c[2] < next[c[1]] OBVIOUS
    <3>2. CASE c \in job.merged BY <3>2, <1>4, <2>3
    <3>3. CASE c \in job.old
      <4>1. c[2] < job.starts[c[1]] /\ c[1] \in Partitions /\ c[2] \in Nat
        BY <3>3, <2>2, <1>4 DEF ForwardJob
      <4>. QED BY <4>1, <1>4, <2>3
    <3>. QED BY <3>2, <3>3, <1>4
  <2>5. \A p \in Partitions : RetainedRead(job.chain.covered, p, job.chain.from[p], next[p])
    BY <2>2, <2>3 DEF ForwardJob
  <2>. QED BY <2>4, <2>5, <1>6 DEF ForwardEntry
<1>8. job.q.mode \in Backward => BackwardEntry(new)
  <2>1. SUFFICES ASSUME job.q.mode \in Backward PROVE BackwardEntry(new) OBVIOUS
  <2>2. BackwardJob /\ BackwardDone /\ job.q.mode \notin Forward
    BY <1>1, <1>2, <2>1 DEF JobInv, JobRead, Forward, Backward
  <2>3. ASSUME NEW p \in Partitions
        PROVE  \/ next[p] <= logStart[p]
               \/ \A c \in job.chain.covered : c[1] = p => next[p] <= c[2]
    <3>1. /\ next[p] = job.starts[p] \/ \E m \in job.merged : m[1] = p /\ m[2] = next[p]
          /\ \A m \in job.merged : m[1] = p => next[p] <= m[2]
      BY <1>2, <1>5, <2>2, NextFacts
    <3>2. next[p] \in Nat BY <1>5 DEF Offs
    <3>3. CASE \A c \in job.old : c[1] = p => job.ends[p] <= c[2]
      <4>1. next[p] <= job.ends[p]
        <5>1. CASE next[p] = job.starts[p] BY <5>1, <2>2 DEF BackwardJob
        <5>2. CASE \E m \in job.merged : m[1] = p /\ m[2] = next[p]
          BY <5>2, <2>1, <1>4, <3>2
        <5>. QED BY <3>1, <5>1, <5>2
      <4>2. \A c \in job.old : c[1] = p => next[p] <= c[2] BY <3>2, <3>3, <4>1, <1>4
      <4>. QED BY <3>1, <4>2, <1>4
    <3>4. CASE job.starts[p] = job.ends[p] /\ job.ends[p] <= logStart[p]
      <4>1. ~\E m \in job.merged : m[1] = p /\ m[2] = next[p] BY <3>4, <2>1, <1>4
      <4>. QED BY <3>1, <3>4, <4>1
    <3>. QED BY <3>3, <3>4, <2>2 DEF BackwardJob
  <2>4. ASSUME ~job.chain.hole, NEW p \in Partitions
        PROVE  RetainedRead(job.chain.covered, p, next[p], job.chain.from[p])
    BY <1>2, <1>5, <2>1, <2>2, <2>4, BackwardComplete
  <2>. QED BY <2>3, <2>4, <1>6 DEF BackwardEntry
<1>9. ServerInv' /\ Ids \subseteq Ids' /\ Len(issued) + 1 \in Ids' /\ Ids' \subseteq Nat
  <2>1. \A p \in Partitions : next[p] <= logEnd[p] /\ job.chain.from[p] <= logEnd[p]
    BY <1>4, <1>5
  <2>2. /\ job.q.mode \in Forward => ForwardEntry([offsets |-> next, chain |-> job.chain])
        /\ job.q.mode \in Backward => BackwardEntry([offsets |-> next, chain |-> job.chain])
    BY <1>7, <1>8 DEF new
  <2>3. job.q \in Queries \cup {[mode |-> "aborted"]} /\ UNCHANGED <<expired, kafka>>
    BY <1>1, <1>4
  <2>. QED BY <1>1, <1>2, <1>4, <1>5, <2>1, <2>2, <2>3, SaveFacts
<1>10. 0 \in Ids' BY <1>2, <1>9 DEF Ids, ServerInv, CacheShape
<1>11. /\ Done \in Events /\ Done.type = "DONE" /\ Done.cursor \in Ids'
       /\ Event("CLOSE") \in Events /\ Event("CLOSE").type = "CLOSE" /\ Event("CLOSE").cursor = 0
  <2>1. Len(issued) + 1 \in Nat BY <1>9
  <2>. HIDE DEF Records, Ids
  <2>. QED BY <1>9, <2>1 DEF Done, Event, Events, None
<1>12. /\ end \in Seq(Events) /\ Len(end) = 2 /\ DOMAIN end = 1..2 /\ end[1] = Done
       /\ end[2] = Event("CLOSE")
  BY <1>11
<1>. HIDE DEF end
<1>13. \A i \in DOMAIN end :
            /\ end[i].type \in {"DONE", "CLOSE"} /\ end[i].cursor \in Ids'
            /\ end[i].type = "CLOSE" => i = Len(end)
  <2>1. \A i \in 1..2 : i = 1 \/ i = 2 OBVIOUS
  <2>. QED BY <2>1, <1>10, <1>11, <1>12
<1>14. faults' \in 0..MaxFaults BY <1>1 DEF BrowseInv, ClientShape
<1>. QED BY <1>1, <1>3, <1>9, <1>10, <1>12, <1>13, <1>14, EndStep

---------------------------------------------------------------------------
\* The beginning of a page.

\* Taking an id out of the eviction order takes out just that one.
LEMMA RemoveFacts ==
  ASSUME NEW id, order \in Seq(Nat), IsInjective(order), id \in Range(order)
  PROVE  LET left == removeFromOrder(id)
         IN  /\ left \in Seq(Nat) /\ Len(left) <= Len(order)
             /\ IsInjective(left) /\ Range(left) = Range(order) \ {id}
<1>. DEFINE at == CHOOSE i \in DOMAIN order : order[i] = id
            n == Len(order)
            left == removeFromOrder(id)
            a == SubSeq(order, 1, at - 1)
            b == SubSeq(order, at + 1, n)
<1>1. at \in DOMAIN order /\ order[at] = id BY DEF Range
<1>2. left = a \o b BY DEF removeFromOrder
<1>. HIDE DEF at, left
<1>3. n \in Nat /\ DOMAIN order = 1..n /\ at \in 1..n BY <1>1
<1>4. /\ a \in Seq(Nat) /\ Len(a) = at - 1
      /\ \A i \in 1..(at - 1) : a[i] = order[i]
  BY <1>3
<1>5. /\ b \in Seq(Nat) /\ Len(b) = n - at
      /\ \A i \in 1..(n - at) : b[i] = order[i + at]
  <2>1. /\ at + 1 \in Int /\ n \in Int /\ n - (at + 1) + 1 = n - at
        /\ (IF at + 1 <= n THEN n - (at + 1) + 1 ELSE 0) = n - at
        /\ \A i \in 1..(n - at) : (at + 1) + i - 1 = i + at
        /\ \A i \in (at + 1)..n : i \in 1..n
    <3>. HIDE DEF n
    <3>. QED BY <1>3
  <2>2. \A i \in (at + 1)..n : order[i] \in Nat
    <3>1. \A i \in DOMAIN order : order[i] \in Nat OBVIOUS
    <3>. HIDE DEF n
    <3>. QED BY <2>1, <3>1, <1>3
  <2>. HIDE DEF n
  <2>3. /\ b \in Seq(Nat) /\ Len(b) = IF at + 1 <= n THEN n - (at + 1) + 1 ELSE 0
        /\ \A i \in 1..(n - (at + 1) + 1) : b[i] = order[(at + 1) + i - 1]
    <3>. HIDE DEF b
    <3>1. b = SubSeq(order, at + 1, n) BY DEF b
    <3>. QED BY <2>1, <2>2, <3>1, SubSeqProperties
  <2>. HIDE DEF b
  <2>. QED BY <2>1, <2>3
<1>. HIDE DEF a, b, n
<1>6. /\ left \in Seq(Nat) /\ Len(left) = n - 1
      /\ \A i \in 1..(n - 1) : left[i] = IF i < at THEN order[i] ELSE order[i + 1]
  <2>1. left \in Seq(Nat) /\ Len(left) = Len(a) + Len(b)
    BY <1>2, <1>4, <1>5, ConcatProperties, LenProperties
  <2>2. \A i \in 1..(Len(a) + Len(b)) : left[i] = IF i <= Len(a) THEN a[i] ELSE b[i - Len(a)]
    BY <1>2, <1>4, <1>5, ConcatProperties, LenProperties
  <2>3. Len(a) + Len(b) = n - 1 BY <1>3, <1>4, <1>5
  <2>4. ASSUME NEW i \in 1..(n - 1)
        PROVE  left[i] = IF i < at THEN order[i] ELSE order[i + 1]
    <3>1. left[i] = IF i <= at - 1 THEN a[i] ELSE b[i - (at - 1)] BY <2>2, <2>3, <1>4
    <3>2. CASE i < at
      <4>1. i <= at - 1 /\ i \in 1..(at - 1) BY <3>2, <1>3
      <4>. QED BY <4>1, <3>1, <3>2, <1>4
    <3>3. CASE ~(i < at)
      <4>1. ~(i <= at - 1) /\ i - (at - 1) \in 1..(n - at) /\ (i - (at - 1)) + at = i + 1
        BY <3>3, <1>3
      <4>. QED BY <4>1, <3>1, <3>3, <1>5
    <3>. QED BY <3>2, <3>3
  <2>. QED BY <2>1, <2>3, <2>4
<1>7. DOMAIN left = 1..(n - 1) BY <1>6
<1>8. \A i \in 1..n, j \in 1..n : order[i] = order[j] => i = j
  BY <1>3 DEF IsInjective
\* The position in the order of what is at position i now.
<1>. DEFINE was(i) == IF i < at THEN i ELSE i + 1
<1>9. \A i \in 1..(n - 1) : was(i) \in 1..n /\ was(i) # at /\ left[i] = order[was(i)]
  <2>1. SUFFICES ASSUME NEW i \in 1..(n - 1)
                 PROVE  was(i) \in 1..n /\ was(i) # at /\ left[i] = order[was(i)]
    OBVIOUS
  <2>2. left[i] = order[was(i)] BY <1>6
  <2>3. was(i) \in 1..n /\ was(i) # at BY <1>3
  <2>. QED BY <2>2, <2>3
<1>10. \A i \in 1..(n - 1), j \in 1..(n - 1) : was(i) = was(j) => i = j BY <1>3
<1>11. \A j \in 1..n : j # at => \E i \in 1..(n - 1) : was(i) = j
  <2>1. SUFFICES ASSUME NEW j \in 1..n, j # at PROVE \E i \in 1..(n - 1) : was(i) = j
    OBVIOUS
  <2>2. CASE j < at
    <3>1. j \in 1..(n - 1) /\ was(j) = j BY <2>2, <1>3
    <3>. QED BY <3>1
  <2>3. CASE j > at
    <3>1. j - 1 \in 1..(n - 1) /\ was(j - 1) = j BY <2>3, <1>3
    <3>. QED BY <3>1
  <2>. QED BY <2>1, <2>2, <2>3, <1>3
<1>. HIDE DEF was
<1>12. IsInjective(left) BY <1>7, <1>8, <1>9, <1>10 DEF IsInjective
<1>13. Range(left) = Range(order) \ {id}
  <2>1. ASSUME NEW x \in Range(left) PROVE x \in Range(order) \ {id}
    <3>1. PICK i \in 1..(n - 1) : x = left[i] BY <1>7 DEF Range
    <3>2. was(i) \in 1..n /\ was(i) # at /\ x = order[was(i)] BY <3>1, <1>9
    <3>3. x # id BY <3>2, <1>1, <1>3, <1>8
    <3>. QED BY <3>2, <3>3, <1>3 DEF Range
  <2>2. ASSUME NEW x \in Range(order) \ {id} PROVE x \in Range(left)
    <3>1. PICK j \in 1..n : x = order[j] BY <1>3 DEF Range
    <3>2. PICK i \in 1..(n - 1) : was(i) = j BY <3>1, <2>2, <1>1, <1>11
    <3>3. x = left[i] BY <3>1, <3>2, <1>9
    <3>. QED BY <3>3, <1>7 DEF Range
  <2>. QED BY <2>1, <2>2
<1>. QED BY <1>3, <1>6, <1>12, <1>13 DEF left, n

\* Looking a cursor up, and dropping it when it expired, keeps the cache.
LEMMA LoadFacts ==
  ASSUME ServerInv, Load, UNCHANGED kafka
  PROVE  ServerInv' /\ Ids' = Ids
<1>1. LogShape /\ CacheShape /\ CacheConsistent /\ EntriesRead BY DEF ServerInv
<1>2. UNCHANGED <<expired, issued>> BY DEF Load
<1>3. Ids' = Ids BY <1>2 DEF Ids
<1>4. CASE ~Evicts(job.cursor)
  <2>1. UNCHANGED cursors BY <1>2, <1>4 DEF Load, cursors
  <2>. QED BY <2>1, <1>3, SameServer
<1>5. CASE Evicts(job.cursor)
  <2>. DEFINE id == job.cursor
  <2>1. /\ id \in DOMAIN entries /\ order' = removeFromOrder(id)
        /\ entries' = [i \in DOMAIN entries \ {id} |-> entries[i]]
    <3>1. entries' = RestrictDomain(entries, LAMBDA i : i # id) /\ order' = removeFromOrder(id)
      BY <1>5 DEF Load
    <3>2. {i \in DOMAIN entries : i # id} = DOMAIN entries \ {id} OBVIOUS
    <3>. QED BY <3>1, <3>2, <1>5 DEF Evicts, RestrictDomain, Restrict
  <2>2. order \in Seq(Nat) /\ IsInjective(order) /\ id \in Range(order) /\ Len(order) <= Capacity
        /\ Len(order) \in Nat /\ Capacity \in Nat
    BY <1>1, <2>1, BrowseBounds DEF CacheShape, CacheConsistent
  <2>. HIDE DEF id
  <2>3. /\ order' \in Seq(Nat) /\ Len(order') <= Len(order)
        /\ IsInjective(order') /\ Range(order') = Range(order) \ {id}
    BY <2>1, <2>2, RemoveFacts
  <2>4. DOMAIN entries' = DOMAIN entries \ {id}
        /\ \A i \in DOMAIN entries' : i \in DOMAIN entries /\ entries'[i] = entries[i]
    BY <2>1
  <2>5. CacheConsistent'
    <3>1. Len(order') <= Capacity
      <4>1. Len(order') \in Nat BY <2>3
      <4>. QED BY <4>1, <2>2, <2>3
    <3>2. Range(order') = DOMAIN entries' BY <1>1, <2>3, <2>4 DEF CacheConsistent
    <3>. QED BY <2>3, <3>1, <3>2 DEF CacheConsistent, Range, IsInjective
  <2>6. CacheShape' BY <1>1, <1>2, <2>3, <2>4 DEF CacheShape, kafka
  <2>7. EntriesRead'
    BY <1>1, <1>2, <2>4 DEF EntriesRead, ForwardEntry, BackwardEntry, RetainedRead, Retained, kafka
  <2>8. LogShape' BY <1>1 DEF LogShape, kafka
  <2>. QED BY <1>3, <2>5, <2>6, <2>7, <2>8 DEF ServerInv
<1>. QED BY <1>4, <1>5

\* Where a request starts and ends, inside what the log retains.
LEMMA PositionFacts ==
  ASSUME ServerInv, job \in SentJobs, job.cursor \in Ids, NEW p \in Partitions,
         NEW d \in Nat
  PROVE  /\ Position(p, d) \in Nat
         /\ logStart[p] <= Position(p, d) /\ Position(p, d) <= logEnd[p]
         /\ job.cursor # None /\ Found(job.cursor) =>
              LET at == entries[job.cursor].offsets[p]
              IN  Position(p, d) = IF at < logStart[p] THEN logStart[p] ELSE at
<1>. DEFINE resumed == job.cursor # None /\ Found(job.cursor)
            at == entries[job.cursor].offsets[p]
            v == IF p \in DOMAIN Resume THEN Resume[p]
                 ELSE IF job.q.mode \in {"EARLIEST", "LATEST", "TAILING"} THEN d
                 ELSE job.q.at
<1>1. /\ logStart[p] \in Nat /\ logEnd[p] \in Nat /\ logStart[p] <= logEnd[p]
  BY LogFacts DEF ServerInv
<1>2. job.q.at \in Nat BY BrowseQueries DEF SentJobs
<1>3. resumed => p \in DOMAIN Resume /\ Resume[p] = at /\ at \in Nat /\ at <= logEnd[p]
  BY DEF Resume, Found, ServerInv, CacheShape, Offs
<1>4. ~resumed => p \notin DOMAIN Resume BY DEF Resume
<1>5. v \in Nat BY <1>2, <1>3, <1>4
<1>6. Position(p, d) = clampOffset(v, logStart[p], logEnd[p]) BY DEF Position
<1>7. resumed => v = at BY <1>3
<1>. HIDE DEF v, resumed, at
<1>8. clampOffset(v, logStart[p], logEnd[p]) \in logStart[p]..logEnd[p]
  BY <1>1, <1>5, ClampFacts
<1>9. resumed => clampOffset(v, logStart[p], logEnd[p]) =
                   IF at < logStart[p] THEN logStart[p] ELSE at
  BY <1>1, <1>3, <1>7 DEF clampOffset
<1>. QED BY <1>1, <1>6, <1>8, <1>9 DEF resumed, at

\* A page starts and ends inside the log, and resumes at its cursor.
LEMMA StartFacts ==
  ASSUME ServerInv, job \in SentJobs, job.cursor \in Ids
  PROVE  /\ Starts \in Offs /\ Ends \in Offs
         /\ \A p \in Partitions :
              /\ logStart[p] <= Starts[p] /\ Starts[p] <= logEnd[p]
              /\ logStart[p] <= Ends[p] /\ Ends[p] <= logEnd[p]
              /\ job.q.mode \in Backward =>
                   Starts[p] <= Ends[p] /\ (Ends[p] = logStart[p] => Starts[p] = Ends[p])
              /\ job.cursor # None /\ Found(job.cursor) =>
                   LET at == entries[job.cursor].offsets[p]
                       to == IF at < logStart[p] THEN logStart[p] ELSE at
                   IN  IF job.q.mode \in Backward THEN Ends[p] = to ELSE Starts[p] = to
<1>1. \A p \in Partitions : /\ logStart[p] \in Nat /\ logEnd[p] \in Nat /\ Len(Log[p]) \in Nat
                            /\ logStart[p] <= logEnd[p] /\ logEnd[p] <= Len(Log[p])
  BY LogFacts DEF ServerInv
<1>2. ASSUME NEW p \in Partitions, NEW d \in Nat
      PROVE  /\ Position(p, d) \in Nat
             /\ logStart[p] <= Position(p, d) /\ Position(p, d) <= logEnd[p]
             /\ job.cursor # None /\ Found(job.cursor) =>
                  Position(p, d) = IF entries[job.cursor].offsets[p] < logStart[p]
                                   THEN logStart[p] ELSE entries[job.cursor].offsets[p]
  BY PositionFacts
<1>. HIDE DEF Position
<1>3. CASE job.q.mode \in Backward
  <2>. DEFINE budgets == PageBudgets[Capacities]
              at(p) == Position(p, logEnd[p])
  <2>1. \A p \in Partitions : Capacities[p] = at(p) - logStart[p] BY DEF Capacities
  <2>2. \A p \in Partitions :
           /\ at(p) \in Nat /\ logStart[p] <= at(p) /\ at(p) <= logEnd[p]
           /\ at(p) - logStart[p] \in Nat /\ at(p) - logStart[p] <= Len(Log[p])
    <3>. TAKE p \in Partitions
    <3>1. at(p) \in Nat /\ logStart[p] <= at(p) /\ at(p) <= logEnd[p] BY <1>1, <1>2
    <3>. HIDE DEF at
    <3>. QED BY <1>1, <3>1
  <2>3. Capacities \in Offs BY <2>2 DEF Capacities, Offs
  <2>4. \A p \in Partitions : Capacities[p] <= Len(Log[p]) BY <2>1, <2>2
  <2>5. Limit \in Nat BY BrowseBounds
  <2>6. budgets \in Offs /\ \A p \in Partitions : budgets[p] <= Capacities[p]
    BY <2>3, <2>4, <2>5, PageBudgetFacts DEF PageBudgets
  <2>7. /\ Starts = [p \in Partitions |-> at(p) - budgets[p]]
        /\ Ends = [p \in Partitions |-> at(p)]
    BY <1>3 DEF Starts, Ends
  <2>. HIDE DEF budgets
  <2>8. ASSUME NEW p \in Partitions
        PROVE  /\ at(p) - budgets[p] \in Nat
               /\ logStart[p] <= at(p) - budgets[p] /\ at(p) - budgets[p] <= at(p)
               /\ at(p) - budgets[p] <= logEnd[p]
               /\ at(p) = logStart[p] => at(p) - budgets[p] = at(p)
    <3>1. budgets[p] \in Nat /\ budgets[p] <= at(p) - logStart[p] BY <2>1, <2>6 DEF Offs
    <3>2. at(p) \in Nat /\ logStart[p] <= at(p) /\ at(p) <= logEnd[p] BY <2>2
    <3>. HIDE DEF at
    <3>. QED BY <3>1, <3>2, <1>1
  <2>9. Starts \in Offs /\ Ends \in Offs BY <2>2, <2>7, <2>8 DEF Offs
  <2>. QED BY <1>1, <1>2, <1>3, <2>2, <2>7, <2>8, <2>9
<1>4. CASE job.q.mode \notin Backward
  <2>. DEFINE at(p) == Position(p, IF job.q.mode = "TAILING" THEN logEnd[p] ELSE logStart[p])
  <2>1. /\ Starts = [p \in Partitions |-> at(p)]
        /\ Ends = [p \in Partitions |-> logEnd[p]]
    BY <1>4 DEF Starts, Ends
  <2>2. \A p \in Partitions :
           (IF job.q.mode = "TAILING" THEN logEnd[p] ELSE logStart[p]) \in Nat
    BY <1>1
  <2>3. Starts \in Offs /\ Ends \in Offs BY <1>1, <1>2, <2>1, <2>2 DEF Offs
  <2>4. ASSUME NEW p \in Partitions
        PROVE  /\ logStart[p] <= Starts[p] /\ Starts[p] <= logEnd[p]
               /\ logStart[p] <= Ends[p] /\ Ends[p] <= logEnd[p]
               /\ job.cursor # None /\ Found(job.cursor) =>
                   Starts[p] = IF entries[job.cursor].offsets[p] < logStart[p]
                               THEN logStart[p] ELSE entries[job.cursor].offsets[p]
    <3>. DEFINE d == IF job.q.mode = "TAILING" THEN logEnd[p] ELSE logStart[p]
    <3>1. Starts[p] = Position(p, d) /\ Ends[p] = logEnd[p] BY <2>1
    <3>2. d \in Nat BY <2>2
    <3>. HIDE DEF d, Starts, Ends
    <3>3. /\ logStart[p] <= Position(p, d) /\ Position(p, d) <= logEnd[p]
          /\ job.cursor # None /\ Found(job.cursor) =>
                  Position(p, d) = IF entries[job.cursor].offsets[p] < logStart[p]
                                   THEN logStart[p] ELSE entries[job.cursor].offsets[p]
      BY <3>2, <1>2
    <3>4. logStart[p] <= logEnd[p] /\ logEnd[p] <= logEnd[p] BY <1>1
    <3>. QED BY <3>1, <3>3, <3>4
  <2>. HIDE DEF Starts, Ends
  <2>. QED BY <1>4, <2>3, <2>4
<1>. QED BY <1>3, <1>4

\* A page that resumes goes on where the page before it ended; another one
\* begins a chain of its own.
LEMMA ResumeFacts ==
  ASSUME ServerInv, job \in SentJobs, job.cursor \in Ids
  PROVE  /\ Chain \in Chains /\ \A p \in Partitions : Chain.from[p] <= logEnd[p]
         /\ job.q.mode \in Forward =>
              /\ \A c \in Chain.covered : c[2] < Starts[c[1]]
              /\ \A p \in Partitions : RetainedRead(Chain.covered, p, Chain.from[p], Starts[p])
         /\ job.q.mode \in Backward =>
              /\ \A p \in Partitions :
                   \/ Starts[p] = Ends[p] /\ Ends[p] <= logStart[p]
                   \/ \A c \in Chain.covered : c[1] = p => Ends[p] <= c[2]
              /\ ~Chain.hole => \A p \in Partitions :
                   RetainedRead(Chain.covered, p, Ends[p], Chain.from[p])
<1>1. /\ Starts \in Offs /\ Ends \in Offs
      /\ \A p \in Partitions :
              /\ logStart[p] <= Starts[p] /\ Starts[p] <= logEnd[p]
              /\ logStart[p] <= Ends[p] /\ Ends[p] <= logEnd[p]
              /\ job.q.mode \in Backward =>
                   Starts[p] <= Ends[p] /\ (Ends[p] = logStart[p] => Starts[p] = Ends[p])
              /\ job.cursor # None /\ Found(job.cursor) =>
                   LET at == entries[job.cursor].offsets[p]
                       to == IF at < logStart[p] THEN logStart[p] ELSE at
                   IN  IF job.q.mode \in Backward THEN Ends[p] = to ELSE Starts[p] = to
  BY StartFacts
<1>2. \A p \in Partitions : /\ logStart[p] \in Nat /\ logEnd[p] \in Nat
                            /\ Starts[p] \in Nat /\ Ends[p] \in Nat
  BY <1>1, LogFacts DEF ServerInv, Offs
<1>3. job.q.mode \in Backward => job.q.mode \notin Forward BY DEF Forward, Backward
<1>. HIDE DEF Starts, Ends
<1>4. CASE job.cursor # None /\ Found(job.cursor) /\ issued[job.cursor] = job.q
  <2>. DEFINE e == entries[job.cursor]
  <2>1. Chain = e.chain BY <1>4 DEF Chain
  <2>2. job.cursor \in DOMAIN entries BY <1>4 DEF Found
  <2>3. /\ e.offsets \in Offs /\ e.chain \in Chains
        /\ \A p \in Partitions : e.offsets[p] <= logEnd[p] /\ e.chain.from[p] <= logEnd[p]
    BY <2>2 DEF ServerInv, CacheShape
  <2>4. /\ job.q.mode \in Forward => ForwardEntry(e)
        /\ job.q.mode \in Backward => BackwardEntry(e)
    BY <1>4, <2>2 DEF ServerInv, EntriesRead
  <2>5. /\ \A p \in Partitions : e.offsets[p] \in Nat
        /\ \A c \in e.chain.covered : c[1] \in Partitions /\ c[2] \in Nat
    BY <2>3 DEF Offs, Chains, Records
  <2>6. \A p \in Partitions :
           /\ job.q.mode \notin Backward =>
                Starts[p] = IF e.offsets[p] < logStart[p] THEN logStart[p] ELSE e.offsets[p]
           /\ job.q.mode \in Backward =>
                Ends[p] = IF e.offsets[p] < logStart[p] THEN logStart[p] ELSE e.offsets[p]
    BY <1>1, <1>4
  <2>. HIDE DEF e
  <2>7. ASSUME job.q.mode \in Forward
        PROVE  /\ \A c \in e.chain.covered : c[2] < Starts[c[1]]
               /\ \A p \in Partitions : RetainedRead(e.chain.covered, p, e.chain.from[p], Starts[p])
    <3>1. ForwardEntry(e) /\ job.q.mode \notin Backward BY <2>4, <2>7, <1>3
    <3>2. ASSUME NEW c \in e.chain.covered PROVE c[2] < Starts[c[1]]
      <4>1. c[2] < e.offsets[c[1]] /\ c[1] \in Partitions /\ c[2] \in Nat
        BY <2>5, <3>1 DEF ForwardEntry
      <4>2. e.offsets[c[1]] <= Starts[c[1]] BY <3>1, <4>1, <2>5, <2>6, <1>2
      <4>. QED BY <4>1, <4>2, <1>2, <2>5
    <3>3. ASSUME NEW p \in Partitions, NEW o \in Retained(p, e.chain.from[p], Starts[p])
          PROVE  <<p, o>> \in e.chain.covered
      <4>1. /\ o \in logStart[p]..(logEnd[p] - 1) /\ e.chain.from[p] <= o /\ o < Starts[p]
            /\ IsData(p, o)
        BY <3>3 DEF Retained
      <4>2. o < e.offsets[p] BY <4>1, <3>1, <2>5, <2>6, <1>2
      <4>3. o \in Retained(p, e.chain.from[p], e.offsets[p]) BY <4>1, <4>2 DEF Retained
      <4>. QED BY <4>3, <3>1 DEF ForwardEntry, RetainedRead
    <3>. QED BY <3>2, <3>3 DEF RetainedRead
  <2>8. ASSUME job.q.mode \in Backward
        PROVE  /\ \A p \in Partitions :
                   \/ Starts[p] = Ends[p] /\ Ends[p] <= logStart[p]
                   \/ \A c \in e.chain.covered : c[1] = p => Ends[p] <= c[2]
               /\ ~e.chain.hole => \A p \in Partitions :
                   RetainedRead(e.chain.covered, p, Ends[p], e.chain.from[p])
    <3>1. BackwardEntry(e) BY <2>4, <2>8
    <3>2. ASSUME NEW p \in Partitions
          PROVE \/ Starts[p] = Ends[p] /\ Ends[p] <= logStart[p]
                \/ \A c \in e.chain.covered : c[1] = p => Ends[p] <= c[2]
      <4>1. CASE e.offsets[p] <= logStart[p]
        <5>1. Ends[p] = logStart[p] BY <4>1, <2>5, <2>6, <2>8, <1>2
        <5>2. Starts[p] = Ends[p] BY <5>1, <1>1, <2>8
        <5>. QED BY <5>1, <5>2, <1>2
      <4>2. CASE ~(e.offsets[p] <= logStart[p])
        <5>1. Ends[p] = e.offsets[p] BY <4>2, <2>5, <2>6, <2>8, <1>2
        <5>. QED BY <5>1, <4>2, <3>1 DEF BackwardEntry
      <4>. QED BY <4>1, <4>2
    <3>3. ASSUME ~e.chain.hole, NEW p \in Partitions,
                 NEW o \in Retained(p, Ends[p], e.chain.from[p])
          PROVE  <<p, o>> \in e.chain.covered
      <4>1. /\ o \in logStart[p]..(logEnd[p] - 1) /\ Ends[p] <= o /\ o < e.chain.from[p]
            /\ IsData(p, o)
        BY <3>3 DEF Retained
      <4>2. e.offsets[p] <= Ends[p] BY <2>5, <2>6, <2>8, <1>2
      <4>3. e.offsets[p] <= o BY <4>1, <4>2, <2>5, <1>2
      <4>4. o \in Retained(p, e.offsets[p], e.chain.from[p]) BY <4>1, <4>3 DEF Retained
      <4>. QED BY <4>4, <3>1, <3>3 DEF BackwardEntry, RetainedRead
    <3>. QED BY <3>2, <3>3 DEF RetainedRead
  <2>. QED BY <2>1, <2>3, <2>7, <2>8
<1>5. CASE ~(job.cursor # None /\ Found(job.cursor) /\ issued[job.cursor] = job.q)
  <2>. DEFINE from == IF job.q.mode \in Backward THEN Ends ELSE Starts
  <2>1. Chain = [covered |-> {}, hole |-> FALSE, from |-> from] BY <1>5 DEF Chain
  <2>2. from \in Offs /\ \A p \in Partitions : from[p] <= logEnd[p] BY <1>1
  <2>3. Chain.covered = {} /\ Chain.from = from /\ Chain \in Chains
    <3>. HIDE DEF from, Records
    <3>. QED BY <2>1, <2>2 DEF Chains
  <2>4. \A p \in Partitions : RetainedRead({}, p, Starts[p], Starts[p])
                              /\ RetainedRead({}, p, Ends[p], Ends[p])
    <3>1. SUFFICES ASSUME NEW p \in Partitions
                   PROVE Retained(p, Starts[p], Starts[p]) = {} /\ Retained(p, Ends[p], Ends[p]) = {}
      BY DEF RetainedRead
    <3>. QED BY <1>2 DEF Retained
  <2>. QED BY <2>2, <2>3, <2>4, <1>3
<1>. QED BY <1>4, <1>5

\* The begin of a page keeps the invariant.
LEMMA BrowseStep ==
  ASSUME BrowseInv, Browse
  PROVE  BrowseInv'
<1>1. /\ job.state = "sent" /\ Load
      /\ job' = [state |-> "reading", q |-> job.q, starts |-> Starts,
               ends |-> Ends, pos |-> Starts, count |-> 0, merged |-> {},
               chain |-> Chain, old |-> Chain.covered, empty |-> FALSE]
      /\ wire' = wire \o <<Event("PHASE")>>
      /\ UNCHANGED <<client, orphans, kafka, faults>>
  BY DEF Browse, Emit
<1>2. /\ ServerInv /\ LogShape /\ ClientShape /\ Protocol
      /\ job \in SentJobs /\ job.cursor \in Ids
  BY <1>1 DEF BrowseInv, ServerInv, LinkInv, JobInv, JobShape, NoJob, RunJobs
<1>3. ServerInv' /\ Ids' = Ids BY <1>1, <1>2, LoadFacts
<1>4. /\ Starts \in Offs /\ Ends \in Offs
      /\ \A p \in Partitions :
              /\ logStart[p] <= Starts[p] /\ Starts[p] <= logEnd[p]
              /\ logStart[p] <= Ends[p] /\ Ends[p] <= logEnd[p]
              /\ job.q.mode \in Backward => Starts[p] <= Ends[p]
  BY <1>2, StartFacts
<1>5. /\ Chain \in Chains /\ \A p \in Partitions : Chain.from[p] <= logEnd[p]
      /\ job.q.mode \in Forward =>
              /\ \A c \in Chain.covered : c[2] < Starts[c[1]]
              /\ \A p \in Partitions : RetainedRead(Chain.covered, p, Chain.from[p], Starts[p])
      /\ job.q.mode \in Backward =>
              /\ \A p \in Partitions :
                   \/ Starts[p] = Ends[p] /\ Ends[p] <= logStart[p]
                   \/ \A c \in Chain.covered : c[1] = p => Ends[p] <= c[2]
              /\ ~Chain.hole => \A p \in Partitions :
                   RetainedRead(Chain.covered, p, Ends[p], Chain.from[p])
  BY <1>2, ResumeFacts
<1>6. \A p \in Partitions : /\ logStart[p] \in Nat /\ logEnd[p] \in Nat
                            /\ Starts[p] \in Nat /\ Ends[p] \in Nat
  BY <1>2, <1>4, LogFacts DEF Offs
<1>. HIDE DEF Starts, Ends, Chain
<1>7. /\ job'.state = "reading" /\ job'.q = job.q /\ job'.starts = Starts
      /\ job'.ends = Ends /\ job'.pos = Starts /\ job'.merged = {}
      /\ job'.chain = Chain /\ job'.old = Chain.covered /\ job'.empty = FALSE
  BY <1>1
<1>8. job' \in RunJobs
  <2>1. Chain.covered \in SUBSET Records /\ {} \in SUBSET Records BY <1>5 DEF Chains
  <2>2. job.q \in Queries BY <1>2 DEF SentJobs
  <2>. HIDE DEF Records, Chains, Offs
  <2>. QED BY <1>1, <1>4, <1>5, <2>1, <2>2 DEF RunJobs
<1>9. JobShape'
  <2>1. IsFiniteSet(job'.merged) BY <1>7, FS_EmptySet
  <2>2. \A p \in Partitions : /\ job'.starts[p] <= job'.pos[p] /\ job'.pos[p] <= logEnd'[p]
                              /\ job'.ends[p] <= logEnd'[p] /\ job'.chain.from[p] <= logEnd'[p]
    BY <1>1, <1>4, <1>5, <1>6, <1>7 DEF kafka
  <2>. QED BY <1>7, <1>8, <2>1, <2>2 DEF JobShape
<1>10. job'.q.mode \in Forward => ForwardJob'
  BY <1>1, <1>5, <1>7 DEF ForwardJob, RetainedRead, Retained, kafka
<1>11. job'.q.mode \in Backward => BackwardJob'
  <2>1. SUFFICES ASSUME job.q.mode \in Backward PROVE BackwardJob' BY <1>7
  <2>2. \A p \in Partitions : Starts[p] <= Ends[p] BY <2>1, <1>4
  <2>3. \A p \in Partitions : RetainedRead(Chain.covered, p, Starts[p], Starts[p])
    <3>1. SUFFICES ASSUME NEW p \in Partitions PROVE Retained(p, Starts[p], Starts[p]) = {}
      BY DEF RetainedRead
    <3>. QED BY <1>6 DEF Retained
  <2>4. ~Chain.hole => \A p \in Partitions :
         /\ RetainedRead(Chain.covered, p, Ends[p], Chain.from[p])
         /\ RetainedRead(Chain.covered, p, Starts[p],
                  IF Starts[p] <= Ends[p] THEN Starts[p] ELSE Ends[p])
    BY <1>5, <2>1, <2>2, <2>3
  <2>. QED BY <1>1, <1>5, <1>7, <2>1, <2>2, <2>4
       DEF BackwardJob, RetainedRead, Retained, kafka
<1>12. JobInv' BY <1>7, <1>9, <1>10, <1>11 DEF JobInv, JobRead
<1>13. stream.state = "sent" /\ wire = <<>>
  <2>1. stream.state \in {"none", "sent", "open", "failed", "closed", "refused", "retry"}
    BY <1>2 DEF ClientShape
  <2>. QED BY <1>1, <1>2, <2>1 DEF Protocol, Ran, NoJob
<1>14. Event("PHASE") \in Events /\ Event("PHASE").type = "PHASE" /\ Event("PHASE").cursor = 0
  <2>. HIDE DEF Records
  <2>. QED BY DEF Event, Events, None
<1>15. /\ wire' \in Seq(Events) /\ Len(wire') = 1 /\ DOMAIN wire' = 1..1
       /\ wire'[1] = Event("PHASE") /\ wire' # <<>>
  BY <1>1, <1>13, <1>14
<1>16. 0 \in Ids' BY <1>2, <1>3 DEF Ids, ServerInv, CacheShape
<1>17. ClientShape'
  <2>1. \A i \in DOMAIN wire' : wire'[i].cursor \in Ids'
                  /\ (wire'[i].type = "MESSAGE" => wire'[i].message \in Records)
    BY <1>14, <1>15, <1>16
  <2>. QED BY <1>1, <1>2, <1>3, <1>15, <2>1 DEF ClientShape, client
<1>18. Protocol'
  <2>1. Ran' BY <1>7 DEF Ran
  <2>2. Body(2)' BY <1>15 DEF Body
  <2>3. stream'.q = (Url.q)' /\ (job' # NoJob => job'.q = stream'.q)
    <3>1. job # NoJob BY <1>1 DEF NoJob
    <3>. QED BY <1>1, <1>2, <1>7, <3>1 DEF Protocol, Url, client
  <2>4. stream'.state = "sent" BY <1>1, <1>13 DEF client
  <2>. QED BY <1>14, <1>15, <2>1, <2>2, <2>3, <2>4 DEF Protocol
<1>19. Delivered'
  <2>1. ~Answered' BY <1>1, <1>13 DEF Answered, client
  <2>2. Arrived' = {} BY <2>1 DEF Arrived
  <2>3. OnWire' = {} BY <1>14, <1>15 DEF OnWire
  <2>4. Incoming' = {} BY <2>3 DEF Incoming
  <2>5. Answer' = {} BY <1>7 DEF Answer
  <2>. QED BY <2>1, <2>2, <2>3, <2>4, <2>5 DEF Delivered
<1>. QED BY <1>3, <1>12, <1>17, <1>18, <1>19 DEF BrowseInv, LinkInv

---------------------------------------------------------------------------
\* The theorems.

\* The invariant holds when the page is first opened.
LEMMA BrowseInit ==
  ASSUME Init
  PROVE  BrowseInv
<1>1. PICK q \in Landing :
        /\ history = <<[q |-> q, cursor |-> 0]>>
        /\ stream = [state |-> "sent", q |-> q, cursor |-> None]
        /\ job = [state |-> "sent", q |-> q, cursor |-> None]
  BY DEF Init
<1>2. /\ visit = 1 /\ isFetching = TRUE /\ messages = <<>> /\ pending = <<>>
      /\ prevCursor = 0 /\ nextCursor = None /\ wire = <<>>
      /\ entries = [i \in {} |-> 0] /\ order = <<>> /\ expired = {} /\ issued = <<>>
      /\ logStart = [p \in Partitions |-> 0]
      /\ logEnd = FirstEnd
      /\ urls = 0 /\ faults = 0
  BY DEF Init
<1>3. q \in Queries /\ MaxUrls \in Nat /\ MaxFaults \in Nat /\ Capacity \in Nat
  BY BrowseQueries, BrowseBounds
<1>4. Ids = {0} BY <1>2 DEF Ids
<1>5. ClientShape
  <2>1. /\ history \in Seq([q : Queries, cursor : Nat]) /\ DOMAIN history = 1..1
        /\ history[1].cursor = 0
    BY <1>1, <1>3
  <2>2. \A i \in DOMAIN history : history[i].cursor <= urls BY <2>1, <1>2
  <2>3. visit \in DOMAIN history /\ urls \in 0..MaxUrls /\ faults \in 0..MaxFaults
        /\ prevCursor \in 0..MaxUrls
    BY <2>1, <1>2, <1>3
  <2>4. stream \in [state : {"none", "sent", "open", "failed", "closed", "refused",
                             "retry"}, q : Queries, cursor : Ids] /\ nextCursor \in Ids
    BY <1>1, <1>2, <1>3, <1>4 DEF None
  <2>5. /\ messages \in Seq(Records) /\ pending \in Seq(Records) /\ wire \in Seq(Events)
        /\ DOMAIN wire = {}
    BY <1>2
  <2>. QED BY <1>2, <2>1, <2>2, <2>3, <2>4, <2>5 DEF ClientShape
<1>6. ServerInv
  <2>1. LogShape BY <1>2, BrowseLog DEF LogShape, Offs
  <2>2. DOMAIN entries = {} BY <1>2
  <2>3. CacheShape
    <3>1. issued \in Seq(Queries \cup {[mode |-> "aborted"]}) /\ order \in Seq(Nat)
      BY <1>2
    <3>. QED BY <1>2, <2>2, <3>1 DEF CacheShape
  <2>4. CacheConsistent
    <3>1. Len(order) = 0 /\ DOMAIN order = {} BY <1>2
    <3>2. Range(order) = {} BY <3>1 DEF Range
    <3>. QED BY <1>3, <2>2, <3>1, <3>2 DEF CacheConsistent, IsInjective
  <2>5. EntriesRead BY <2>2 DEF EntriesRead
  <2>. QED BY <2>1, <2>3, <2>4, <2>5 DEF ServerInv
<1>7. JobInv /\ ~Ran
  <2>1. job \in SentJobs /\ job.cursor \in Ids BY <1>1, <1>3, <1>4 DEF SentJobs, None
  <2>2. ~Ran BY <1>1 DEF Ran
  <2>. QED BY <2>1, <2>2 DEF JobInv, JobShape, JobRead
<1>8. LinkInv
  <2>1. Url = [q |-> q, cursor |-> 0] BY <1>1, <1>2 DEF Url
  <2>2. Protocol BY <1>1, <1>2, <2>1 DEF Protocol
  <2>. QED BY <1>7, <2>2 DEF LinkInv, Delivered
<1>. QED BY <1>5, <1>6, <1>7, <1>8 DEF BrowseInv

\* The invariant holds when nothing happens.
LEMMA BrowseStutter ==
  ASSUME BrowseInv, UNCHANGED vars
  PROVE  BrowseInv'
<1>1. UNCHANGED <<client, wire, job, orphans, cursors, kafka, faults>> BY DEF vars
<1>2. ServerInv' /\ JobInv' BY <1>1, SameServer, SameJob DEF BrowseInv
<1>3. ClientShape' BY <1>1 DEF BrowseInv, ClientShape, Ids, client, cursors
<1>4. Protocol' BY <1>1 DEF BrowseInv, LinkInv, Protocol, Url, Ran, Body, client
<1>5. Delivered'
  BY <1>1 DEF BrowseInv, LinkInv, Delivered, Ran, Answer, Arrived, Answered, Incoming,
              OnWire, InArrivalOrder, client
<1>. QED BY <1>2, <1>3, <1>4, <1>5 DEF BrowseInv, LinkInv

\* Every step keeps the invariant.
LEMMA BrowseNext ==
  ASSUME BrowseInv, Next
  PROVE  BrowseInv'
<1>1. CASE User
  <2>1. CASE ChangeQuery \/ refreshData \/ paginate \/ Go BY <2>1, AskStep
  <2>2. CASE Reopen BY <2>2, ReopenStep
  <2>3. CASE abortFetchData BY <2>3, CutStep
  <2>. QED BY <1>1, <2>1, <2>2, <2>3 DEF User
<1>2. CASE Callback
  <2>1. CASE flushPendingMessages BY <2>1, FlushStep
  <2>2. CASE onopen BY <2>2, OnopenStep
  <2>3. CASE onmessage BY <2>3, OnmessageStep
  <2>4. CASE onclose BY <2>4, OncloseStep
  <2>. QED BY <1>2, <2>1, <2>2, <2>3, <2>4 DEF Callback
<1>3. CASE Retry BY <1>3, RetryStep
<1>4. CASE Serve
  <2>1. CASE Browse BY <2>1, BrowseStep
  <2>2. CASE Poll
    <3>1. PICK p \in Partitions, k \in 1..BatchMax :
            emitForward(p, k) \/ emitBackward(p, k) \/ emitTailing(p, k)
      BY <2>2 DEF Poll
    <3>2. /\ job.state = "reading"
          /\ UNCHANGED <<client, orphans, cursors, kafka, faults>>
      BY <2>2 DEF Poll
    <3>3. CASE emitForward(p, k) BY <3>2, <3>3, EmitForwardStep
    <3>4. CASE emitBackward(p, k) BY <3>2, <3>4, EmitBackwardStep
    <3>5. CASE emitTailing(p, k) BY <3>2, <3>5, EmitTailingStep
    <3>. QED BY <3>1, <3>3, <3>4, <3>5
  <2>3. CASE Finish BY <2>3, FinishStep
  <2>. QED BY <1>4, <2>1, <2>2, <2>3 DEF Serve
<1>5. CASE Environment
  <2>1. CASE onerror BY <2>1, CutStep
  <2>2. CASE PreStreamError BY <2>2, PreStreamErrorStep
  <2>3. CASE ReadError BY <2>3, ReadErrorStep
  <2>4. CASE EmptyPoll BY <2>4, EmptyPollStep
  <2>5. CASE OrphanEnds BY <2>5, OrphanStep
  <2>6. CASE Expire BY <2>6, ExpireStep
  <2>7. CASE Produce BY <2>7, ProduceStep
  <2>8. CASE Retain BY <2>8, RetainStep
  <2>. QED BY <1>5, <2>1, <2>2, <2>3, <2>4, <2>5, <2>6, <2>7, <2>8 DEF Environment
<1>. QED BY <1>1, <1>2, <1>3, <1>4, <1>5 DEF Next

\* The invariant holds throughout.
THEOREM BrowseInductive == Spec => []BrowseInv
<1>1. Init => BrowseInv BY BrowseInit
<1>2. BrowseInv /\ [Next]_vars => BrowseInv' BY BrowseNext, BrowseStutter
<1>. QED BY <1>1, <1>2, PTL DEF Spec

\* The invariant implies the types.
LEMMA InvTypes ==
  ASSUME BrowseInv
  PROVE  TypeOK
<1>1. /\ history \in Seq([q : Queries, cursor : Nat])
      /\ \A i \in DOMAIN history : history[i].cursor <= urls
      /\ visit \in DOMAIN history /\ urls \in 0..MaxUrls /\ faults \in 0..MaxFaults
      /\ stream \in [state : {"none", "sent", "open", "failed", "closed", "refused",
                              "retry"}, q : Queries, cursor : Ids]
      /\ isFetching \in BOOLEAN /\ prevCursor \in 0..MaxUrls
      /\ nextCursor \in Ids /\ wire \in Seq(Events)
  BY DEF BrowseInv, ClientShape
<1>2. MaxUrls \in Nat BY BrowseBounds
<1>3. ASSUME NEW i \in DOMAIN history
      PROVE  history[i] \in [q : Queries, cursor : 0..MaxUrls]
  <2>. DEFINE U == [q : Queries, cursor : Nat]
  <2>0. history \in Seq(U) BY <1>1
  <2>1. history[i] \in U /\ history[i].cursor <= urls
    <3>. HIDE DEF U
    <3>. QED BY <2>0, <1>1
  <2>2. history[i].cursor \in 0..MaxUrls BY <2>1, <1>1, <1>2
  <2>. QED BY <2>1, <2>2
<1>4. \A i \in DOMAIN wire :
        wire[i].type \in {"PHASE", "MESSAGE", "DONE", "CLOSE", "FAIL"}
  <2>1. wire \in Seq(Events) BY <1>1
  <2>2. \A i \in DOMAIN wire : wire[i] \in Events BY <2>1
  <2>. QED BY <2>2 DEF Events
<1>5. job.state \in {"none", "sent", "reading", "done", "ended"}
  BY DEF BrowseInv, JobInv, JobShape, NoJob, SentJobs, RunJobs
<1>6. \A p \in Partitions : 0 <= logStart[p] /\ logStart[p] <= logEnd[p]
                            /\ logEnd[p] <= Len(Log[p])
  <2>1. \A p \in Partitions : logStart[p] \in Nat /\ logStart[p] <= logEnd[p]
                              /\ logEnd[p] <= Len(Log[p])
    BY LogFacts DEF BrowseInv, ServerInv
  <2>. QED BY <2>1
<1>7. DOMAIN entries \subseteq DOMAIN issued /\ expired \subseteq DOMAIN issued
  BY DEF BrowseInv, ServerInv, CacheShape
<1>. QED BY <1>1, <1>3, <1>4, <1>5, <1>6, <1>7 DEF TypeOK, Ids

\* What the page shows comes in the order of its query.
LEMMA MessagesOrdered ==
  ASSUME BrowseInv, Answered
  PROVE  /\ Ran /\ job.q = Url.q /\ stream.q = Url.q
         /\ messages \in Seq(Records) /\ pending \in Seq(Records)
         /\ \A i, j \in DOMAIN messages :
              i < j => IF Url.q.mode = "TAILING" THEN Follows(job.q, messages[j], messages[i])
                       ELSE Follows(job.q, messages[i], messages[j])
<1>1. ClientShape /\ Protocol /\ Delivered BY DEF BrowseInv, LinkInv
<1>2. Ran BY <1>1 DEF Protocol, Answered, Ran
<1>3. job # NoJob BY <1>2 DEF Ran, NoJob
<1>4. job.q = Url.q /\ stream.q = Url.q BY <1>1, <1>3 DEF Protocol
<1>5. messages \in Seq(Records) /\ pending \in Seq(Records) BY <1>1 DEF ClientShape
<1>6. InArrivalOrder(IF job.q.mode = "TAILING" THEN Reverse(messages) ELSE messages)
  BY <1>1, <1>2 DEF Delivered
<1>7. CASE job.q.mode # "TAILING" BY <1>2, <1>4, <1>5, <1>6, <1>7 DEF InArrivalOrder
<1>8. CASE job.q.mode = "TAILING"
  <2>1. InArrivalOrder(Reverse(messages)) BY <1>6, <1>8
  <2>2. SUFFICES ASSUME NEW i \in DOMAIN messages, NEW j \in DOMAIN messages, i < j
                 PROVE  Follows(job.q, messages[j], messages[i])
    BY <1>2, <1>4, <1>5, <1>8
  <2>. DEFINE n == Len(messages)
              a == (n - j) + 1
              b == (n - i) + 1
  <2>3. n \in Nat /\ i \in 1..n /\ j \in 1..n BY <1>5
  <2>4. /\ DOMAIN Reverse(messages) = 1..n
        /\ \A k \in 1..n : Reverse(messages)[k] = messages[(n - k) + 1]
    BY DEF Reverse
  <2>. HIDE DEF n
  <2>5. a \in 1..n /\ b \in 1..n /\ a < b /\ (n - a) + 1 = j /\ (n - b) + 1 = i
    BY <2>2, <2>3
  <2>. HIDE DEF a, b
  <2>6. Follows(job.q, Reverse(messages)[a], Reverse(messages)[b])
    BY <2>1, <2>4, <2>5 DEF InArrivalOrder
  <2>. QED BY <2>4, <2>5, <2>6
<1>. QED BY <1>7, <1>8

\* No message follows itself.
LEMMA FollowsStrict ==
  ASSUME NEW q, NEW r \in Records
  PROVE  ~Follows(q, r, r)
<1>1. r[2] \in Nat BY DEF Records
<1>. QED BY <1>1 DEF Follows

\* The list on the page is what was read for its address, in order.
LEMMA InvShown ==
  ASSUME BrowseInv
  PROVE  ShownIsOwn /\ ShownInOrder
<1>1. SUFFICES ASSUME Answered PROVE ShownIsOwn /\ ShownInOrder
  BY DEF ShownIsOwn, ShownInOrder
<1>2. /\ Ran /\ job.q = Url.q /\ stream.q = Url.q
      /\ messages \in Seq(Records) /\ pending \in Seq(Records)
      /\ \A i, j \in DOMAIN messages :
              i < j => IF Url.q.mode = "TAILING" THEN Follows(job.q, messages[j], messages[i])
                       ELSE Follows(job.q, messages[i], messages[j])
  BY <1>1, MessagesOrdered
<1>3. /\ Answer = Arrived \cup Incoming
      /\ \A i, j \in OnWire : i < j => Follows(job.q, wire[i].message, wire[j].message)
      /\ \A r \in Arrived, s \in Incoming : Follows(job.q, r, s)
      /\ InArrivalOrder(pending)
      /\ \A r \in Range(messages), s \in Range(pending) : Follows(job.q, r, s)
  BY <1>1, <1>2 DEF BrowseInv, LinkInv, Delivered
<1>4. Arrived = Range(messages) \cup Range(pending) BY <1>1 DEF Arrived
<1>. DEFINE n == Len(messages)
            k == Len(pending)
            shown == messages \o pending
<1>5. /\ n \in Nat /\ k \in Nat /\ Len(shown) = n + k
      /\ \A i \in 1..(n + k) : shown[i] = IF i <= n THEN messages[i] ELSE pending[i - n]
      /\ DOMAIN messages = 1..n /\ DOMAIN pending = 1..k /\ DOMAIN shown = 1..(n + k)
  <2>1. n \in Nat /\ k \in Nat /\ DOMAIN messages = 1..n /\ DOMAIN pending = 1..k
    BY <1>2, LenProperties
  <2>2. shown \in Seq(Records) /\ Len(shown) = n + k
    BY <1>2, ConcatProperties, LenProperties
  <2>3. \A i \in 1..(n + k) : shown[i] = IF i <= n THEN messages[i] ELSE pending[i - n]
    BY <1>2, ConcatProperties, LenProperties
  <2>4. DOMAIN shown = 1..(n + k) BY <2>2, LenProperties
  <2>. QED BY <2>1, <2>2, <2>3, <2>4
<1>6. /\ \A i \in 1..n : messages[i] \in Range(messages) /\ messages[i] \in Records
      /\ \A i \in 1..k : pending[i] \in Range(pending) /\ pending[i] \in Records
  BY <1>2, <1>5 DEF Range
<1>. HIDE DEF n, k, shown
<1>7. /\ \A i \in 1..n : i \in 1..(n + k) /\ shown[i] = messages[i]
      /\ \A j \in 1..k : n + j \in 1..(n + k) /\ shown[n + j] = pending[j]
      /\ \A i \in 1..(n + k) : \/ i \in 1..n
                               \/ i - n \in 1..k /\ i > n /\ shown[i] = pending[i - n]
  <2>1. \A i \in 1..n : i \in 1..(n + k) /\ i <= n BY <1>5
  <2>2. \A j \in 1..k : n + j \in 1..(n + k) /\ ~(n + j <= n) /\ (n + j) - n = j BY <1>5
  <2>3. \A i \in 1..(n + k) : i \in 1..n \/ (i - n \in 1..k /\ i > n /\ ~(i <= n)) BY <1>5
  <2>. QED BY <2>1, <2>2, <2>3, <1>5
<1>8. Range(shown) = Arrived
  <2>1. Range(shown) \subseteq Arrived BY <1>4, <1>5, <1>6, <1>7 DEF Range
  <2>2. ASSUME NEW x \in Range(messages) PROVE x \in Range(shown)
    BY <1>5, <1>7 DEF Range
  <2>3. ASSUME NEW x \in Range(pending) PROVE x \in Range(shown)
    BY <1>5, <1>7 DEF Range
  <2>. QED BY <2>1, <2>2, <2>3, <1>4
\* Of two messages that arrived, one follows the other.
<1>9. ASSUME NEW i \in 1..(n + k), NEW j \in 1..(n + k), i < j
      PROVE  shown[i] # shown[j]
  <2>1. CASE j \in 1..n
    <3>1. i \in 1..n BY <2>1, <1>9, <1>5
    <3>2. shown[i] = messages[i] /\ shown[j] = messages[j] BY <2>1, <3>1, <1>7
    <3>3. \/ Follows(job.q, messages[j], messages[i])
          \/ Follows(job.q, messages[i], messages[j])
      BY <2>1, <3>1, <1>2, <1>5, <1>9
    <3>. QED BY <2>1, <3>1, <3>2, <3>3, <1>6, FollowsStrict
  <2>2. CASE j - n \in 1..k /\ shown[j] = pending[j - n]
    <3>1. CASE i \in 1..n
      <4>1. shown[i] = messages[i] BY <3>1, <1>7
      <4>2. Follows(job.q, messages[i], pending[j - n]) BY <2>2, <3>1, <1>3, <1>6
      <4>. QED BY <2>2, <3>1, <4>1, <4>2, <1>6, FollowsStrict
    <3>2. CASE i - n \in 1..k /\ shown[i] = pending[i - n]
      <4>1. i - n < j - n BY <1>5, <1>9
      <4>2. Follows(job.q, pending[i - n], pending[j - n])
        BY <2>2, <3>2, <4>1, <1>3, <1>5 DEF InArrivalOrder
      <4>. QED BY <2>2, <3>2, <4>2, <1>6, FollowsStrict
    <3>. QED BY <3>1, <3>2, <1>7
  <2>. QED BY <2>1, <2>2, <1>7
<1>10. IsInjective(shown)
  <2>1. SUFFICES ASSUME NEW i \in 1..(n + k), NEW j \in 1..(n + k), shown[i] = shown[j]
                 PROVE  i = j
    BY <1>5 DEF IsInjective
  <2>2. ~(i < j) /\ ~(j < i) BY <2>1, <1>9
  <2>. QED BY <2>2, <1>5
<1>11. \A i \in OnWire : wire[i].message \in Records /\ wire[i].message \in Incoming
  BY DEF BrowseInv, ClientShape, OnWire, Incoming
<1>12. ASSUME NEW i \in OnWire
       PROVE  /\ wire[i].message \notin Range(shown)
              /\ \A j \in OnWire : wire[i].message = wire[j].message => i = j
  <2>1. wire[i].message \notin Arrived BY <1>3, <1>11, FollowsStrict
  <2>2. ASSUME NEW j \in OnWire, wire[i].message = wire[j].message PROVE i = j
    <3>1. ~(i < j) /\ ~(j < i) BY <2>2, <1>3, <1>11, FollowsStrict
    <3>2. i \in Nat /\ j \in Nat
      <4>1. wire \in Seq(Events) BY DEF BrowseInv, ClientShape
      <4>2. DOMAIN wire \subseteq Nat BY <4>1
      <4>. QED BY <4>2 DEF OnWire
    <3>. QED BY <3>1, <3>2
  <2>. QED BY <2>1, <2>2, <1>8
<1>13. ShownIsOwn
  <2>1. Answer = Range(shown) \cup {wire[i].message : i \in OnWire}
    BY <1>3, <1>8 DEF Incoming
  <2>. QED BY <1>2, <1>10, <1>12, <2>1 DEF ShownIsOwn, shown
<1>14. ShownInOrder
  <2>1. SUFFICES ASSUME NEW i \in DOMAIN messages, NEW j \in DOMAIN messages,
                        i < j, messages[i][1] = messages[j][1]
                 PROVE  IF Url.q.mode \in Forward THEN messages[i][2] < messages[j][2]
                        ELSE messages[i][2] > messages[j][2]
    BY <1>1 DEF ShownInOrder
  <2>2. messages[i][2] \in Nat /\ messages[j][2] \in Nat
    <3>1. messages[i] \in Records /\ messages[j] \in Records BY <1>2
    <3>. QED BY <3>1 DEF Records
  <2>3. Url.q.mode \in Forward \cup Backward \cup {"TAILING"}
    <3>1. Url.q \in Queries BY HistoryFacts DEF Urls
    <3>. QED BY <3>1, BrowseQueries
  <2>4. CASE Url.q.mode = "TAILING"
    <3>1. Follows(job.q, messages[j], messages[i]) BY <1>2, <2>1, <2>4
    <3>2. Url.q.mode \notin Forward /\ Url.q.mode \notin Backward
      BY <2>4 DEF Forward, Backward
    <3>. QED BY <1>2, <2>1, <2>2, <3>1, <3>2 DEF Follows
  <2>5. CASE Url.q.mode # "TAILING"
    <3>1. Follows(job.q, messages[i], messages[j]) BY <1>2, <2>1, <2>5
    <3>2. Url.q.mode \in Forward <=> Url.q.mode \notin Backward
      BY <2>3, <2>5 DEF Forward, Backward
    <3>. QED BY <1>2, <2>1, <2>2, <3>1, <3>2 DEF Follows
  <2>. QED BY <2>4, <2>5
<1>. QED BY <1>13, <1>14

\* No record is read twice in a chain of pages.
LEMMA InvNoRepeat ==
  ASSUME BrowseInv
  PROVE  NoRepeat
<1>1. SUFFICES ASSUME Paging, NEW m \in job.merged, m \in job.old PROVE FALSE
  BY DEF NoRepeat
<1>2. JobInv /\ LogShape /\ Ran BY <1>1 DEF BrowseInv, ServerInv, Paging, Ran
<1>3. /\ m[1] \in Partitions /\ m[2] \in Nat
      /\ job.starts[m[1]] \in Nat /\ job.ends[m[1]] \in Nat
      /\ job.starts[m[1]] <= m[2]
      /\ job.q.mode \in Backward => m[2] < job.ends[m[1]]
      /\ job.q \in Queries
  BY <1>1, <1>2, RunFacts
<1>4. job.q.mode \in Forward \/ job.q.mode \in Backward
  BY <1>1, <1>3, BrowseQueries DEF Paging
<1>5. CASE job.q.mode \in Forward
  <2>1. ForwardJob BY <1>2, <1>5 DEF JobInv, JobRead
  <2>2. m[2] < job.starts[m[1]] BY <1>1, <2>1 DEF ForwardJob
  <2>. QED BY <2>2, <1>3
<1>6. CASE job.q.mode \in Backward
  <2>1. BackwardJob BY <1>2, <1>6 DEF JobInv, JobRead
  <2>2. job.starts[m[1]] = job.ends[m[1]] \/ job.ends[m[1]] <= m[2]
    BY <1>1, <1>3, <2>1 DEF BackwardJob
  <2>. QED BY <2>2, <1>3, <1>6
<1>. QED BY <1>4, <1>5, <1>6

\* No retained record is left out of a chain of pages.
LEMMA InvNoSkip ==
  ASSUME BrowseInv
  PROVE  NoSkip
<1>1. SUFFICES ASSUME Paging, NEW p \in Partitions
               PROVE Pairs(p, IF job.q.mode \in Forward
                     THEN Retained(p, job.chain.from[p], job.pos[p])
                     ELSE IF job.state = "done" /\ ~job.chain.hole
                     THEN Retained(p, NextOf(p), job.chain.from[p])
                     ELSE {})
                \subseteq job.chain.covered
  BY DEF NoSkip
<1>2. JobInv /\ LogShape /\ Ran BY <1>1 DEF BrowseInv, ServerInv, Paging, Ran
<1>3. CASE job.q.mode \in Forward
  <2>1. RetainedRead(job.chain.covered, p, job.chain.from[p], job.pos[p])
    BY <1>2, <1>3 DEF JobInv, JobRead, ForwardJob
  <2>. QED BY <2>1, <1>3 DEF RetainedRead, Pairs
<1>4. CASE job.q.mode \notin Forward
  <2>1. job.q.mode \in Backward
    <3>1. job.q \in Queries BY <1>2, RunFacts
    <3>. QED BY <3>1, <1>1, <1>4, BrowseQueries DEF Paging
  <2>2. CASE job.state = "done" /\ ~job.chain.hole
    <3>1. BackwardDone BY <1>2, <2>1, <2>2 DEF JobInv, JobRead, BackwardJob, BackwardDone
    <3>2. RetainedRead(job.chain.covered, p, NextOf(p), job.chain.from[p])
      BY <1>2, <2>1, <2>2, <3>1, BackwardComplete
    <3>. QED BY <1>4, <2>2, <3>2 DEF RetainedRead, Pairs
  <2>3. CASE ~(job.state = "done" /\ ~job.chain.hole) BY <1>4, <2>3 DEF Pairs
  <2>. QED BY <2>2, <2>3
<1>. QED BY <1>3, <1>4

\* The budgets of a backward page use up what there is.
LEMMA InvBudgets ==
  ASSUME BrowseInv
  PROVE  BudgetsExact
<1>1. SUFFICES ASSUME NEW limit \in 1..6, NEW end \in DOMAIN PageBudgets
               PROVE  LET capacity == [p \in Partitions |->
                            clampOffset(end[p], logStart[p], logEnd[p]) - logStart[p]]
                          budget == BudgetTable[limit][capacity]
                      IN /\ Total(budget) = Min({limit, Total(capacity)})
                         /\ \A p \in Partitions : budget[p] <= capacity[p]
  BY DEF BudgetsExact, BudgetTable
<1>. DEFINE capacity == [p \in Partitions |->
                            clampOffset(end[p], logStart[p], logEnd[p]) - logStart[p]]
<1>2. end \in [Partitions -> 0..Max({Len(Log[p]) : p \in Partitions})]
  BY <1>1 DEF PageBudgets, backwardBudgets
<1>3. ASSUME NEW p \in Partitions
      PROVE  capacity[p] \in Nat /\ capacity[p] <= Len(Log[p])
  <2>1. Max({Len(Log[x]) : x \in Partitions}) \in Nat BY LongestFacts
  <2>2. end[p] \in Nat BY <1>2, <2>1
  <2>3. /\ logStart[p] \in Nat /\ logEnd[p] \in Nat /\ Len(Log[p]) \in Nat
        /\ logStart[p] <= logEnd[p] /\ logEnd[p] <= Len(Log[p])
    BY LogFacts DEF BrowseInv, ServerInv
  <2>4. clampOffset(end[p], logStart[p], logEnd[p]) \in logStart[p]..logEnd[p]
    BY <2>2, <2>3, ClampFacts
  <2>. QED BY <2>3, <2>4
<1>4. capacity \in Offs BY <1>3 DEF Offs
<1>5. BudgetTable[limit] = backwardBudgets(limit) /\ limit \in Nat BY DEF BudgetTable
<1>. HIDE DEF capacity
<1>. DEFINE budget == BudgetTable[limit][capacity]
<1>6. /\ \A p \in Partitions : budget[p] <= capacity[p]
      /\ Total(budget) = Min({limit, Total(capacity)})
  BY <1>3, <1>4, <1>5, PageBudgetFacts
<1>. QED BY <1>6 DEF capacity

\* In every behaviour the list of the message page, with what waits for a
\* frame and what is on its way, is what the server read for the address shown,
\* each message once and in order (topicMessages.tsx, message.go).
THEOREM PageShowsWhatWasRead == Spec => []ShownAsRead
<1>1. BrowseInv => ShownAsRead BY InvTypes, InvShown DEF ShownAsRead
<1>. QED BY <1>1, BrowseInductive, PTL

\* In every behaviour following Next through a topic neither repeats nor
\* skips a record, whatever is produced, removed or evicted meanwhile; the budgets
\* of a backward page are exact and the cursor cache keeps within its capacity
\* (emitter.go, cursor.go).
THEOREM PagingIsExact == Spec => []PagesExact
<1>1. BrowseInv => CacheConsistent BY DEF BrowseInv, ServerInv
<1>2. BrowseInv => PagesExact
  BY <1>1, InvNoRepeat, InvNoSkip, InvBudgets DEF PagesExact
<1>. QED BY <1>2, BrowseInductive, PTL

----------------------------------------------------------------------------
(* The pool of message readers *)

\* What a session holds at each place it can be.
SessionShape ==
    \A s \in Sessions :
        /\ pc[s] # "none" => key[s] \in Keys /\ def[s] \in Conns
        /\ cl[s] # Nil <=> pc[s] \in {"open", "paused"}

\* The generation of a cluster, once a session has recorded it, moves with the
\* invalidations.
GenerationTracks ==
    \A s \in Sessions : pc[s] \in {"build", "open", "paused"} =>
        /\ gens[key[s].name] # Nil
        /\ gens[key[s].name] + since[s] = flushes[key[s].name] + gen[s]

\* The inductive invariant.
IInv ==
    /\ PoolTypeOK /\ SessionShape
    /\ ExclusiveLease /\ NoLeakNoUseAfterClose
    /\ IsFiniteSet(Slots(idle, Keys)) /\ BoundedIdle
    /\ GenerationTracks /\ GenerationFences

----------------------------------------------------------------------------
(* Sequences of clients *)

\* A client added at the end of a sequence takes the next place.
LEMMA Appended ==
    ASSUME NEW q \in Seq(Clients), NEW c \in Clients
    PROVE  /\ Append(q, c) \in Seq(Clients)
           /\ ToSet(Append(q, c)) = ToSet(q) \cup {c}
           /\ DOMAIN Append(q, c) = DOMAIN q \cup {Len(q) + 1}
           /\ Len(q) + 1 \notin DOMAIN q
           /\ IsInjective(q) /\ c \notin ToSet(q) => IsInjective(Append(q, c))
<1>1. /\ Append(q, c) \in Seq(Clients) /\ Len(q) \in Nat
      /\ Len(Append(q, c)) = Len(q) + 1
      /\ \A i \in 1..Len(q) : Append(q, c)[i] = q[i]
      /\ Append(q, c)[Len(q) + 1] = c
  OBVIOUS
<1>2. DOMAIN q = 1..Len(q) /\ DOMAIN Append(q, c) = 1..(Len(q) + 1)
  BY <1>1
<1>3. ToSet(Append(q, c)) = ToSet(q) \cup {c}
  BY <1>1, <1>2, SMT DEF ToSet
<1>4. ASSUME IsInjective(q), c \notin ToSet(q)
      PROVE  IsInjective(Append(q, c))
  BY <1>1, <1>2, <1>4, SMT DEF ToSet, IsInjective
<1> QED
  BY <1>1, <1>2, <1>3, <1>4

\* The last client taken off a sequence without repetition is gone from it.
LEMMA Popped ==
    ASSUME NEW q \in Seq(Clients), q # <<>>
    PROVE  /\ Front(q) \in Seq(Clients)
           /\ Last(q) \in Clients /\ Last(q) \in ToSet(q)
           /\ ToSet(Front(q)) \subseteq ToSet(q)
           /\ DOMAIN Front(q) = DOMAIN q \ {Len(q)}
           /\ Len(q) \in DOMAIN q
           /\ IsInjective(q) => /\ ToSet(Front(q)) = ToSet(q) \ {Last(q)}
                                /\ IsInjective(Front(q))
<1>1. Len(q) \in Nat /\ Len(q) > 0 /\ DOMAIN q = 1..Len(q)
  OBVIOUS
<1>2. /\ Front(q) \in Seq(Clients) /\ Len(Front(q)) = Len(q) - 1
      /\ \A i \in 1..(Len(q) - 1) : Front(q)[i] = q[i]
  BY <1>1 DEF Front
<1>3. DOMAIN Front(q) = 1..(Len(q) - 1)
  BY <1>2
<1>4. Last(q) \in Clients /\ Last(q) \in ToSet(q)
  BY <1>1 DEF Last, ToSet
<1>5. ToSet(Front(q)) \subseteq ToSet(q)
  BY <1>1, <1>2, <1>3 DEF ToSet
<1>6. ASSUME IsInjective(q)
      PROVE  /\ ToSet(Front(q)) = ToSet(q) \ {Last(q)}
             /\ IsInjective(Front(q))
  <2>1. \A i \in 1..(Len(q) - 1) : q[i] # Last(q)
    BY <1>1, <1>6 DEF IsInjective, Last
  <2>2. \A c \in ToSet(q) : c # Last(q) => c \in ToSet(Front(q))
    BY <1>1, <1>2, <1>3 DEF ToSet, Last
  <2>3. \A c \in ToSet(Front(q)) : c # Last(q)
    BY <1>2, <1>3, <2>1 DEF ToSet
  <2>4. IsInjective(Front(q))
    BY <1>1, <1>2, <1>3, <1>6 DEF IsInjective
  <2> QED
    BY <1>5, <2>2, <2>3, <2>4
<1> QED
  BY <1>1, <1>2, <1>3, <1>4, <1>5, <1>6

----------------------------------------------------------------------------
(* Places of the pool *)

\* S has one place per key of K and position among its readers.
Places(readers, K, S) ==
    /\ \A p \in S : \E k \in K : \E i \in DOMAIN readers[k] : p = <<k, i>>
    /\ \A k, i : <<k, i>> \in S <=> k \in K /\ i \in DOMAIN readers[k]

LEMMA SlotsArePlaces ==
    ASSUME NEW q, NEW K
    PROVE  Places(q, K, Slots(q, K))
<1>1. ASSUME NEW p \in Slots(q, K)
      PROVE  \E k \in K : \E i \in DOMAIN q[k] : p = <<k, i>>
  <2>1. PICK k \in K : p \in {k} \X DOMAIN q[k]
    BY DEF Slots
  <2>2. PICK i \in DOMAIN q[k] : p = <<k, i>>
    BY <2>1
  <2> QED
    BY <2>2
<1>2. ASSUME NEW k \in K, NEW i \in DOMAIN q[k]
      PROVE  <<k, i>> \in Slots(q, K)
  <2>1. <<k, i>> \in {k} \X DOMAIN q[k]
    OBVIOUS
  <2> QED
    BY <2>1, Zenon DEF Slots
<1>3. ASSUME NEW k, NEW i, <<k, i>> \in Slots(q, K)
      PROVE  k \in K /\ i \in DOMAIN q[k]
  BY <1>1, <1>3
<1> QED
  BY <1>1, <1>2, <1>3 DEF Places

\* One more position of k is one more place.
LEMMA PlaceTaken ==
    ASSUME NEW q, NEW r, NEW S, NEW T, Places(q, Keys, S), Places(r, Keys, T),
           NEW k \in Keys, NEW n, DOMAIN r[k] = DOMAIN q[k] \cup {n},
           \A j \in Keys : j # k => r[j] = q[j]
    PROVE  T = S \cup {<<k, n>>}
<1>1. T \subseteq S \cup {<<k, n>>}
  BY SMT DEF Places
<1>2. S \subseteq T
  BY SMT DEF Places
<1>3. <<k, n>> \in T
  BY SMT DEF Places
<1> QED
  BY <1>1, <1>2, <1>3

\* One position of k less is one place less.
LEMMA PlaceFreed ==
    ASSUME NEW q, NEW r, NEW S, NEW T, Places(q, Keys, S), Places(r, Keys, T),
           NEW k \in Keys, NEW n, DOMAIN r[k] = DOMAIN q[k] \ {n},
           \A j \in Keys : j # k => r[j] = q[j]
    PROVE  T = S \ {<<k, n>>}
<1>1. T \subseteq S \ {<<k, n>>}
  BY SMT DEF Places
<1>2. S \ {<<k, n>>} \subseteq T
  BY SMT DEF Places
<1> QED
  BY <1>1, <1>2

\* One more client kept is one more place.
LEMMA SlotsGrow ==
    ASSUME NEW q, NEW r, NEW k \in Keys, NEW n, IsFiniteSet(Slots(q, Keys)),
           DOMAIN r[k] = DOMAIN q[k] \cup {n}, n \notin DOMAIN q[k],
           \A j \in Keys : j # k => r[j] = q[j]
    PROVE  /\ IsFiniteSet(Slots(r, Keys))
           /\ Cardinality(Slots(r, Keys)) = Cardinality(Slots(q, Keys)) + 1
<1>1. Places(q, Keys, Slots(q, Keys)) /\ Places(r, Keys, Slots(r, Keys))
  BY SlotsArePlaces
<1>2. Slots(r, Keys) = Slots(q, Keys) \cup {<<k, n>>}
  BY <1>1, PlaceTaken
<1>3. <<k, n>> \notin Slots(q, Keys)
  BY <1>1 DEF Places
<1>4. /\ IsFiniteSet(Slots(q, Keys) \cup {<<k, n>>})
      /\ Cardinality(Slots(q, Keys) \cup {<<k, n>>}) = Cardinality(Slots(q, Keys)) + 1
  BY <1>3, FS_AddElement
<1> QED
  BY <1>2, <1>4

\* One client leased is one place less.
LEMMA SlotsShrink ==
    ASSUME NEW q, NEW r, NEW k \in Keys, NEW n, IsFiniteSet(Slots(q, Keys)),
           DOMAIN r[k] = DOMAIN q[k] \ {n}, n \in DOMAIN q[k],
           \A j \in Keys : j # k => r[j] = q[j]
    PROVE  /\ IsFiniteSet(Slots(r, Keys))
           /\ Cardinality(Slots(r, Keys)) = Cardinality(Slots(q, Keys)) - 1
           /\ Cardinality(Slots(r, Keys)) \in Nat
<1>1. Places(q, Keys, Slots(q, Keys)) /\ Places(r, Keys, Slots(r, Keys))
  BY SlotsArePlaces
<1>2. Slots(r, Keys) = Slots(q, Keys) \ {<<k, n>>}
  BY <1>1, PlaceFreed
<1>3. <<k, n>> \in Slots(q, Keys)
  BY <1>1 DEF Places
<1>4. /\ IsFiniteSet(Slots(q, Keys) \ {<<k, n>>})
      /\ Cardinality(Slots(q, Keys) \ {<<k, n>>}) = Cardinality(Slots(q, Keys)) - 1
  BY <1>3, FS_RemoveElement
<1> QED
  BY <1>2, <1>4, FS_CardinalityType

\* The places of q are those of the keys of n and those that are left of r.
LEMMA PlacesSplit ==
    ASSUME NEW q, NEW r, NEW n, NEW S, NEW N, NEW R,
           Places(q, Keys, S), Places(q, KeysOf(n), N), Places(r, Keys, R),
           \A k \in Keys : IF k.name = n THEN DOMAIN r[k] = {} ELSE r[k] = q[k]
    PROVE  N \cup R = S /\ N \cap R = {}
<1>1. S \subseteq N \cup R
  BY SMT DEF Places, KeysOf
<1>2. N \subseteq S
  BY SMT DEF Places, KeysOf
<1>3. R \subseteq S
  BY SMT DEF Places
<1>4. N \cap R = {}
  BY SMT DEF Places, KeysOf
<1> QED
  BY <1>1, <1>2, <1>3, <1>4

\* Taking out the readers of n, the pool loses exactly their places.
LEMMA SlotsWithout ==
    ASSUME NEW q \in [Keys -> Seq(Clients)], IsFiniteSet(Slots(q, Keys)),
           NEW n \in Names,
           NEW r, r = [k \in Keys |-> IF k.name = n THEN <<>> ELSE q[k]]
    PROVE  /\ IsFiniteSet(Slots(r, Keys))
           /\ Cardinality(Slots(r, Keys))
                = Cardinality(Slots(q, Keys)) - Cardinality(Slots(q, KeysOf(n)))
           /\ Cardinality(Slots(r, Keys)) \in Nat
           /\ Cardinality(Slots(r, Keys)) <= Cardinality(Slots(q, Keys))
<1> DEFINE S == Slots(q, Keys)
           N == Slots(q, KeysOf(n))
           R == Slots(r, Keys)
<1>1. \A k \in Keys : IF k.name = n THEN DOMAIN r[k] = {} ELSE r[k] = q[k]
  OBVIOUS
<1>2. Places(q, Keys, S) /\ Places(q, KeysOf(n), N) /\ Places(r, Keys, R)
  BY SlotsArePlaces
<1>3. IsFiniteSet(S)
  OBVIOUS
<1> HIDE DEF S, N, R
<1>4. N \cup R = S /\ N \cap R = {}
  BY <1>1, <1>2, PlacesSplit
<1>5. IsFiniteSet(N) /\ IsFiniteSet(R)
  BY <1>3, <1>4, FS_Subset
<1>6. /\ Cardinality(N) \in Nat /\ Cardinality(R) \in Nat
      /\ Cardinality({}) = 0
  BY <1>5, FS_CardinalityType, FS_EmptySet
<1>7. Cardinality(N \cup R) = Cardinality(N) + Cardinality(R) - Cardinality(N \cap R)
  BY <1>5, FS_Union
<1>8. /\ Cardinality(N \cup R) = Cardinality(S)
      /\ Cardinality(N \cap R) = Cardinality({})
  BY <1>4, Zenon
<1> QED
  BY <1>5, <1>6, <1>7, <1>8 DEF S, N, R

----------------------------------------------------------------------------
(* The steps *)

\* What the pool promises, as long as a step leaves the pool and the leases
\* alone.
LEMMA PoolKept ==
    ASSUME IInv, UNCHANGED <<idle, count, conn, cl, flushes, born>>
    PROVE  /\ ExclusiveLease' /\ NoLeakNoUseAfterClose'
           /\ IsFiniteSet(Slots(idle, Keys))' /\ BoundedIdle'
           /\ GenerationFences'
BY DEF IInv, ExclusiveLease, NoLeakNoUseAfterClose, Leased, IdleClients,
       BoundedIdle, GenerationFences

LEMMA InitStep == PoolInit => IInv
<1> SUFFICES ASSUME PoolInit PROVE IInv
  OBVIOUS
<1> USE ReaderPoolAssumption DEF PoolInit
<1>1. PoolTypeOK
  BY DEF PoolTypeOK
<1>2. SessionShape
  BY DEF SessionShape
<1>3. IdleClients = {} /\ Leased = {}
  BY DEF IdleClients, Leased, ToSet
<1>4. ExclusiveLease
  BY <1>3 DEF ExclusiveLease, IsInjective, ToSet
<1>5. NoLeakNoUseAfterClose
  BY <1>3 DEF NoLeakNoUseAfterClose
<1>6. Slots(idle, Keys) = {}
  BY SlotsArePlaces DEF Places
<1>7. IsFiniteSet(Slots(idle, Keys)) /\ Cardinality(Slots(idle, Keys)) = 0
  BY <1>6, FS_EmptySet, Zenon
<1>8. GenerationTracks /\ GenerationFences
  BY DEF GenerationTracks, GenerationFences, ToSet
<1> QED
  BY <1>1, <1>2, <1>4, <1>5, <1>7, <1>8 DEF IInv, BoundedIdle

LEMMA LookupStep ==
    ASSUME IInv, NEW s \in Sessions, NEW k \in Keys, Lookup(s, k)
    PROVE  IInv'
<1> USE ReaderPoolAssumption DEF Lookup, poolVars
<1>1. PoolTypeOK'
  BY DEF IInv, PoolTypeOK
<1>2. SessionShape'
  BY DEF IInv, PoolTypeOK, SessionShape
<1>3. GenerationTracks'
  BY DEF IInv, PoolTypeOK, GenerationTracks
<1> QED
  BY <1>1, <1>2, <1>3, PoolKept DEF IInv

LEMMA PollFailsStep ==
    ASSUME IInv, NEW s \in Sessions, PollFails(s) \/ Pause(s)
    PROVE  IInv'
<1> USE ReaderPoolAssumption DEF PollFails, Pause, poolVars
<1>1. PoolTypeOK'
  BY DEF IInv, PoolTypeOK
<1>2. SessionShape'
  BY DEF IInv, PoolTypeOK, SessionShape
<1>3. GenerationTracks'
  BY DEF IInv, PoolTypeOK, GenerationTracks
<1> QED
  BY <1>1, <1>2, <1>3, PoolKept DEF IInv

LEMMA ReplaceStep ==
    ASSUME IInv, NEW n \in Names, NEW d \in Conns, Replace(n, d)
    PROVE  IInv'
<1> USE DEF Replace, poolVars, sessionVars
<1>1. PoolTypeOK'
  BY DEF IInv, PoolTypeOK
<1>2. SessionShape' /\ GenerationTracks'
  BY DEF IInv, SessionShape, GenerationTracks
<1> QED
  BY <1>1, <1>2, PoolKept DEF IInv

LEMMA NoneIdleStep ==
    ASSUME IInv, NEW s \in Sessions, NoneIdle(s)
    PROVE  IInv'
<1> USE ReaderPoolAssumption DEF NoneIdle, RecordGeneration, Generation
<1>1. key[s] \in Keys /\ key[s].name \in Names
  BY DEF IInv, SessionShape
<1>2. PoolTypeOK'
  BY <1>1 DEF IInv, PoolTypeOK
<1>3. SessionShape'
  BY DEF IInv, PoolTypeOK, SessionShape
<1>4. GenerationTracks'
  BY <1>1 DEF IInv, PoolTypeOK, SessionShape, GenerationTracks
<1> QED
  BY <1>2, <1>3, <1>4, PoolKept DEF IInv

LEMMA BuildStep ==
    ASSUME IInv, NEW s \in Sessions, Build(s)
    PROVE  IInv'
<1> USE ReaderPoolAssumption DEF Build
<1>1. PICK c \in Clients : /\ conn[c] = Nil
                           /\ conn' = [conn EXCEPT ![c] = def[s]]
                           /\ cl' = [cl EXCEPT ![s] = c]
  OBVIOUS
<1>2. /\ cl[s] = Nil /\ def[s] \in Conns /\ c # Nil
      /\ c \notin Leased /\ c \notin IdleClients
  BY <1>1 DEF IInv, PoolTypeOK, SessionShape, NoLeakNoUseAfterClose
<1>3. Leased' = Leased \cup {c} /\ IdleClients' = IdleClients
  BY <1>1, <1>2 DEF IInv, PoolTypeOK, Leased, IdleClients
<1>4. PoolTypeOK'
  BY <1>1, <1>2 DEF IInv, PoolTypeOK
<1>5. SessionShape'
  BY <1>1, <1>2 DEF IInv, PoolTypeOK, SessionShape
<1>6. ExclusiveLease'
  BY <1>1, <1>2, <1>3 DEF IInv, PoolTypeOK, ExclusiveLease, Leased
<1>7. NoLeakNoUseAfterClose'
  BY <1>1, <1>2, <1>3 DEF IInv, PoolTypeOK, NoLeakNoUseAfterClose
<1>8. GenerationTracks'
  BY DEF IInv, PoolTypeOK, SessionShape, GenerationTracks
<1>9. /\ IsFiniteSet(Slots(idle, Keys))' /\ BoundedIdle' /\ GenerationFences'
  BY DEF IInv, BoundedIdle, GenerationFences
<1> QED
  BY <1>4, <1>5, <1>6, <1>7, <1>8, <1>9 DEF IInv

\* A session without a client ends.
LEMMA BuildFailsStep ==
    ASSUME IInv, NEW s \in Sessions, BuildFails(s)
    PROVE  IInv'
<1> USE ReaderPoolAssumption DEF BuildFails, End, poolVars
<1>1. cl' = cl
  BY DEF IInv, PoolTypeOK, SessionShape
<1>2. PoolTypeOK'
  BY DEF IInv, PoolTypeOK
<1>3. SessionShape'
  BY DEF IInv, PoolTypeOK, SessionShape
<1>4. GenerationTracks'
  BY DEF IInv, PoolTypeOK, GenerationTracks
<1> QED
  BY <1>1, <1>2, <1>3, <1>4, PoolKept DEF IInv

\* What ending a session that has a client does to the leases.
LEMMA LeaseEnds ==
    ASSUME PoolTypeOK, SessionShape, ExclusiveLease, NEW s \in Sessions,
           cl[s] # Nil, End(s)
    PROVE  /\ cl[s] \in Clients /\ cl[s] \in Leased
           /\ cl[s] \notin IdleClients
           /\ Leased' = Leased \ {cl[s]}
           /\ \A t \in Sessions : t # s => cl'[t] = cl[t]
           /\ cl'[s] = Nil
           /\ \A k \in Keys : cl[s] \notin ToSet(idle[k])
<1>1. /\ cl[s] \in Clients /\ cl[s] \in Leased
      /\ cl[s] \notin IdleClients
  BY DEF PoolTypeOK, Leased, ExclusiveLease
<1>2. /\ \A t \in Sessions : t # s => cl'[t] = cl[t]
      /\ cl'[s] = Nil
  BY DEF End, PoolTypeOK
<1>3. Leased' = Leased \ {cl[s]}
  BY <1>2 DEF Leased, ExclusiveLease
<1>4. \A k \in Keys : ToSet(idle[k]) \subseteq IdleClients
  BY DEF IdleClients
<1> QED
  BY <1>1, <1>2, <1>3, <1>4

LEMMA CloseBrokenStep ==
    ASSUME IInv, NEW s \in Sessions, CloseBroken(s)
    PROVE  IInv'
<1> USE ReaderPoolAssumption DEF CloseBroken
<1>1. cl[s] # Nil
  BY DEF IInv, SessionShape
<1>2. /\ cl[s] \in Clients /\ cl[s] \notin IdleClients
      /\ Leased' = Leased \ {cl[s]}
      /\ \A t \in Sessions : t # s => cl'[t] = cl[t]
      /\ cl'[s] = Nil
  BY <1>1, LeaseEnds DEF IInv
<1>3. IdleClients' = IdleClients
  BY DEF IdleClients
<1>4. PoolTypeOK'
  BY <1>2 DEF IInv, PoolTypeOK, End
<1>5. SessionShape'
  BY DEF IInv, PoolTypeOK, SessionShape, End
<1>6. ExclusiveLease'
  BY <1>2, <1>3 DEF IInv, ExclusiveLease
<1>7. NoLeakNoUseAfterClose'
  BY <1>2, <1>3 DEF IInv, PoolTypeOK, NoLeakNoUseAfterClose
<1>8. GenerationTracks'
  BY DEF IInv, PoolTypeOK, GenerationTracks, End
<1>9. /\ IsFiniteSet(Slots(idle, Keys))' /\ BoundedIdle' /\ GenerationFences'
  BY DEF IInv, BoundedIdle, GenerationFences
<1> QED
  BY <1>4, <1>5, <1>6, <1>7, <1>8, <1>9 DEF IInv

\* The last idle client of the key moves from the pool to the session.
LEMMA LeaseIdleStep ==
    ASSUME IInv, NEW s \in Sessions, LeaseIdle(s)
    PROVE  IInv'
<1> USE ReaderPoolAssumption
<1>1. PICK k \in Keys : k = key[s] /\ k.name \in Names
  BY DEF IInv, SessionShape, LeaseIdle
<1>2. PICK c : c = Last(idle[k])
  OBVIOUS
<1>3. /\ idle[k] \in Seq(Clients) /\ idle[k] # <<>> /\ IsInjective(idle[k])
      /\ cl[s] = Nil
  BY <1>1 DEF LeaseIdle, IInv, PoolTypeOK, SessionShape, ExclusiveLease
<1>4. /\ c \in Clients /\ c \in ToSet(idle[k]) /\ c # Nil
      /\ Front(idle[k]) \in Seq(Clients)
      /\ ToSet(Front(idle[k])) = ToSet(idle[k]) \ {c}
      /\ IsInjective(Front(idle[k]))
      /\ DOMAIN Front(idle[k]) = DOMAIN idle[k] \ {Len(idle[k])}
      /\ Len(idle[k]) \in DOMAIN idle[k]
  <2>1. PICK q \in Seq(Clients) : q = idle[k]
    BY <1>3
  <2>2. q # <<>> /\ IsInjective(q)
    BY <1>3, <2>1
  <2>3. /\ Last(q) \in Clients /\ Last(q) \in ToSet(q)
        /\ Front(q) \in Seq(Clients)
        /\ ToSet(Front(q)) = ToSet(q) \ {Last(q)}
        /\ IsInjective(Front(q))
        /\ DOMAIN Front(q) = DOMAIN q \ {Len(q)}
        /\ Len(q) \in DOMAIN q
    BY <2>2, Popped
  <2> QED
    BY <1>2, <2>1, <2>3
<1>5. /\ idle' \in [Keys -> Seq(Clients)]
      /\ idle'[k] = Front(idle[k]) /\ cl' = [cl EXCEPT ![s] = c]
      /\ \A j \in Keys : j # k => idle'[j] = idle[j]
  BY <1>1, <1>2, <1>4 DEF LeaseIdle, PopReader, IInv, PoolTypeOK
<1>6. c \notin Leased /\ \A j \in Keys : j # k => c \notin ToSet(idle[j])
  BY <1>1, <1>4 DEF IInv, ExclusiveLease, IdleClients
<1>7. Leased' = Leased \cup {c}
  BY <1>3, <1>4, <1>5 DEF Leased, IInv, PoolTypeOK
<1>8. /\ ToSet(idle'[k]) = ToSet(idle[k]) \ {c}
      /\ \A j \in Keys : j # k => ToSet(idle'[j]) = ToSet(idle[j])
  BY <1>4, <1>5
<1>9. IdleClients' = IdleClients \ {c}
  BY <1>6, <1>8 DEF IdleClients
<1>10. c \in IdleClients
  BY <1>4 DEF IdleClients
<1>11. /\ IsFiniteSet(Slots(idle', Keys))
       /\ Cardinality(Slots(idle', Keys)) = Cardinality(Slots(idle, Keys)) - 1
       /\ Cardinality(Slots(idle', Keys)) \in Nat
  <2>1. PICK n : n = Len(idle[k])
    OBVIOUS
  <2>2. DOMAIN idle'[k] = DOMAIN idle[k] \ {n} /\ n \in DOMAIN idle[k]
    BY <1>4, <1>5, <2>1
  <2> QED
    BY <1>5, <2>2, SlotsShrink DEF IInv
<1>12. count' = count - 1
  BY DEF LeaseIdle
<1>13. IsFiniteSet(Slots(idle, Keys))' /\ BoundedIdle' /\ count' \in Nat
  BY <1>11, <1>12 DEF IInv, PoolTypeOK, BoundedIdle
<1>14. PoolTypeOK'
  <2>1. Generation(k.name) \in Nat /\ flushes[k.name] \in Nat
    BY <1>1 DEF IInv, PoolTypeOK, Generation
  <2>2. gens' \in [Names -> Nat \cup {Nil}] /\ gen' \in [Sessions -> Nat]
    BY <1>1, <2>1 DEF LeaseIdle, RecordGeneration, IInv, PoolTypeOK
  <2>3. since' \in [Sessions -> Nat] /\ cl' \in [Sessions -> Clients \cup {Nil}]
    BY <1>1, <1>4, <1>5, <2>1 DEF LeaseIdle, IInv, PoolTypeOK
  <2> QED
    BY <1>5, <1>13, <2>2, <2>3 DEF LeaseIdle, IInv, PoolTypeOK
<1>15. SessionShape'
  BY <1>1, <1>4, <1>5 DEF LeaseIdle, IInv, PoolTypeOK, SessionShape
<1>16. ExclusiveLease'
  <2>1. \A t, u \in Sessions : t # u /\ cl'[t] # Nil => cl'[t] # cl'[u]
    BY <1>5, <1>6 DEF IInv, PoolTypeOK, ExclusiveLease, Leased
  <2>2. \A j \in Keys : IsInjective(idle'[j])
    BY <1>4, <1>5 DEF IInv, ExclusiveLease
  <2>3. \A i, j \in Keys : i # j => ToSet(idle'[i]) \cap ToSet(idle'[j]) = {}
    BY <1>8 DEF IInv, ExclusiveLease
  <2> QED
    BY <1>7, <1>9, <2>1, <2>2, <2>3 DEF IInv, ExclusiveLease
<1>17. NoLeakNoUseAfterClose'
  BY <1>7, <1>9, <1>10 DEF LeaseIdle, IInv, NoLeakNoUseAfterClose
<1>18. GenerationTracks'
  BY <1>1 DEF LeaseIdle, RecordGeneration, Generation, IInv, PoolTypeOK, SessionShape,
              GenerationTracks
<1>19. GenerationFences'
  BY <1>8 DEF LeaseIdle, IInv, GenerationFences
<1> QED
  BY <1>13, <1>14, <1>15, <1>16, <1>17, <1>18, <1>19 DEF IInv

\* An unwelcome client is closed, a welcome one moves to the pool.
LEMMA ReleaseStep ==
    ASSUME IInv, NEW s \in Sessions, Release(s)
    PROVE  IInv'
<1> USE ReaderPoolAssumption
<1>1. PICK k \in Keys : k = key[s] /\ k.name \in Names
  BY DEF IInv, SessionShape, Release
<1>2. PICK c : c = cl[s]
  OBVIOUS
<1>3. End(s) /\ c # Nil /\ pc[s] = "paused"
  BY <1>2 DEF Release, IInv, SessionShape
<1>4. /\ c \in Clients /\ c \in Leased /\ c \notin IdleClients
      /\ Leased' = Leased \ {c}
      /\ \A t \in Sessions : t # s => cl'[t] = cl[t]
      /\ cl'[s] = Nil
      /\ \A j \in Keys : c \notin ToSet(idle[j])
  BY <1>2, <1>3, LeaseEnds DEF IInv
<1>5. SessionShape'
  BY <1>3 DEF IInv, PoolTypeOK, SessionShape, End
<1>6. GenerationTracks'
  BY <1>3 DEF Release, IInv, PoolTypeOK, GenerationTracks, End
<1>7. CASE Unwelcome(s)
  <2>1. /\ conn' = [conn EXCEPT ![c] = Nil]
        /\ UNCHANGED <<idle, count, born>>
    BY <1>2, <1>7 DEF Release
  <2>2. IdleClients' = IdleClients
    BY <2>1 DEF IdleClients
  <2>3. PoolTypeOK'
    BY <1>3, <1>4, <2>1 DEF Release, IInv, PoolTypeOK, End
  <2>4. ExclusiveLease'
    BY <1>4, <2>1, <2>2 DEF IInv, ExclusiveLease
  <2>5. NoLeakNoUseAfterClose'
    BY <1>4, <2>1, <2>2 DEF IInv, PoolTypeOK, NoLeakNoUseAfterClose
  <2>6. /\ IsFiniteSet(Slots(idle, Keys))' /\ BoundedIdle' /\ GenerationFences'
    BY <2>1 DEF Release, IInv, BoundedIdle, GenerationFences
  <2> QED
    BY <1>5, <1>6, <2>3, <2>4, <2>5, <2>6 DEF IInv
<1>8. CASE ~Unwelcome(s)
  <2>1. /\ idle' = [idle EXCEPT ![k] = Append(@, c)] /\ count' = count + 1
        /\ born' = [born EXCEPT ![c] = since[s]] /\ conn' = conn
        /\ UNCHANGED <<defs, stale, gens, flushes>>
    BY <1>1, <1>2, <1>8 DEF Release
  <2>2. since[s] = flushes[k.name] /\ count < MaxIdle
    BY <1>1, <1>3, <1>8 DEF Unwelcome, Generation, IInv, PoolTypeOK, GenerationTracks
  <2>3. idle[k] \in Seq(Clients) /\ IsInjective(idle[k])
    BY DEF IInv, PoolTypeOK, ExclusiveLease
  <2>4. PICK n : n = Len(idle[k]) + 1
    OBVIOUS
  <2>5. PICK q : q = Append(idle[k], c)
    OBVIOUS
  <2>6. /\ q \in Seq(Clients) /\ ToSet(q) = ToSet(idle[k]) \cup {c}
        /\ DOMAIN q = DOMAIN idle[k] \cup {n} /\ n \notin DOMAIN idle[k]
        /\ IsInjective(q)
    BY <1>4, <2>3, <2>4, <2>5, Appended
  <2>7. /\ idle' \in [Keys -> Seq(Clients)] /\ idle'[k] = q
        /\ \A j \in Keys : j # k => idle'[j] = idle[j]
    BY <2>1, <2>5, <2>6 DEF IInv, PoolTypeOK
  <2>8. /\ ToSet(idle'[k]) = ToSet(idle[k]) \cup {c}
        /\ \A j \in Keys : j # k => ToSet(idle'[j]) = ToSet(idle[j])
    BY <2>6, <2>7
  <2>9. IdleClients' = IdleClients \cup {c}
    BY <2>8 DEF IdleClients
  <2>10. /\ IsFiniteSet(Slots(idle', Keys))
         /\ Cardinality(Slots(idle', Keys)) = Cardinality(Slots(idle, Keys)) + 1
    <3>1. DOMAIN idle'[k] = DOMAIN idle[k] \cup {n}
      BY <2>6, <2>7
    <3> QED
      BY <2>6, <2>7, <3>1, SlotsGrow DEF IInv
  <2>11. IsFiniteSet(Slots(idle, Keys))' /\ BoundedIdle' /\ count' \in Nat
    BY <2>1, <2>2, <2>10 DEF IInv, PoolTypeOK, BoundedIdle
  <2>12. PoolTypeOK'
    BY <1>3, <1>4, <2>1, <2>7, <2>11 DEF IInv, PoolTypeOK, End
  <2>13. ExclusiveLease'
    <3>1. \A j \in Keys : IsInjective(idle'[j])
      BY <2>6, <2>7 DEF IInv, ExclusiveLease
    <3>2. \A i, j \in Keys : i # j => ToSet(idle'[i]) \cap ToSet(idle'[j]) = {}
      BY <1>4, <2>8 DEF IInv, ExclusiveLease
    <3> QED
      BY <1>4, <2>9, <3>1, <3>2 DEF IInv, ExclusiveLease
  <2>14. NoLeakNoUseAfterClose'
    BY <1>4, <2>1, <2>9 DEF IInv, NoLeakNoUseAfterClose
  <2>15. GenerationFences'
    BY <1>4, <2>1, <2>2, <2>8 DEF IInv, PoolTypeOK, GenerationFences
  <2> QED
    BY <1>5, <1>6, <2>11, <2>12, <2>13, <2>14, <2>15 DEF IInv
<1> QED
  BY <1>7, <1>8

\* Taking readers out: the idle clients of K are gone and closed, the leases
\* stay.
LEMMA TakenOut ==
    ASSUME IInv, NEW K \in SUBSET Keys,
           idle' = [k \in Keys |-> IF k \in K THEN <<>> ELSE idle[k]],
           conn' = [c \in Clients |->
                      IF \E k \in K : c \in ToSet(idle[k]) THEN Nil ELSE conn[c]],
           cl' = cl
    PROVE  /\ idle' \in [Keys -> Seq(Clients)]
           /\ conn' \in [Clients -> Conns \cup {Nil}]
           /\ ExclusiveLease' /\ NoLeakNoUseAfterClose'
           /\ \A k \in Keys : ToSet(idle'[k]) = IF k \in K THEN {} ELSE ToSet(idle[k])
<1>1. idle' \in [Keys -> Seq(Clients)]
  BY DEF IInv, PoolTypeOK
<1>2. conn' \in [Clients -> Conns \cup {Nil}]
  BY DEF IInv, PoolTypeOK
<1>3. \A k \in Keys : idle'[k] = IF k \in K THEN <<>> ELSE idle[k]
  OBVIOUS
<1>4. ToSet(<<>>) = {} /\ IsInjective(<<>>)
  BY DEF ToSet, IsInjective
<1>5. \A k \in Keys : ToSet(idle'[k]) = IF k \in K THEN {} ELSE ToSet(idle[k])
  BY <1>3, <1>4
<1>6. Leased' = Leased
  BY DEF Leased
<1>7. IdleClients' \subseteq IdleClients
  BY <1>5 DEF IdleClients
<1>8. ExclusiveLease'
  <2>1. \A k \in Keys : IsInjective(idle'[k])
    BY <1>3, <1>4 DEF IInv, ExclusiveLease
  <2>2. \A i, j \in Keys : i # j => ToSet(idle'[i]) \cap ToSet(idle'[j]) = {}
    BY <1>5 DEF IInv, ExclusiveLease
  <2> QED
    BY <1>6, <1>7, <2>1, <2>2 DEF IInv, ExclusiveLease
<1>9. NoLeakNoUseAfterClose'
  <2>1. \A c \in Clients : conn'[c] # Nil
          <=> conn[c] # Nil /\ \A k \in K : c \notin ToSet(idle[k])
    OBVIOUS
  <2>2. \A k \in Keys : ToSet(idle[k]) \subseteq Clients
    BY DEF IInv, PoolTypeOK, ToSet
  <2>3. \A c \in Clients :
          c \in IdleClients' <=> c \in IdleClients /\ \A k \in K : c \notin ToSet(idle[k])
    BY <1>5 DEF IInv, ExclusiveLease, IdleClients
  <2>4. \A c \in Leased : c \in Clients /\ \A k \in K : c \notin ToSet(idle[k])
    <3>1. \A k \in K : ToSet(idle[k]) \subseteq IdleClients
      BY DEF IdleClients
    <3>2. Leased \cap IdleClients = {} /\ Leased \subseteq Clients
      BY DEF IInv, PoolTypeOK, ExclusiveLease, Leased
    <3> QED
      BY <3>1, <3>2
  <2>5. IdleClients' \subseteq Clients
    BY <1>7, <2>2 DEF IdleClients
  <2>6. \A c \in Clients : conn[c] # Nil <=> c \in Leased \/ c \in IdleClients
    BY DEF IInv, NoLeakNoUseAfterClose
  <2>7. \A c \in Clients : conn'[c] # Nil <=> c \in Leased' \/ c \in IdleClients'
    BY <1>6, <2>1, <2>3, <2>4, <2>6
  <2> QED
    BY <1>6, <2>4, <2>5, <2>7 DEF NoLeakNoUseAfterClose
<1> QED
  BY <1>1, <1>2, <1>5, <1>8, <1>9

\* Invalidate: the readers of n go, its generation moves on.
LEMMA InvalidateStep ==
    ASSUME IInv, NEW n \in Names, Invalidate(n)
    PROVE  IInv'
<1> USE ReaderPoolAssumption
<1>1. idle' = [k \in Keys |-> IF k \in KeysOf(n) THEN <<>> ELSE idle[k]]
  BY DEF Invalidate, KeysOf
<1>2. /\ conn' = [c \in Clients |->
                     IF \E k \in KeysOf(n) : c \in ToSet(idle[k])
                       THEN Nil ELSE conn[c]]
      /\ cl' = cl /\ KeysOf(n) \in SUBSET Keys
  BY DEF Invalidate, KeysOf, sessionVars
<1>3. /\ idle' \in [Keys -> Seq(Clients)]
      /\ conn' \in [Clients -> Conns \cup {Nil}]
      /\ ExclusiveLease' /\ NoLeakNoUseAfterClose'
      /\ \A k \in Keys :
           ToSet(idle'[k]) = IF k \in KeysOf(n) THEN {} ELSE ToSet(idle[k])
  BY <1>1, <1>2, TakenOut
<1>4. /\ IsFiniteSet(Slots(idle', Keys))
      /\ Cardinality(Slots(idle', Keys))
           = Cardinality(Slots(idle, Keys)) - Cardinality(Slots(idle, KeysOf(n)))
      /\ Cardinality(Slots(idle', Keys)) \in Nat
      /\ Cardinality(Slots(idle', Keys)) <= Cardinality(Slots(idle, Keys))
  BY SlotsWithout DEF Invalidate, IInv, PoolTypeOK
<1>5. IsFiniteSet(Slots(idle, Keys))' /\ BoundedIdle' /\ count' \in Nat
  BY <1>4 DEF Invalidate, CountWithout, IInv, PoolTypeOK, BoundedIdle
<1>6. PoolTypeOK'
  BY <1>3, <1>5 DEF Invalidate, Generation, sessionVars, IInv, PoolTypeOK
<1>7. SessionShape'
  BY DEF Invalidate, sessionVars, IInv, SessionShape
<1>8. GenerationTracks'
  <2> SUFFICES ASSUME NEW s \in Sessions, pc[s] \in {"build", "open", "paused"}
               PROVE  /\ gens'[key[s].name] # Nil
                      /\ gens'[key[s].name] + since[s]
                           = flushes'[key[s].name] + gen[s]
    BY DEF Invalidate, sessionVars, GenerationTracks
  <2>1. PICK m \in Names : m = key[s].name
    BY DEF IInv, SessionShape
  <2>2. gens[m] \in Nat /\ flushes[m] \in Nat /\ since[s] \in Nat /\ gen[s] \in Nat
    BY <2>1 DEF IInv, PoolTypeOK, GenerationTracks
  <2>3. gens[m] # Nil /\ gens[m] + since[s] = flushes[m] + gen[s]
    BY <2>1 DEF IInv, GenerationTracks
  <2>4. \/ gens'[m] = gens[m] /\ flushes'[m] = flushes[m]
        \/ gens'[m] = gens[m] + 1 /\ flushes'[m] = flushes[m] + 1
    BY <2>2, <2>3 DEF Invalidate, Generation, IInv, PoolTypeOK
  <2> QED
    BY <2>1, <2>2, <2>3, <2>4
<1>9. GenerationFences'
  BY <1>3 DEF Invalidate, KeysOf, IInv, PoolTypeOK, GenerationFences
<1> QED
  BY <1>3, <1>5, <1>6, <1>7, <1>8, <1>9 DEF IInv

\* Close: every idle reader goes.
LEMMA CloseStep ==
    ASSUME IInv, Close
    PROVE  IInv'
<1> USE ReaderPoolAssumption
<1>1. /\ idle' = [k \in Keys |-> IF k \in Keys THEN <<>> ELSE idle[k]]
      /\ \A k \in Keys : idle'[k] = <<>>
  BY DEF Close
<1>2. /\ conn' = [c \in Clients |->
                     IF \E k \in Keys : c \in ToSet(idle[k]) THEN Nil ELSE conn[c]]
      /\ cl' = cl /\ Keys \in SUBSET Keys
  BY DEF Close, IdleClients, sessionVars
<1>3. /\ idle' \in [Keys -> Seq(Clients)]
      /\ conn' \in [Clients -> Conns \cup {Nil}]
      /\ ExclusiveLease' /\ NoLeakNoUseAfterClose'
      /\ \A k \in Keys : ToSet(idle'[k]) = IF k \in Keys THEN {} ELSE ToSet(idle[k])
  BY <1>1, <1>2, TakenOut
<1>4. Slots(idle', Keys) = {}
  BY <1>1, SlotsArePlaces DEF Places
<1>5. IsFiniteSet(Slots(idle', Keys)) /\ Cardinality(Slots(idle', Keys)) = 0
  BY <1>4, FS_EmptySet, Zenon
<1>6. IsFiniteSet(Slots(idle, Keys))' /\ BoundedIdle' /\ count' \in Nat
  BY <1>5 DEF Close, BoundedIdle
<1>7. PoolTypeOK'
  BY <1>3, <1>6 DEF Close, sessionVars, IInv, PoolTypeOK
<1>8. SessionShape'
  BY DEF Close, sessionVars, IInv, SessionShape
<1>9. GenerationTracks'
  <2> SUFFICES ASSUME NEW s \in Sessions, pc[s] \in {"build", "open", "paused"}
               PROVE  /\ gens'[key[s].name] # Nil
                      /\ gens'[key[s].name] + since[s]
                           = flushes'[key[s].name] + gen[s]
    BY DEF Close, sessionVars, GenerationTracks
  <2>1. PICK m \in Names : m = key[s].name
    BY DEF IInv, SessionShape
  <2>2. gens[m] \in Nat /\ flushes[m] \in Nat /\ since[s] \in Nat /\ gen[s] \in Nat
    BY <2>1 DEF IInv, PoolTypeOK, GenerationTracks
  <2>3. gens[m] # Nil /\ gens[m] + since[s] = flushes[m] + gen[s]
    BY <2>1 DEF IInv, GenerationTracks
  <2>4. \/ gens'[m] = gens[m] /\ flushes'[m] = flushes[m]
        \/ gens'[m] = gens[m] + 1 /\ flushes'[m] = flushes[m] + 1
    BY <2>2, <2>3 DEF Close, IInv, PoolTypeOK
  <2> QED
    BY <2>1, <2>2, <2>3, <2>4
<1>10. GenerationFences'
  BY <1>3 DEF GenerationFences
<1> QED
  BY <1>3, <1>6, <1>7, <1>8, <1>9, <1>10 DEF IInv

----------------------------------------------------------------------------
(* The invariant and what follows from it *)

LEMMA NextStep == IInv /\ [PoolNext]_readerVars => IInv'
<1> SUFFICES ASSUME IInv, [PoolNext]_readerVars PROVE IInv'
  OBVIOUS
<1>1. ASSUME NEW s \in Sessions, NEW k \in Keys, Lookup(s, k) PROVE IInv'
  BY <1>1, LookupStep
<1>2. ASSUME NEW s \in Sessions, LeaseIdle(s) PROVE IInv'
  BY <1>2, LeaseIdleStep
<1>3. ASSUME NEW s \in Sessions, NoneIdle(s) PROVE IInv'
  BY <1>3, NoneIdleStep
<1>4. ASSUME NEW s \in Sessions, Build(s) PROVE IInv'
  BY <1>4, BuildStep
<1>5. ASSUME NEW s \in Sessions, BuildFails(s) PROVE IInv'
  BY <1>5, BuildFailsStep
<1>6. ASSUME NEW s \in Sessions, PollFails(s) \/ Pause(s) PROVE IInv'
  BY <1>6, PollFailsStep
<1>7. ASSUME NEW s \in Sessions, CloseBroken(s) PROVE IInv'
  BY <1>7, CloseBrokenStep
<1>8. ASSUME NEW s \in Sessions, Release(s) PROVE IInv'
  BY <1>8, ReleaseStep
<1>9. ASSUME NEW n \in Names, Invalidate(n) PROVE IInv'
  BY <1>9, InvalidateStep
<1>10. ASSUME NEW n \in Names, NEW d \in Conns, Replace(n, d) PROVE IInv'
  BY <1>10, ReplaceStep
<1>11. CASE Close
  BY <1>11, CloseStep
<1>12. CASE UNCHANGED readerVars
  <2>1. PoolTypeOK' /\ SessionShape' /\ GenerationTracks'
    BY <1>12 DEF readerVars, sessionVars, poolVars, IInv, PoolTypeOK, SessionShape,
                 GenerationTracks
  <2> QED
    BY <1>12, <2>1, PoolKept DEF readerVars, sessionVars, poolVars, IInv
<1> QED
  BY <1>1, <1>2, <1>3, <1>4, <1>5, <1>6, <1>7, <1>8, <1>9, <1>10, <1>11, <1>12
     DEF PoolNext

LEMMA Invariance == PoolSpec => []IInv
BY InitStep, NextStep, PTL DEF PoolSpec

\* A reader is never shared: a client belongs to one session, or waits in one
\* place of the pool (openReader, releaseReader).
THEOREM LeaseIsExclusive == PoolSpec => []ExclusiveLease
<1>1. IInv => ExclusiveLease
  BY DEF IInv
<1> QED
  BY <1>1, Invariance, PTL

\* No connection leaks and none is used after it was closed, whatever Invalidate,
\* Close and failing polls do in between (pool.go, readerSession.Close).
THEOREM NoLeak == PoolSpec => []NoLeakNoUseAfterClose
<1>1. IInv => NoLeakNoUseAfterClose
  BY DEF IInv
<1> QED
  BY <1>1, Invariance, PTL

\* What waits is counted exactly and bounded by maxIdleReaderClients, and no
\* session that an Invalidate overtook gives its client back (releaseReader).
THEOREM IdlePoolIsSound == PoolSpec => []IdleSound
<1>1. IInv => IdleSound
  BY DEF IInv, IdleSound
<1> QED
  BY <1>1, Invariance, PTL

=============================================================================
