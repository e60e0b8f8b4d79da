-------------------------- MODULE RecursionProofs --------------------------
(***************************************************************************)
(* What the other proofs need of numbers, folds and recursive functions:   *)
(* bounded sets have a least and a greatest member, and a definition that   *)
(* goes step by step has the function it means, which TLA+ takes by CHOOSE. *)
(* Sets and functions stand for the predicates and operators of the usual   *)
(* statements.  Then the recursion that computes the distance of two words:  *)
(* it is the least number of edits, for all words.                          *)
(***************************************************************************)
EXTENDS EditDistance, SequencesExt, FiniteSetTheorems, SequenceTheorems, WellFoundedInduction, TLAPS

\* Natural numbers have a least one.
LEMMA NaturalsHaveALeast ==
  ASSUME NEW S \in SUBSET Nat, S # {}
  PROVE  \E n \in S : \A m \in S : n <= m
<1> DEFINE R == {ss \in Nat \X Nat : ss[1] < ss[2]}
<1>1. IsWellFoundedOn(R, Nat)
  BY NatLessThanWellFounded DEF OpToRel
<1> HIDE DEF R
<1>2. PICK n \in S : \A m \in S : ~ (<<m, n>> \in R)
  BY <1>1, WFMin
<1>3. \A m \in S : ~ (m < n)
  BY <1>2 DEF R
<1> QED
  BY <1>3

\* Integers that are bounded from above have a greatest one.
LEMMA BoundedHasMax ==
  ASSUME NEW n \in Int, NEW S \in SUBSET Int, S # {}, \A x \in S : x <= n
  PROVE  Max(S) \in S /\ \A x \in S : x <= Max(S)
<1> DEFINE below == {k \in Nat : n - k \in S}
<1>1. \A x \in S : n - x \in below /\ n - (n - x) = x
  OBVIOUS
<1>2. PICK k \in below : \A m \in below : k <= m
  BY <1>1, NaturalsHaveALeast
<1>3. n - k \in S /\ \A x \in S : n - k >= x
  BY <1>1, <1>2
<1>4. \E x \in S : \A y \in S : x >= y
  BY <1>3
<1> QED
  BY <1>4 DEF Max

\* The greater of two numbers is one of them.
LEMMA MaxOfTwo ==
  ASSUME NEW m \in Int, NEW n \in Int
  PROVE  Max({m, n}) \in {m, n}
<1> DEFINE S == {m, n}
           top == IF m <= n THEN n ELSE m
<1>1. S \in SUBSET Int /\ S # {} /\ top \in Int /\ \A x \in S : x <= top
  OBVIOUS
<1>2. Max(S) \in S
  <2> HIDE DEF S, top
  <2> QED
    BY <1>1, BoundedHasMax
<1> QED
  BY <1>2

\* Integers that are bounded from below have a least one.
LEMMA BoundedHasMin ==
  ASSUME NEW n \in Int, NEW S \in SUBSET Int, S # {}, \A x \in S : x >= n
  PROVE  Min(S) \in S /\ \A x \in S : Min(S) <= x
<1> DEFINE above == {k \in Nat : n + k \in S}
<1>1. \A x \in S : x - n \in above /\ n + (x - n) = x
  OBVIOUS
<1>2. PICK k \in above : \A m \in above : k <= m
  BY <1>1, NaturalsHaveALeast
<1>3. n + k \in S /\ \A x \in S : n + k <= x
  BY <1>1, <1>2
<1>4. \E x \in S : \A y \in S : x =< y
  BY <1>3
<1> QED
  BY <1>4 DEF Min

\* Induction up to a bound, over a set of numbers.
LEMMA UpTo ==
  ASSUME NEW N \in Nat, NEW T, 0 \in T, \A n \in 0..N - 1 : n \in T => n + 1 \in T
  PROVE  \A n \in 0..N : n \in T
<1> DEFINE missing == {n \in 0..N : n \notin T}
<1>1. ASSUME missing # {} PROVE FALSE
  <2>1. PICK n \in missing : \A m \in missing : n <= m
    <3>1. missing \in SUBSET Nat
      OBVIOUS
    <3> HIDE DEF missing
    <3> QED
      BY <1>1, <3>1, NaturalsHaveALeast
  <2>2. n # 0 /\ n - 1 \in 0..N - 1
    BY <2>1
  <2>3. n - 1 \in T
    BY <2>1, <2>2
  <2> QED
    BY <2>1, <2>2, <2>3
<1> QED
  BY <1>1

\* The greatest number of an interval, and what is left without it.
LEMMA TopOfInterval ==
  ASSUME NEW k \in Nat, k # 0
  PROVE  Max(1..k) = k /\ (1..k) \ {Max(1..k)} = 1..k - 1
<1>1. Max(1..k) \in 1..k /\ \A x \in 1..k : x <= Max(1..k)
  <2> DEFINE S == 1..k
  <2>1. S \in SUBSET Int /\ S # {} /\ (\A x \in S : x <= k) /\ k \in Int
    OBVIOUS
  <2>2. Max(S) \in S /\ \A x \in S : x <= Max(S)
    <3> HIDE DEF S
    <3> QED
      BY <2>1, BoundedHasMax
  <2> QED
    BY <2>2
<1> QED
  BY <1>1

-----------------------------------------------------------------------------
\* The function that a fold over the positions 1..N means: a set of positions
\* is folded by taking the greatest off it.
Folding(N, base, F, f) ==
  f = [s \in SUBSET (1..N) |-> IF s = {} THEN base ELSE F[<<f[s \ {Max(s)}], Max(s)>>]]

\* Every fold has it.
LEMMA FoldingExists ==
  ASSUME NEW X, NEW N \in Nat, NEW base \in X, NEW F \in [X \X (1..N) -> X]
  PROVE  \E f \in [SUBSET (1..N) -> X] : Folding(N, base, F, f)
<1> DEFINE T == {n \in 0..N : \E f \in [SUBSET (1..n) -> X] : Folding(n, base, F, f)}
<1>1. 0 \in T
  <2> DEFINE f == [s \in SUBSET (1..0) |-> base]
  <2>1. \A s \in SUBSET (1..0) : s = {}
    OBVIOUS
  <2>2. f \in [SUBSET (1..0) -> X] /\ Folding(0, base, F, f)
    BY <2>1 DEF Folding
  <2> QED
    BY <2>2
<1>2. ASSUME NEW n \in 0..N - 1, n \in T PROVE n + 1 \in T
  <2>1. PICK f \in [SUBSET (1..n) -> X] : Folding(n, base, F, f)
    BY <1>2
  <2> DEFINE g == [s \in SUBSET (1..n + 1) |-> IF n + 1 \in s THEN F[<<f[s \ {n + 1}], n + 1>>] ELSE f[s]]
  <2>2. ASSUME NEW s \in SUBSET (1..n + 1)
        PROVE  /\ g[s] \in X
               /\ g[s] = IF s = {} THEN base ELSE F[<<g[s \ {Max(s)}], Max(s)>>]
    <3>1. CASE n + 1 \in s
      <4>1. Max(s) \in s /\ \A x \in s : x <= Max(s)
        <5>1. s \in SUBSET Int /\ s # {} /\ (\A x \in s : x <= n + 1) /\ n + 1 \in Int
          BY <3>1
        <5> QED
          BY <5>1, BoundedHasMax
      <4>2. Max(s) = n + 1
        <5> DEFINE m == Max(s)
        <5>1. m \in 1..n + 1 /\ n + 1 <= m
          BY <3>1, <4>1
        <5> HIDE DEF m
        <5>2. m = n + 1
          BY <5>1
        <5> QED
          BY <5>2 DEF m
      <4>3. s \ {n + 1} \in SUBSET (1..n) /\ n + 1 \notin s \ {n + 1}
        OBVIOUS
      <4>4. g[s \ {n + 1}] = f[s \ {n + 1}] /\ f[s \ {n + 1}] \in X
        BY <4>3
      <4>5. g[s] = F[<<f[s \ {n + 1}], n + 1>>] /\ g[s] \in X
        BY <3>1, <4>4
      <4> HIDE DEF g
      <4> QED
        BY <3>1, <4>2, <4>4, <4>5
    <3>2. CASE n + 1 \notin s
      <4>1. s \in SUBSET (1..n) /\ s \ {Max(s)} \in SUBSET (1..n) /\ n + 1 \notin s \ {Max(s)}
        <5>1. \A x \in s : x \in 1..n
          BY <3>2
        <5> QED
          BY <3>2, <5>1
      <4>2. g[s] = f[s] /\ g[s \ {Max(s)}] = f[s \ {Max(s)}]
        BY <3>2, <4>1
      <4>3. f[s] = IF s = {} THEN base ELSE F[<<f[s \ {Max(s)}], Max(s)>>]
        BY <2>1, <4>1 DEF Folding
      <4>4. f[s] \in X
        BY <4>1
      <4> HIDE DEF g
      <4> QED
        BY <4>2, <4>3, <4>4
    <3> QED
      BY <3>1, <3>2
  <2>3. g \in [SUBSET (1..n + 1) -> X] /\ Folding(n + 1, base, F, g)
    <3>1. DOMAIN g = SUBSET (1..n + 1) /\ g = [s \in SUBSET (1..n + 1) |-> g[s]]
      OBVIOUS
    <3> HIDE DEF g
    <3> QED
      BY <2>2, <3>1 DEF Folding
  <2> HIDE DEF g
  <2>4. n + 1 \in 0..N /\ \E h \in [SUBSET (1..n + 1) -> X] : Folding(n + 1, base, F, h)
    BY <2>3
  <2> QED
    BY <2>4
<1> HIDE DEF T
<1>3. N \in T
  BY <1>1, <1>2, UpTo
<1> QED
  BY <1>3 DEF T
-----------------------------------------------------------------------------
\* The function that goes from base, a step at a time, up to N.
Stepping(N, base, F, f) == f = [n \in 0..N |-> IF n = 0 THEN base ELSE F[<<f[n - 1], n>>]]

\* There is one, if every step stays inside a set.
LEMMA SteppingExists ==
  ASSUME NEW X, NEW N \in Nat, NEW base \in X, NEW F \in [X \X (1..N) -> X]
  PROVE  \E f \in [0..N -> X] : Stepping(N, base, F, f)
<1> DEFINE Fills(m, f) == f[0] = base /\ \A n \in 1..m : f[n] = F[<<f[n - 1], n>>]
           T == {m \in 0..N : \E f \in [0..m -> X] : Fills(m, f)}
<1>1. 0 \in T
  <2> DEFINE f == [n \in 0..0 |-> base]
  <2>1. f \in [0..0 -> X] /\ Fills(0, f)
    OBVIOUS
  <2> HIDE DEF Fills, f
  <2> QED
    BY <2>1
<1>2. ASSUME NEW m \in 0..N - 1, m \in T PROVE m + 1 \in T
  <2>1. PICK f \in [0..m -> X] : Fills(m, f)
    BY <1>2
  <2> DEFINE g == [n \in 0..m + 1 |-> IF n = m + 1 THEN F[<<f[m], m + 1>>] ELSE f[n]]
  <2>2. g \in [0..m + 1 -> X]
    <3>1. m \in 0..m /\ m + 1 \in 1..N
      OBVIOUS
    <3> QED
      BY <3>1
  <2>3. ASSUME NEW n \in 1..m + 1 PROVE g[n] = F[<<g[n - 1], n>>]
    <3>1. CASE n = m + 1
      <4>1. m + 1 - 1 = m /\ m \in 0..m + 1 /\ m # m + 1 /\ m + 1 \in 0..m + 1
        OBVIOUS
      <4>2. g[m] = f[m] /\ g[m + 1] = F[<<f[m], m + 1>>]
        BY <4>1
      <4> HIDE DEF g
      <4> QED
        BY <3>1, <4>1, <4>2
    <3>2. CASE n # m + 1
      <4>1. n \in 1..m /\ g[n] = f[n] /\ g[n - 1] = f[n - 1]
        BY <3>2
      <4> QED
        BY <2>1, <4>1
    <3> QED
      BY <3>1, <3>2
  <2>4. g[0] = base
    BY <2>1
  <2> HIDE DEF g
  <2>5. Fills(m + 1, g)
    BY <2>3, <2>4
  <2> HIDE DEF Fills
  <2>6. m + 1 \in 0..N /\ \E h \in [0..m + 1 -> X] : Fills(m + 1, h)
    BY <2>2, <2>5
  <2> QED
    BY <2>6
<1>3. PICK f \in [0..N -> X] : Fills(N, f)
  <2>1. \A m \in 0..N : m \in T
    <3> HIDE DEF T
    <3> QED
      BY <1>1, <1>2, UpTo
  <2> HIDE DEF Fills
  <2> QED
    BY <2>1
<1>4. ASSUME NEW n \in 0..N PROVE f[n] = IF n = 0 THEN base ELSE F[<<f[n - 1], n>>]
  <2>1. n # 0 => n \in 1..N
    OBVIOUS
  <2> QED
    BY <1>3, <2>1
<1>5. Stepping(N, base, F, f)
  BY <1>4 DEF Stepping
<1> QED
  BY <1>5
-----------------------------------------------------------------------------
\* The function that a scan of 1..last means, which goes from i to next[i] and
\* adds what A has at i.
Scanning(last, A, next, f) ==
  f = [i \in 1..last + 1 |-> IF i > last THEN {} ELSE A[i] \union f[next[i]]]

\* Every scan that goes forward has it.
LEMMA ScanExists ==
  ASSUME NEW last \in Nat, NEW A, NEW next \in [1..last -> 1..last + 1], \A i \in 1..last : next[i] > i
  PROVE  \E f : Scanning(last, A, next, f)
<1> DEFINE Fills(n, f) == \A i \in last + 1 - n..last + 1 : f[i] = IF i > last THEN {} ELSE A[i] \union f[next[i]]
           T == {n \in 0..last : \E f : Fills(n, f)}
<1>1. 0 \in T
  <2> DEFINE f == [i \in {last + 1} |-> {}]
  <2>1. Fills(0, f)
    OBVIOUS
  <2> HIDE DEF Fills, f
  <2> QED
    BY <2>1
<1>2. ASSUME NEW n \in 0..last - 1, n \in T PROVE n + 1 \in T
  <2>1. PICK f : Fills(n, f)
    BY <1>2
  <2> DEFINE j == last - n
             g == [i \in 1..last + 1 |-> IF i = j THEN A[j] \union f[next[j]] ELSE f[i]]
  <2>2. j \in 1..last /\ next[j] \in j + 1..last + 1 /\ j + 1 = last + 1 - n /\ j = last + 1 - (n + 1)
    OBVIOUS
  <2>3. ASSUME NEW i \in j..last + 1
        PROVE  g[i] = IF i > last THEN {} ELSE A[i] \union g[next[i]]
    <3>1. CASE i = j
      <4>1. g[i] = A[j] \union f[next[j]] /\ next[j] # j /\ next[j] \in 1..last + 1
        BY <2>2, <3>1
      <4>2. g[next[j]] = f[next[j]]
        BY <4>1
      <4> HIDE DEF g, j
      <4> QED
        BY <2>2, <3>1, <4>1, <4>2
    <3>2. CASE i # j
      <4>1. i \in j + 1..last + 1 /\ i \in 1..last + 1 /\ g[i] = f[i]
        BY <2>2, <2>3, <3>2
      <4>2. f[i] = IF i > last THEN {} ELSE A[i] \union f[next[i]]
        BY <2>1, <2>2, <4>1
      <4>3. i <= last => next[i] \in 1..last + 1 /\ next[i] # j
        BY <2>2, <4>1
      <4>4. i <= last => g[next[i]] = f[next[i]]
        BY <4>3
      <4>5. i \in Int /\ last \in Int
        BY <4>1
      <4> HIDE DEF g, j
      <4>6. CASE i > last
        BY <4>1, <4>2, <4>6
      <4>7. CASE i <= last
        BY <4>1, <4>2, <4>4, <4>5, <4>7
      <4> QED
        BY <4>5, <4>6, <4>7
    <3> QED
      BY <3>1, <3>2
  <2>4. Fills(n + 1, g)
    <3> HIDE DEF g, j
    <3> QED
      BY <2>2, <2>3
  <2> HIDE DEF Fills, g
  <2> QED
    BY <2>4
<1> HIDE DEF T
<1>3. \A n \in 0..last : n \in T
  <2>1. \A n \in 0..last - 1 : n \in T => n + 1 \in T
    BY <1>2
  <2> QED
    BY <1>1, <2>1, UpTo
<1>4. PICK f : Fills(last, f)
  <2>1. last \in T
    BY <1>3
  <2> HIDE DEF Fills
  <2> QED
    BY <2>1 DEF T
<1> DEFINE g == [i \in 1..last + 1 |-> f[i]]
<1>5. \A i \in 1..last + 1 : f[i] = IF i > last THEN {} ELSE A[i] \union f[next[i]]
  <2>1. last + 1 - last = 1
    OBVIOUS
  <2> QED
    BY <1>4, <2>1
<1>6. ASSUME NEW i \in 1..last + 1
      PROVE  g[i] = IF i > last THEN {} ELSE A[i] \union g[next[i]]
  <2>1. i <= last => next[i] \in 1..last + 1
    OBVIOUS
  <2>2. i <= last => g[next[i]] = f[next[i]]
    BY <2>1
  <2>3. g[i] = f[i]
    OBVIOUS
  <2> HIDE DEF g
  <2>4. CASE i > last
    BY <1>5, <2>3, <2>4
  <2>5. CASE i <= last
    BY <1>5, <2>2, <2>3, <2>5
  <2> QED
    BY <2>4, <2>5
<1>7. DOMAIN g = 1..last + 1 /\ g = [i \in 1..last + 1 |-> g[i]]
  OBVIOUS
<1> HIDE DEF g
<1>8. Scanning(last, A, next, g)
  BY <1>6, <1>7 DEF Scanning
<1> QED
  BY <1>8

\* The members of a set of positions, counted off from left to right, are each
\* met once.
LEMMA RankIsOntoPositions ==
  ASSUME NEW n \in Nat, NEW S \in SUBSET (1..n)
  PROVE  /\ Cardinality(S) \in Nat
         /\ \A k \in 1..Cardinality(S) : \E p \in S : Cardinality({q \in S : q <= p}) = k
<1> DEFINE N == Cardinality(S)
           Upto(p) == {q \in S : q <= p}
           rank == [p \in S |-> Cardinality(Upto(p))]
<1>1. IsFiniteSet(S) /\ N \in Nat
  <2>1. IsFiniteSet(1..n)
    BY FS_Interval
  <2>2. IsFiniteSet(S)
    BY <2>1, FS_Subset
  <2> QED
    BY <2>2, FS_CardinalityType
<1>2. ASSUME NEW p \in S PROVE IsFiniteSet(Upto(p)) /\ Cardinality(Upto(p)) \in 1..N
  <2>1. IsFiniteSet(Upto(p)) /\ Cardinality(Upto(p)) <= N
    BY <1>1, FS_Subset
  <2>2. Upto(p) # {}
    BY <1>2
  <2> HIDE DEF Upto, N
  <2> QED
    BY <1>1, <2>1, <2>2, FS_CardinalityType, FS_EmptySet
<1>3. ASSUME NEW p \in S, NEW q \in S, p < q PROVE rank[p] # rank[q]
  <2>1. Upto(p) \subseteq Upto(q) /\ q \in Upto(q) /\ q \notin Upto(p)
    <3>1. p \in Int /\ q \in Int /\ \A x \in S : x \in Int
      OBVIOUS
    <3>2. \A x \in S : x <= p => x <= q
      BY <1>3, <3>1
    <3>3. q <= q /\ ~ (q <= p)
      BY <1>3, <3>1
    <3> QED
      BY <3>2, <3>3
  <2>2. IsFiniteSet(Upto(q))
    BY <1>2
  <2> HIDE DEF Upto
  <2>3. Cardinality(Upto(p)) # Cardinality(Upto(q))
    BY <2>1, <2>2, FS_Subset
  <2> QED
    BY <2>3
<1>4. rank \in Injection(S, 1..N)
  <2>1. \A p, q \in S : p # q => p < q \/ q < p
    OBVIOUS
  <2>2. rank \in [S -> 1..N]
    BY <1>2
  <2> HIDE DEF rank
  <2> QED
    BY <1>3, <2>1, <2>2 DEF Injection, IsInjective
<1>5. rank \in Surjection(S, 1..N)
  <2>1. IsFiniteSet(1..N) /\ Cardinality(1..N) = N
    BY <1>1, FS_Interval
  <2> HIDE DEF rank
  <2> QED
    BY <1>4, <2>1, FS_Injection
<1>6. \A k \in 1..N : \E p \in S : rank[p] = k
  BY <1>5 DEF Surjection
<1> QED
  BY <1>1, <1>6

-----------------------------------------------------------------------------
\* What a cell of the table is the least of.
CellChoices(a, b, d, i, j) ==
  {d[<<i, j - 1>>] + 1, d[<<i - 1, j>>] + 1,
   d[<<i - 1, j - 1>>] + IF Letter(a, i) = Letter(b, j) THEN 0 ELSE 1}
  \union IF /\ i > 1 /\ j > 1
            /\ Letter(a, i) = Letter(b, j - 1) /\ Letter(a, i - 1) = Letter(b, j)
         THEN {d[<<i - 2, j - 2>>] + 1} ELSE {}

\* The table of the distances between the first letters of two words.
IsTable(a, b, d) ==
  /\ d \in [Cells(a, b) -> Nat]
  /\ \A i \in 0..Len(a) : d[<<i, 0>>] = i
  /\ \A j \in 0..Len(b) : d[<<0, j>>] = j
  /\ \A i \in 1..Len(a), j \in 1..Len(b) : d[<<i, j>>] = Min(CellChoices(a, b, d, i, j))

\* The least of some numbers is one of them.
LEMMA LeastNatural ==
  ASSUME NEW S \in SUBSET Nat, S # {}
  PROVE  Min(S) \in S /\ Min(S) \in Nat /\ \A x \in S : Min(S) <= x
<1>1. S \in SUBSET Int /\ (\A x \in S : x >= 0) /\ 0 \in Int
  OBVIOUS
<1>2. Min(S) \in S /\ \A x \in S : Min(S) <= x
  BY <1>1, BoundedHasMin
<1> QED
  BY <1>2

\* What a cell of a row is the least of, given the row so far and those before.
RowChoices(a, b, i, rows, row, j) ==
  {row[j] + 1, rows.prev[j + 1] + 1,
   rows.prev[j] + IF Letter(a, i) = Letter(b, j) THEN 0 ELSE 1}
  \union IF /\ i > 1 /\ j > 1
            /\ Letter(a, i) = Letter(b, j - 1) /\ Letter(a, i - 1) = Letter(b, j)
         THEN {rows.prev2[j - 1] + 1} ELSE {}

\* A row of distances.
RowsOf(n) == [1..n + 1 -> Nat]

LEMMA RowChoicesType ==
  ASSUME NEW a, NEW b, NEW i, NEW n \in Nat, NEW j \in 1..n,
         NEW rows, rows.prev \in RowsOf(n), rows.prev2 \in RowsOf(n),
         NEW row, row[j] \in Nat
  PROVE  LET S == RowChoices(a, b, i, rows, row, j)
         IN  S \in SUBSET Nat /\ S # {} /\ Min(S) \in Nat
<1> DEFINE S == RowChoices(a, b, i, rows, row, j)
<1>1. rows.prev[j + 1] \in Nat /\ rows.prev[j] \in Nat
  BY DEF RowsOf
<1>2. j > 1 => rows.prev2[j - 1] \in Nat
  BY DEF RowsOf
<1>3. S \in SUBSET Nat /\ S # {}
  BY <1>1, <1>2 DEF RowChoices
<1> HIDE DEF S
<1>4. Min(S) \in Nat
  BY <1>3, LeastNatural
<1> QED
  BY <1>3, <1>4 DEF S

\* One row: its first cell is its number, and every other one is the least of
\* its choices.
LEMMA RowIsFilled ==
  ASSUME NEW a, NEW b, Len(b) \in Nat, NEW i \in Nat,
         NEW rows, rows.prev \in RowsOf(Len(b)), rows.prev2 \in RowsOf(Len(b))
  PROVE  LET row == Row(a, b, i, rows)
         IN  /\ row \in RowsOf(Len(b))
             /\ row[1] = i
             /\ \A j \in 1..Len(b) : row[j + 1] = Min(RowChoices(a, b, i, rows, row, j))
<1> DEFINE n == Len(b)
           extend(c, j) == Append(c, Min(RowChoices(a, b, i, rows, c, j)))
           Fills(k, f) == /\ f[0] = <<i>>
                          /\ \A j \in 1..k : f[j] = extend(f[j - 1], j)
           T == {k \in 0..n : \E f : Fills(k, f)}
           cur == CHOOSE f : f = [j \in 0..n |-> IF j = 0 THEN <<i>> ELSE extend(f[j - 1], j)]
<1>1. Row(a, b, i, rows) = cur[n]
  BY DEF Row, RowChoices
<1> HIDE DEF extend
<1>2. 0 \in T
  <2> DEFINE f == [j \in {0} |-> <<i>>]
  <2>1. Fills(0, f)
    OBVIOUS
  <2> HIDE DEF Fills, f
  <2> QED
    BY <2>1
<1>3. ASSUME NEW k \in 0..n - 1, k \in T PROVE k + 1 \in T
  <2>1. PICK f : Fills(k, f)
    BY <1>3
  <2> DEFINE g == [j \in 0..k + 1 |-> IF j = k + 1 THEN extend(f[k], k + 1) ELSE f[j]]
  <2>2. g[0] = <<i>>
    BY <2>1
  <2>3. ASSUME NEW j \in 1..k + 1 PROVE g[j] = extend(g[j - 1], j)
    <3>1. CASE j = k + 1
      BY <3>1
    <3>2. CASE j # k + 1
      <4>1. j \in 1..k /\ g[j] = f[j] /\ g[j - 1] = f[j - 1]
        BY <3>2
      <4> QED
        BY <2>1, <4>1
    <3> QED
      BY <3>1, <3>2
  <2> HIDE DEF g
  <2>4. Fills(k + 1, g)
    BY <2>2, <2>3
  <2> HIDE DEF Fills
  <2> QED
    BY <2>4
<1>4. PICK f : Fills(n, f)
  <2>1. n \in T
    <3> HIDE DEF T, n
    <3>1. n \in Nat
      BY DEF n
    <3>2. 0 \in T /\ \A k \in 0..n - 1 : k \in T => k + 1 \in T
      BY <1>2, <1>3
    <3>3. \A k \in 0..n : k \in T
      BY <3>1, <3>2, UpTo
    <3> QED
      BY <3>1, <3>3
  <2> HIDE DEF Fills
  <2> QED
    BY <2>1
<1>5. cur = [j \in 0..n |-> IF j = 0 THEN <<i>> ELSE extend(cur[j - 1], j)]
  <2> DEFINE g == [j \in 0..n |-> f[j]]
  <2>1. ASSUME NEW j \in 0..n PROVE g[j] = IF j = 0 THEN <<i>> ELSE extend(g[j - 1], j)
    <3>1. j # 0 => j \in 1..n /\ j - 1 \in 0..n
      OBVIOUS
    <3>2. g[j] = f[j] /\ (j # 0 => g[j - 1] = f[j - 1])
      BY <3>1
    <3> HIDE DEF g
    <3> QED
      BY <1>4, <3>1, <3>2
  <2>2. DOMAIN g = 0..n /\ g = [j \in 0..n |-> g[j]]
    OBVIOUS
  <2> HIDE DEF g
  <2>3. g = [j \in 0..n |-> IF j = 0 THEN <<i>> ELSE extend(g[j - 1], j)]
    BY <2>1, <2>2
  <2> QED
    BY <2>3
<1> HIDE DEF cur
<1>6. cur[0] = <<i>> /\ \A j \in 1..n : cur[j] = extend(cur[j - 1], j)
  <2> HIDE DEF extend
  <2>1. \A j \in 0..n : cur[j] = IF j = 0 THEN <<i>> ELSE extend(cur[j - 1], j)
    BY <1>5
  <2> QED
    BY <2>1
<1> DEFINE Good(k) == /\ cur[k] \in Seq(Nat) /\ Len(cur[k]) = k + 1 /\ cur[k][1] = i
                      /\ \A j \in 1..k : cur[k][j + 1] = Min(RowChoices(a, b, i, rows, cur[k], j))
           G == {k \in 0..n : Good(k)}
<1>7. 0 \in G
  <2>1. <<i>> \in Seq(Nat) /\ Len(<<i>>) = 1 /\ <<i>>[1] = i
    OBVIOUS
  <2>2. Good(0)
    BY <1>6, <2>1
  <2> HIDE DEF Good
  <2> QED
    BY <2>2
<1>8. ASSUME NEW k \in 0..n - 1, k \in G PROVE k + 1 \in G
  <2> DEFINE c == cur[k]
             x == Min(RowChoices(a, b, i, rows, c, k + 1))
  <2>1. Good(k)
    BY <1>8
  <2>2. k + 1 \in 1..n /\ k + 1 - 1 = k /\ n \in Nat
    OBVIOUS
  <2>3. cur[k + 1] = Append(c, x)
    BY <1>6, <2>2 DEF extend
  <2>4. x \in Nat
    <3>1. c[k + 1] \in Nat
      BY <2>1
    <3> HIDE DEF c, n
    <3> QED
      BY <2>2, <3>1, RowChoicesType DEF n
  <2> HIDE DEF x
  <2>5. /\ cur[k + 1] \in Seq(Nat) /\ Len(cur[k + 1]) = k + 2
        /\ \A j \in 1..k + 1 : cur[k + 1][j] = c[j]
        /\ cur[k + 1][k + 2] = x
    BY <2>1, <2>3, <2>4
  <2>6. ASSUME NEW j \in 1..k + 1 PROVE cur[k + 1][j + 1] = Min(RowChoices(a, b, i, rows, cur[k + 1], j))
    <3>1. RowChoices(a, b, i, rows, cur[k + 1], j) = RowChoices(a, b, i, rows, c, j)
      BY <2>5 DEF RowChoices
    <3>2. CASE j = k + 1
      BY <2>5, <3>1, <3>2 DEF x
    <3>3. CASE j # k + 1
      <4>1. j \in 1..k /\ j + 1 \in 1..k + 1
        BY <3>3
      <4> QED
        BY <2>1, <2>5, <3>1, <4>1
    <3> QED
      BY <3>2, <3>3
  <2>7. cur[k + 1][1] = i
    <3>1. 1 \in 1..k + 1 /\ c[1] = i
      BY <2>1
    <3> QED
      BY <2>5, <3>1
  <2>8. Good(k + 1)
    BY <2>5, <2>6, <2>7
  <2> HIDE DEF Good
  <2> QED
    BY <2>2, <2>8
<1>9. Good(n)
  <2> HIDE DEF Good, n
  <2>1. n \in Nat
    BY DEF n
  <2>2. n \in G
    <3> HIDE DEF G
    <3>1. 0 \in G /\ \A k \in 0..n - 1 : k \in G => k + 1 \in G
      BY <1>7, <1>8
    <3>2. \A k \in 0..n : k \in G
      BY <2>1, <3>1, UpTo
    <3> QED
      BY <2>1, <3>2
  <2> QED
    BY <2>2
<1>10. cur[n] \in RowsOf(n)
  BY <1>9 DEF RowsOf
<1> QED
  BY <1>1, <1>9, <1>10

\* The rows that the code goes through: each is made of the two before it.
FollowEachOther(a, b, rows) ==
  /\ damerauLevenshtein(a, b) = rows[Len(a)].prev[Len(b) + 1]
  /\ \A i \in 0..Len(a) : rows[i].prev \in RowsOf(Len(b)) /\ rows[i].prev2 \in RowsOf(Len(b))
  /\ \A j \in 1..Len(b) + 1 : rows[0].prev[j] = j - 1
  /\ \A i \in 1..Len(a) : rows[i].prev2 = rows[i - 1].prev /\ rows[i].prev = Row(a, b, i, rows[i - 1])
LEMMA RowsFollow ==
  ASSUME NEW a, NEW b, Len(a) \in Nat \ {0}, Len(b) \in Nat \ {0}
  PROVE  \E rows : FollowEachOther(a, b, rows)
<1> DEFINE m == Len(a)
           n == Len(b)
           zeros == [j \in 1..n + 1 |-> 0]
           first == [j \in 1..n + 1 |-> j - 1]
           base == [prev2 |-> zeros, prev |-> first]
           X == [prev2 : RowsOf(n), prev : RowsOf(n)]
           step(r, i) == Rotate(r, Row(a, b, i, r))
           rows == CHOOSE f : f = [i \in 0..m |-> IF i = 0 THEN base ELSE step(f[i - 1], i)]
           F == [p \in X \X (1..m) |-> step(p[1], p[2])]
<1>1. damerauLevenshtein(a, b) = rows[m].prev[n + 1]
  BY DEF damerauLevenshtein
<1>2. base \in X
  BY DEF RowsOf
<1>3. ASSUME NEW r \in X, NEW i \in 1..m PROVE step(r, i) \in X
  <2>1. r.prev \in RowsOf(n) /\ r.prev2 \in RowsOf(n) /\ i \in Nat
    OBVIOUS
  <2>2. Row(a, b, i, r) \in RowsOf(n)
    <3> HIDE DEF X
    <3> QED
      BY <2>1, RowIsFilled
  <2> QED
    BY <2>1, <2>2 DEF Rotate
<1> HIDE DEF base, step
<1>4. F \in [X \X (1..m) -> X]
  <2> HIDE DEF X
  <2> QED
    BY <1>3
<1>5. PICK g \in [0..m -> X] : Stepping(m, base, F, g)
  <2>1. m \in Nat
    OBVIOUS
  <2> HIDE DEF X, F, m
  <2> QED
    BY <1>2, <1>4, <2>1, SteppingExists
<1>6. g = [i \in 0..m |-> IF i = 0 THEN base ELSE step(g[i - 1], i)]
  <2> HIDE DEF X
  <2>1. \A i \in 0..m : g[i] = IF i = 0 THEN base ELSE step(g[i - 1], i)
    <3>1. TAKE i \in 0..m
    <3>2. CASE i = 0
      BY <1>5, <3>2 DEF Stepping
    <3>3. CASE i # 0
      <4>1. i \in 1..m /\ i - 1 \in 0..m
        BY <3>3
      <4>2. g[i - 1] \in X /\ F[<<g[i - 1], i>>] = step(g[i - 1], i)
        BY <4>1
      <4>3. g[i] = F[<<g[i - 1], i>>]
        BY <1>5, <3>3 DEF Stepping
      <4> QED
        BY <3>3, <4>2, <4>3
    <3> QED
      BY <3>2, <3>3
  <2>2. DOMAIN g = 0..m /\ g = [i \in 0..m |-> g[i]]
    OBVIOUS
  <2> HIDE DEF m
  <2> QED
    BY <2>1, <2>2
<1>7. rows = [i \in 0..m |-> IF i = 0 THEN base ELSE step(rows[i - 1], i)]
  BY <1>6
<1> HIDE DEF rows, F
<1>8. rows[0] = base /\ \A i \in 1..m : rows[i] = step(rows[i - 1], i)
  BY <1>7
<1> DEFINE T == {i \in 0..m : rows[i] \in X}
<1>9. \A i \in 0..m : rows[i] \in X
  <2>1. m \in Nat
    OBVIOUS
  <2> HIDE DEF X
  <2>2. 0 \in T
    BY <1>2, <1>8
  <2>3. ASSUME NEW i \in 0..m - 1, i \in T PROVE i + 1 \in T
    <3>1. i + 1 \in 1..m /\ i + 1 - 1 = i
      OBVIOUS
    <3>2. rows[i + 1] = step(rows[i], i + 1)
      BY <1>8, <3>1
    <3> HIDE DEF m
    <3> QED
      BY <1>3, <2>3, <3>1, <3>2
  <2>4. \A i \in 0..m : i \in T
    <3> HIDE DEF T, m
    <3> QED
      BY <2>1, <2>2, <2>3, UpTo
  <2> QED
    BY <2>4
<1>10. \A i \in 0..m : rows[i].prev \in RowsOf(n) /\ rows[i].prev2 \in RowsOf(n)
  BY <1>9
<1>11. \A j \in 1..n + 1 : rows[0].prev[j] = j - 1
  BY <1>8 DEF base
<1>12. \A i \in 1..m : rows[i].prev2 = rows[i - 1].prev /\ rows[i].prev = Row(a, b, i, rows[i - 1])
  <2>1. ASSUME NEW r, NEW i PROVE step(r, i).prev2 = r.prev /\ step(r, i).prev = Row(a, b, i, r)
    BY DEF step, Rotate
  <2> HIDE DEF m, X, T
  <2> QED
    BY <1>8, <2>1
<1>13. FollowEachOther(a, b, rows)
  <2> HIDE DEF X, rows
  <2> QED
    BY <1>1, <1>10, <1>11, <1>12 DEF FollowEachOther
<1> QED
  BY <1>13

\* The distance of the code is the last cell of the table.
LEMMA CodeFillsTheTable ==
  ASSUME NEW a, NEW b, Len(a) \in Nat, Len(b) \in Nat
  PROVE  \E d : IsTable(a, b, d) /\ damerauLevenshtein(a, b) = d[<<Len(a), Len(b)>>]
<1> DEFINE m == Len(a)
           n == Len(b)
<1>1. CASE m = 0 \/ n = 0
  <2> DEFINE d == [c \in Cells(a, b) |-> c[1] + c[2]]
  <2>1. \A i \in 0..m, j \in 0..n : <<i, j>> \in Cells(a, b) /\ d[<<i, j>>] = i + j
    BY DEF Cells
  <2>2. d \in [Cells(a, b) -> Nat]
    BY DEF Cells
  <2>3. (\A i \in 0..m : d[<<i, 0>>] = i) /\ (\A j \in 0..n : d[<<0, j>>] = j)
    BY <2>1
  <2>4. damerauLevenshtein(a, b) = d[<<m, n>>]
    BY <1>1, <2>1 DEF damerauLevenshtein
  <2> HIDE DEF d
  <2> QED
    BY <1>1, <2>2, <2>3, <2>4 DEF IsTable
<1>2. CASE m # 0 /\ n # 0
  <2>0. PICK rows : FollowEachOther(a, b, rows)
    BY <1>2, RowsFollow
  <2>1. /\ damerauLevenshtein(a, b) = rows[m].prev[n + 1]
        /\ \A i \in 0..m : rows[i].prev \in RowsOf(n) /\ rows[i].prev2 \in RowsOf(n)
        /\ \A j \in 1..n + 1 : rows[0].prev[j] = j - 1
        /\ \A i \in 1..m : /\ rows[i].prev2 = rows[i - 1].prev
                           /\ rows[i].prev = Row(a, b, i, rows[i - 1])
    BY <2>0 DEF FollowEachOther
  <2> DEFINE d == [c \in Cells(a, b) |-> rows[c[1]].prev[c[2] + 1]]
  <2>2. \A i \in 0..m, j \in 0..n : <<i, j>> \in Cells(a, b) /\ d[<<i, j>>] = rows[i].prev[j + 1]
    BY DEF Cells
  <2>3. d \in [Cells(a, b) -> Nat]
    BY <2>1 DEF Cells, RowsOf
  <2> HIDE DEF d
  <2>4. ASSUME NEW i \in 1..m
        PROVE  /\ d[<<i, 0>>] = i
               /\ \A j \in 1..n : d[<<i, j>>] = Min(RowChoices(a, b, i, rows[i - 1], rows[i].prev, j))
    <3>1. i \in 0..m /\ i - 1 \in 0..m /\ i \in Nat /\ 0 \in 0..n
      OBVIOUS
    <3> HIDE DEF n, m
    <3>2. /\ rows[i].prev[1] = i
          /\ \A j \in 1..n : rows[i].prev[j + 1] = Min(RowChoices(a, b, i, rows[i - 1], rows[i].prev, j))
      <4> DEFINE r == rows[i - 1]
      <4>1. r.prev \in RowsOf(n) /\ r.prev2 \in RowsOf(n) /\ rows[i].prev = Row(a, b, i, r)
        BY <2>1, <3>1
      <4> HIDE DEF r
      <4>2. /\ Row(a, b, i, r)[1] = i
            /\ \A j \in 1..n : Row(a, b, i, r)[j + 1] = Min(RowChoices(a, b, i, r, Row(a, b, i, r), j))
        BY <3>1, <4>1, RowIsFilled DEF n
      <4> QED
        BY <4>1, <4>2 DEF r
    <3>3. d[<<i, 0>>] = rows[i].prev[1] /\ \A j \in 1..n : d[<<i, j>>] = rows[i].prev[j + 1]
      <4>1. 0 + 1 = 1 /\ \A j \in 1..n : j \in 0..n
        BY DEF n
      <4> QED
        BY <2>2, <3>1, <4>1
    <3> QED
      BY <3>2, <3>3
  <2>5. ASSUME NEW i \in 1..m, NEW j \in 1..n
        PROVE  RowChoices(a, b, i, rows[i - 1], rows[i].prev, j) = CellChoices(a, b, d, i, j)
    <3>1. /\ rows[i].prev[j] = d[<<i, j - 1>>]
          /\ rows[i - 1].prev[j + 1] = d[<<i - 1, j>>]
          /\ rows[i - 1].prev[j] = d[<<i - 1, j - 1>>]
      <4>1. i \in 0..m /\ i - 1 \in 0..m /\ j \in 0..n /\ j - 1 \in 0..n /\ j - 1 + 1 = j
        OBVIOUS
      <4> HIDE DEF m, n
      <4> QED
        BY <2>2, <4>1
    <3>2. i > 1 /\ j > 1 => rows[i - 1].prev2[j - 1] = d[<<i - 2, j - 2>>]
      <4>1. SUFFICES ASSUME i > 1, j > 1 PROVE rows[i - 1].prev2[j - 1] = d[<<i - 2, j - 2>>]
        OBVIOUS
      <4>2. i - 1 \in 1..m /\ i - 2 \in 0..m /\ i - 1 - 1 = i - 2 /\ j - 2 \in 0..n /\ j - 2 + 1 = j - 1
        BY <4>1
      <4>3. rows[i - 1].prev2 = rows[i - 2].prev
        BY <2>1, <4>2
      <4> HIDE DEF m, n
      <4> QED
        BY <2>2, <4>2, <4>3
    <3> HIDE DEF m, n
    <3> QED
      BY <3>1, <3>2 DEF RowChoices, CellChoices
  <2>6. \A j \in 0..n : d[<<0, j>>] = j
    <3>1. \A j \in 0..n : j + 1 \in 1..n + 1 /\ j + 1 - 1 = j /\ 0 \in 0..m
      OBVIOUS
    <3> HIDE DEF n, m
    <3> QED
      BY <2>1, <2>2, <3>1
  <2>7. \A i \in 0..m : d[<<i, 0>>] = i
    <3>1. \A i \in 0..m : i = 0 \/ i \in 1..m
      OBVIOUS
    <3>2. 0 \in 0..n
      OBVIOUS
    <3> HIDE DEF n, m
    <3> QED
      BY <2>4, <2>6, <3>1, <3>2
  <2>8. IsTable(a, b, d)
    BY <2>3, <2>4, <2>5, <2>6, <2>7 DEF IsTable
  <2>9. damerauLevenshtein(a, b) = d[<<m, n>>]
    BY <2>1, <2>2
  <2> QED
    BY <2>8, <2>9
<1> QED
  BY <1>1, <1>2

\* A cell is no more than one edit away from those it is made of, and it is one
\* of these distances.
LEMMA CellOfTable ==
  ASSUME NEW a, NEW b, Len(a) \in Nat, Len(b) \in Nat, NEW d, IsTable(a, b, d),
         NEW i \in 1..Len(a), NEW j \in 1..Len(b)
  PROVE  /\ d[<<i, j>>] \in Nat
         /\ d[<<i, j>>] \in CellChoices(a, b, d, i, j)
         /\ \A x \in CellChoices(a, b, d, i, j) : d[<<i, j>>] <= x
<1> DEFINE S == CellChoices(a, b, d, i, j)
<1>1. \A k \in 0..Len(a), l \in 0..Len(b) : d[<<k, l>>] \in Nat
  BY DEF IsTable, Cells
<1>2. i - 1 \in 0..Len(a) /\ j - 1 \in 0..Len(b) /\ i \in 0..Len(a) /\ j \in 0..Len(b)
  OBVIOUS
<1>3. i > 1 /\ j > 1 => i - 2 \in 0..Len(a) /\ j - 2 \in 0..Len(b)
  OBVIOUS
<1>4. S \in SUBSET Nat /\ S # {}
  <2>1. d[<<i, j - 1>>] \in Nat /\ d[<<i - 1, j>>] \in Nat /\ d[<<i - 1, j - 1>>] \in Nat
    BY <1>1, <1>2
  <2>2. i > 1 /\ j > 1 => d[<<i - 2, j - 2>>] \in Nat
    BY <1>1, <1>3
  <2> DEFINE y == d[<<i - 1, j - 1>>] + IF Letter(a, i) = Letter(b, j) THEN 0 ELSE 1
             others == IF i > 1 /\ j > 1 /\ Letter(a, i) = Letter(b, j - 1) /\ Letter(a, i - 1) = Letter(b, j)
                       THEN {d[<<i - 2, j - 2>>] + 1} ELSE {}
  <2>3. y \in Nat /\ d[<<i, j - 1>>] + 1 \in Nat /\ d[<<i - 1, j>>] + 1 \in Nat
    BY <2>1
  <2>4. others \in SUBSET Nat
    BY <2>2
  <2>5. S = {d[<<i, j - 1>>] + 1, d[<<i - 1, j>>] + 1, y} \union others
    BY DEF CellChoices
  <2> HIDE DEF S, y, others
  <2> QED
    BY <2>3, <2>4, <2>5
<1>5. d[<<i, j>>] = Min(S)
  BY DEF IsTable
<1> HIDE DEF S
<1>6. Min(S) \in S /\ Min(S) \in Nat /\ \A x \in S : Min(S) <= x
  BY <1>4, LeastNatural
<1> QED
  BY <1>5, <1>6 DEF S

-----------------------------------------------------------------------------
\* A layer of cells that are no more than k edits away, with all that are k
\* edits away among them.
Layer(a, b, d, k, cells) ==
  /\ cells \in SUBSET Cells(a, b)
  /\ \A c \in cells : d[c] <= k
  /\ \A c \in Cells(a, b) : d[c] = k => c \in cells

\* An edit takes a cell at most one farther.
LEMMA EditIsOneStep ==
  ASSUME NEW a, NEW b, Len(a) \in Nat, Len(b) \in Nat, NEW d, IsTable(a, b, d),
         NEW c \in Cells(a, b), NEW e \in Edited(a, b, c) \intersect Cells(a, b)
  PROVE  d[e] <= d[c] + 1
<1>1. PICK i \in 0..Len(a), j \in 0..Len(b) : c = <<i, j>>
  BY DEF Cells
<1>2. d[<<i, j>>] \in Nat /\ \A k \in 0..Len(a), l \in 0..Len(b) : d[<<k, l>>] \in Nat
  BY DEF IsTable, Cells
<1>3. CASE e = <<i + 1, j>>
  <2>1. i + 1 \in 1..Len(a)
    BY <1>3 DEF Cells
  <2>2. CASE j = 0
    BY <1>1, <1>3, <2>1, <2>2 DEF IsTable
  <2>3. CASE j # 0
    <3>1. j \in 1..Len(b) /\ i + 1 - 1 = i
      BY <2>3
    <3>2. d[<<i, j>>] + 1 \in CellChoices(a, b, d, i + 1, j)
      BY <3>1 DEF CellChoices
    <3> QED
      BY <1>1, <1>3, <2>1, <3>1, <3>2, CellOfTable
  <2> QED
    BY <2>2, <2>3
<1>4. CASE e = <<i, j + 1>>
  <2>1. j + 1 \in 1..Len(b)
    BY <1>4 DEF Cells
  <2>2. CASE i = 0
    BY <1>1, <1>4, <2>1, <2>2 DEF IsTable
  <2>3. CASE i # 0
    <3>1. i \in 1..Len(a) /\ j + 1 - 1 = j
      BY <2>3
    <3>2. d[<<i, j>>] + 1 \in CellChoices(a, b, d, i, j + 1)
      BY <3>1 DEF CellChoices
    <3> QED
      BY <1>1, <1>4, <2>1, <3>1, <3>2, CellOfTable
  <2> QED
    BY <2>2, <2>3
<1>5. CASE e = <<i + 1, j + 1>>
  <2>1. i + 1 \in 1..Len(a) /\ j + 1 \in 1..Len(b) /\ i + 1 - 1 = i /\ j + 1 - 1 = j
    BY <1>5 DEF Cells
  <2> DEFINE x == d[<<i, j>>] + IF Letter(a, i + 1) = Letter(b, j + 1) THEN 0 ELSE 1
  <2>2. x \in CellChoices(a, b, d, i + 1, j + 1)
    BY <2>1 DEF CellChoices
  <2>3. x <= d[<<i, j>>] + 1 /\ x \in Nat
    BY <1>2
  <2> HIDE DEF x
  <2>4. d[<<i + 1, j + 1>>] <= x /\ d[<<i + 1, j + 1>>] \in Nat
    BY <2>1, <2>2, CellOfTable
  <2> QED
    BY <1>1, <1>2, <1>5, <2>3, <2>4
<1>6. CASE Swappable(a, b, c) /\ e = <<i + 2, j + 2>>
  <2>1. i + 2 \in 1..Len(a) /\ j + 2 \in 1..Len(b)
    BY <1>6 DEF Cells
  <2>2. i + 2 - 2 = i /\ j + 2 - 2 = j /\ i + 2 - 1 = i + 1 /\ j + 2 - 1 = j + 1 /\ i + 2 > 1 /\ j + 2 > 1
    OBVIOUS
  <2>3. Letter(a, i + 1) = Letter(b, j + 2) /\ Letter(a, i + 2) = Letter(b, j + 1)
    BY <1>1, <1>6 DEF Swappable
  <2>4. d[<<i, j>>] + 1 \in CellChoices(a, b, d, i + 2, j + 2)
    BY <2>2, <2>3 DEF CellChoices
  <2> QED
    BY <1>1, <1>6, <2>1, <2>4, CellOfTable
<1>7. e \in {<<i + 1, j>>, <<i, j + 1>>, <<i + 1, j + 1>>} \/ (Swappable(a, b, c) /\ e = <<i + 2, j + 2>>)
  BY <1>1 DEF Edited
<1> QED
  BY <1>3, <1>4, <1>5, <1>6, <1>7

\* Passing equal letters takes a cell no farther.
LEMMA SlideIsFree ==
  ASSUME NEW a, NEW b, Len(a) \in Nat, Len(b) \in Nat, NEW d, IsTable(a, b, d),
         NEW c \in Cells(a, b), NEW e \in Slide(a, b, c)
  PROVE  e \in Cells(a, b) /\ d[e] <= d[c]
<1>1. PICK i \in 0..Len(a), j \in 0..Len(b) : c = <<i, j>>
  BY DEF Cells
<1>2. PICK k \in 0..Len(a) - i : /\ e = <<i + k, j + k>> /\ j + k <= Len(b)
                                /\ \A l \in 1..k : Letter(a, i + l) = Letter(b, j + l)
  BY <1>1 DEF Slide
<1> DEFINE T == {l \in 0..k : d[<<i + l, j + l>>] <= d[<<i, j>>]}
<1>3. \A l, m \in Nat : l <= Len(a) /\ m <= Len(b) => d[<<l, m>>] \in Nat
  BY DEF IsTable, Cells
<1>4. 0 \in T
  BY <1>3
<1>5. ASSUME NEW l \in 0..k - 1, l \in T PROVE l + 1 \in T
  <2>1. /\ i + (l + 1) \in 1..Len(a) /\ j + (l + 1) \in 1..Len(b) /\ l + 1 \in 1..k
        /\ i + (l + 1) - 1 = i + l /\ j + (l + 1) - 1 = j + l
    BY <1>2
  <2>2. d[<<i + l, j + l>>] \in Nat /\ d[<<i, j>>] \in Nat
    <3>1. i + l \in Nat /\ j + l \in Nat /\ i + l <= Len(a) /\ j + l <= Len(b)
      BY <2>1
    <3>2. i \in Nat /\ j \in Nat /\ i <= Len(a) /\ j <= Len(b)
      OBVIOUS
    <3> HIDE DEF T
    <3> QED
      BY <1>3, <3>1, <3>2
  <2>3. Letter(a, i + (l + 1)) = Letter(b, j + (l + 1))
    BY <1>2, <2>1
  <2>4. d[<<i + l, j + l>>] \in CellChoices(a, b, d, i + (l + 1), j + (l + 1))
    BY <2>1, <2>2, <2>3 DEF CellChoices
  <2>5. /\ d[<<i + (l + 1), j + (l + 1)>>] \in Nat
        /\ d[<<i + (l + 1), j + (l + 1)>>] <= d[<<i + l, j + l>>]
    BY <2>1, <2>4, CellOfTable
  <2> QED
    BY <1>5, <2>1, <2>2, <2>5
<1>6. \A l \in 0..k : l \in T
  <2>1. k \in Nat
    OBVIOUS
  <2> HIDE DEF T
  <2> QED
    BY <1>4, <1>5, <2>1, UpTo
<1>7. e \in Cells(a, b)
  BY <1>2 DEF Cells
<1> QED
  BY <1>1, <1>2, <1>6, <1>7

\* A cell is reached from a nearer one by an edit or, at equal letters, for free
\* from the one before.
LEMMA WhereACellComesFrom ==
  ASSUME NEW a, NEW b, Len(a) \in Nat, Len(b) \in Nat, NEW d, IsTable(a, b, d),
         NEW i \in 0..Len(a), NEW j \in 0..Len(b), i # 0 \/ j # 0
  PROVE  \/ \E c \in Cells(a, b) : <<i, j>> \in Edited(a, b, c) /\ d[<<i, j>>] = d[c] + 1
         \/ /\ i \in 1..Len(a) /\ j \in 1..Len(b)
            /\ Letter(a, i) = Letter(b, j) /\ d[<<i, j>>] = d[<<i - 1, j - 1>>]
<1>1. CASE i = 0
  <2>1. j - 1 \in 0..Len(b) /\ j \in 0..Len(b) /\ 0 \in 0..Len(a) /\ j - 1 + 1 = j
    BY <1>1
  <2>2. <<0, j - 1>> \in Cells(a, b) /\ <<0, j>> \in Edited(a, b, <<0, j - 1>>)
    BY <2>1 DEF Cells, Edited
  <2>3. d[<<0, j>>] = d[<<0, j - 1>>] + 1
    BY <2>1 DEF IsTable
  <2> QED
    BY <1>1, <2>2, <2>3
<1>2. CASE j = 0
  <2>1. i - 1 \in 0..Len(a) /\ i \in 0..Len(a) /\ 0 \in 0..Len(b) /\ i - 1 + 1 = i
    BY <1>2
  <2>2. <<i - 1, 0>> \in Cells(a, b) /\ <<i, 0>> \in Edited(a, b, <<i - 1, 0>>)
    BY <2>1 DEF Cells, Edited
  <2>3. d[<<i, 0>>] = d[<<i - 1, 0>>] + 1
    BY <2>1 DEF IsTable
  <2> QED
    BY <1>2, <2>2, <2>3
<1>3. CASE i # 0 /\ j # 0
  <2>1. i \in 1..Len(a) /\ j \in 1..Len(b)
    BY <1>3
  <2>2. /\ i - 1 \in 0..Len(a) /\ j - 1 \in 0..Len(b) /\ i - 1 + 1 = i /\ j - 1 + 1 = j
    BY <2>1
  <2>3. d[<<i, j>>] \in CellChoices(a, b, d, i, j)
    BY <2>1, CellOfTable
  <2>4. CASE d[<<i, j>>] = d[<<i, j - 1>>] + 1
    <3>1. <<i, j - 1>> \in Cells(a, b) /\ <<i, j>> \in Edited(a, b, <<i, j - 1>>)
      BY <2>2 DEF Cells, Edited
    <3> QED
      BY <2>4, <3>1
  <2>5. CASE d[<<i, j>>] = d[<<i - 1, j>>] + 1
    <3>1. <<i - 1, j>> \in Cells(a, b) /\ <<i, j>> \in Edited(a, b, <<i - 1, j>>)
      BY <2>2 DEF Cells, Edited
    <3> QED
      BY <2>5, <3>1
  <2>6. CASE d[<<i, j>>] = d[<<i - 1, j - 1>>] + IF Letter(a, i) = Letter(b, j) THEN 0 ELSE 1
    <3>1. <<i - 1, j - 1>> \in Cells(a, b) /\ <<i, j>> \in Edited(a, b, <<i - 1, j - 1>>)
      BY <2>2 DEF Cells, Edited
    <3>2. d[<<i - 1, j - 1>>] \in Nat
      BY <3>1 DEF IsTable
    <3>3. CASE Letter(a, i) = Letter(b, j)
      BY <2>1, <2>6, <3>2, <3>3
    <3>4. CASE Letter(a, i) # Letter(b, j)
      BY <2>6, <3>1, <3>4
    <3> QED
      BY <3>3, <3>4
  <2>7. CASE /\ i > 1 /\ j > 1 /\ Letter(a, i) = Letter(b, j - 1) /\ Letter(a, i - 1) = Letter(b, j)
             /\ d[<<i, j>>] = d[<<i - 2, j - 2>>] + 1
    <3>1. /\ i - 2 \in 0..Len(a) /\ j - 2 \in 0..Len(b) /\ i - 2 + 2 = i /\ j - 2 + 2 = j
          /\ i - 2 + 1 = i - 1 /\ j - 2 + 1 = j - 1
      BY <2>7
    <3>2. <<i - 2, j - 2>> \in Cells(a, b)
      BY <3>1 DEF Cells
    <3>3. Swappable(a, b, <<i - 2, j - 2>>)
      BY <2>7, <3>1 DEF Swappable
    <3>4. <<i, j>> \in Edited(a, b, <<i - 2, j - 2>>)
      BY <3>1, <3>3 DEF Edited
    <3> QED
      BY <2>7, <3>2, <3>4
  <2> QED
    BY <2>3, <2>4, <2>5, <2>6, <2>7 DEF CellChoices
<1> QED
  BY <1>1, <1>2, <1>3

\* A set of cells that has all that an edit brings to distance k, and that is
\* closed under equal letters, has all cells at that distance.
LEMMA NoCellIsMissing ==
  ASSUME NEW a, NEW b, Len(a) \in Nat, Len(b) \in Nat, NEW d, IsTable(a, b, d), NEW k, NEW cells,
         \A i \in 0..Len(a), j \in 0..Len(b) :
           /\ d[<<i, j>>] = k
           /\ \/ i = 0 /\ j = 0
              \/ \E c \in Cells(a, b) : <<i, j>> \in Edited(a, b, c) /\ k = d[c] + 1
           => <<i, j>> \in cells,
         \A i \in 1..Len(a), j \in 1..Len(b) :
           <<i - 1, j - 1>> \in cells /\ Letter(a, i) = Letter(b, j) => <<i, j>> \in cells
  PROVE  \A c \in Cells(a, b) : d[c] = k => c \in cells
<1> DEFINE T == {i \in 0..Len(a) : \A j \in 0..Len(b) : d[<<i, j>>] = k => <<i, j>> \in cells}
<1>1. ASSUME NEW i \in 0..Len(a), i = 0 \/ i - 1 \in T PROVE i \in T
  <2> SUFFICES ASSUME NEW j \in 0..Len(b), d[<<i, j>>] = k PROVE <<i, j>> \in cells
    OBVIOUS
  <2>1. CASE i = 0 /\ j = 0
    BY <2>1
  <2>2. CASE \E c \in Cells(a, b) : <<i, j>> \in Edited(a, b, c) /\ d[<<i, j>>] = d[c] + 1
    BY <2>2
  <2>3. CASE /\ i \in 1..Len(a) /\ j \in 1..Len(b)
             /\ Letter(a, i) = Letter(b, j) /\ d[<<i, j>>] = d[<<i - 1, j - 1>>]
    <3>1. i # 0 /\ j - 1 \in 0..Len(b)
      BY <2>3
    <3>2. <<i - 1, j - 1>> \in cells
      BY <1>1, <2>3, <3>1
    <3> QED
      BY <2>3, <3>2
  <2> HIDE DEF T
  <2> QED
    BY <2>1, <2>2, <2>3, WhereACellComesFrom
<1>2. 0 \in T
  <2>1. 0 \in 0..Len(a)
    OBVIOUS
  <2> HIDE DEF T
  <2> QED
    BY <1>1, <2>1
<1>3. ASSUME NEW i \in 0..Len(a) - 1, i \in T PROVE i + 1 \in T
  <2>1. i + 1 \in 0..Len(a) /\ i + 1 - 1 = i
    OBVIOUS
  <2> HIDE DEF T
  <2> QED
    BY <1>1, <1>3, <2>1
<1>4. \A i \in 0..Len(a) : i \in T
  <2> HIDE DEF T
  <2> QED
    BY <1>2, <1>3, UpTo
<1> QED
  BY <1>4 DEF Cells

\* Equal letters after a slide make it longer.
LEMMA SlideGoesOn ==
  ASSUME NEW a, NEW b, Len(a) \in Nat, Len(b) \in Nat, NEW c \in Cells(a, b),
         NEW i \in 1..Len(a), NEW j \in 1..Len(b),
         <<i - 1, j - 1>> \in Slide(a, b, c), Letter(a, i) = Letter(b, j)
  PROVE  <<i, j>> \in Slide(a, b, c)
<1>1. PICK p \in 0..Len(a), q \in 0..Len(b) : c = <<p, q>>
  BY DEF Cells
<1>2. PICK k \in 0..Len(a) - p : /\ <<i - 1, j - 1>> = <<p + k, q + k>> /\ q + k <= Len(b)
                                /\ \A l \in 1..k : Letter(a, p + l) = Letter(b, q + l)
  BY <1>1 DEF Slide
<1>3. i - 1 = p + k /\ j - 1 = q + k
  BY <1>2
<1>4. i = p + (k + 1) /\ j = q + (k + 1) /\ k + 1 \in 0..Len(a) - p /\ q + (k + 1) <= Len(b)
  BY <1>3
<1>5. \A l \in 1..k + 1 : l = k + 1 \/ l \in 1..k
  OBVIOUS
<1>6. \A l \in 1..k + 1 : Letter(a, p + l) = Letter(b, q + l)
  BY <1>2, <1>4, <1>5
<1> QED
  BY <1>1, <1>4, <1>6 DEF Slide

\* A cell is in its own slide.
LEMMA SlideStartsHere ==
  ASSUME NEW a, NEW b, Len(a) \in Nat, Len(b) \in Nat, NEW c \in Cells(a, b)
  PROVE  c \in Slide(a, b, c)
<1>1. PICK i \in 0..Len(a), j \in 0..Len(b) : c = <<i, j>>
  BY DEF Cells
<1>2. 0 \in 0..Len(a) - i /\ j + 0 <= Len(b) /\ i + 0 = i /\ j + 0 = j
  OBVIOUS
<1> QED
  BY <1>1, <1>2 DEF Slide

\* The cells that no edit reaches are the first layer.
LEMMA FirstLayer ==
  ASSUME NEW a, NEW b, Len(a) \in Nat, Len(b) \in Nat, NEW d, IsTable(a, b, d)
  PROVE  Layer(a, b, d, 0, Slide(a, b, <<0, 0>>))
<1> DEFINE cells == Slide(a, b, <<0, 0>>)
<1>1. <<0, 0>> \in Cells(a, b) /\ d[<<0, 0>>] = 0
  <2>1. 0 \in 0..Len(a) /\ 0 \in 0..Len(b)
    OBVIOUS
  <2> QED
    BY <2>1 DEF Cells, IsTable
<1>2. \A e \in cells : e \in Cells(a, b) /\ d[e] <= 0
  <2> TAKE e \in cells
  <2>1. e \in Cells(a, b) /\ d[e] <= d[<<0, 0>>]
    BY <1>1, SlideIsFree
  <2> QED
    BY <1>1, <2>1
<1>3. <<0, 0>> \in cells
  BY <1>1, SlideStartsHere
<1>4. \A i \in 1..Len(a), j \in 1..Len(b) :
        <<i - 1, j - 1>> \in cells /\ Letter(a, i) = Letter(b, j) => <<i, j>> \in cells
  BY <1>1, SlideGoesOn
<1>5. \A i \in 0..Len(a), j \in 0..Len(b) :
        /\ d[<<i, j>>] = 0
        /\ \/ i = 0 /\ j = 0
           \/ \E c \in Cells(a, b) : <<i, j>> \in Edited(a, b, c) /\ 0 = d[c] + 1
        => <<i, j>> \in cells
  <2>1. \A c \in Cells(a, b) : 0 # d[c] + 1
    BY DEF IsTable
  <2> HIDE DEF cells
  <2> QED
    BY <1>3, <2>1
<1>6. \A c \in Cells(a, b) : d[c] = 0 => c \in cells
  <2> HIDE DEF cells
  <2> QED
    BY <1>4, <1>5, NoCellIsMissing
<1> QED
  BY <1>2, <1>6 DEF Layer

\* One more edit leads from layer to layer.
LEMMA NextLayer ==
  ASSUME NEW a, NEW b, Len(a) \in Nat, Len(b) \in Nat, NEW d, IsTable(a, b, d),
         NEW k \in Nat, NEW cells, Layer(a, b, d, k, cells)
  PROVE  Layer(a, b, d, k + 1, OneMoreEdit(a, b, cells))
<1> DEFINE more == OneMoreEdit(a, b, cells)
           edited == (UNION {Edited(a, b, c) : c \in cells}) \intersect Cells(a, b)
<1>1. \A e : e \in more <=> \E c \in edited : e \in Slide(a, b, c)
  BY DEF OneMoreEdit
<1> HIDE DEF more
<1>2. \A e : e \in edited <=> e \in Cells(a, b) /\ \E c \in cells : e \in Edited(a, b, c)
  <2>1. \A e : e \in UNION {Edited(a, b, c) : c \in cells} <=> \E c \in cells : e \in Edited(a, b, c)
    OBVIOUS
  <2> DEFINE U == UNION {Edited(a, b, c) : c \in cells}
  <2>2. edited = U \intersect Cells(a, b)
    OBVIOUS
  <2> HIDE DEF U, edited
  <2>3. \A e : e \in U <=> \E c \in cells : e \in Edited(a, b, c)
    BY <2>1 DEF U
  <2> QED
    BY <2>2, <2>3
<1> HIDE DEF edited
<1>3. \A c \in Cells(a, b) : d[c] \in Nat
  BY DEF IsTable
<1>4. cells \in SUBSET Cells(a, b) /\ (\A c \in cells : d[c] <= k) /\ \A c \in Cells(a, b) : d[c] = k => c \in cells
  BY DEF Layer
<1>5. ASSUME NEW e \in edited PROVE e \in Cells(a, b) /\ d[e] <= k + 1
  <2>1. PICK c \in cells : e \in Edited(a, b, c)
    BY <1>2
  <2>2. d[e] <= d[c] + 1 /\ d[c] <= k /\ d[e] \in Nat /\ d[c] \in Nat /\ e \in Cells(a, b)
    BY <1>2, <1>3, <1>4, <2>1, EditIsOneStep
  <2> QED
    BY <2>2
<1>6. ASSUME NEW e \in more PROVE e \in Cells(a, b) /\ d[e] <= k + 1
  <2>1. PICK c \in edited : e \in Slide(a, b, c)
    BY <1>1
  <2>2. e \in Cells(a, b) /\ d[e] <= d[c]
    BY <1>5, <2>1, SlideIsFree
  <2>3. d[e] \in Nat /\ d[c] \in Nat /\ d[c] <= k + 1
    BY <1>3, <1>5, <2>2
  <2> QED
    BY <2>2, <2>3
<1>7. ASSUME NEW i \in 1..Len(a), NEW j \in 1..Len(b), <<i - 1, j - 1>> \in more, Letter(a, i) = Letter(b, j)
      PROVE  <<i, j>> \in more
  <2>1. PICK c \in edited : <<i - 1, j - 1>> \in Slide(a, b, c)
    BY <1>1, <1>7
  <2>2. <<i, j>> \in Slide(a, b, c)
    BY <1>5, <1>7, <2>1, SlideGoesOn
  <2> QED
    BY <1>1, <2>2
<1>8. ASSUME NEW i \in 0..Len(a), NEW j \in 0..Len(b), d[<<i, j>>] = k + 1,
             \/ i = 0 /\ j = 0
             \/ \E c \in Cells(a, b) : <<i, j>> \in Edited(a, b, c) /\ k + 1 = d[c] + 1
      PROVE  <<i, j>> \in more
  <2>1. ~ (i = 0 /\ j = 0)
    BY <1>8 DEF IsTable
  <2>2. PICK c \in Cells(a, b) : <<i, j>> \in Edited(a, b, c) /\ k + 1 = d[c] + 1
    BY <1>8, <2>1
  <2>3. d[c] = k
    BY <1>3, <2>2
  <2>4. <<i, j>> \in Cells(a, b)
    BY DEF Cells
  <2>5. <<i, j>> \in edited
    BY <1>2, <1>4, <2>2, <2>3, <2>4
  <2>6. <<i, j>> \in Slide(a, b, <<i, j>>)
    BY <2>4, SlideStartsHere
  <2> QED
    BY <1>1, <2>5, <2>6
<1>9. \A c \in Cells(a, b) : d[c] = k + 1 => c \in more
  BY <1>7, <1>8, NoCellIsMissing
<1> QED
  BY <1>6, <1>9 DEF Layer, more

\* No edit leaves the table.
LEMMA EditsStayInTheTable ==
  ASSUME NEW a, NEW b, Len(a) \in Nat, Len(b) \in Nat
  PROVE  /\ \A c \in Cells(a, b) : Slide(a, b, c) \in SUBSET Cells(a, b)
         /\ \A cells \in SUBSET Cells(a, b) : OneMoreEdit(a, b, cells) \in SUBSET Cells(a, b)
<1>1. PICK d : IsTable(a, b, d)
  BY CodeFillsTheTable
<1>2. \A c \in Cells(a, b) : Slide(a, b, c) \in SUBSET Cells(a, b)
  BY <1>1, SlideIsFree
<1>3. ASSUME NEW cells \in SUBSET Cells(a, b), NEW e \in OneMoreEdit(a, b, cells) PROVE e \in Cells(a, b)
  <2> DEFINE edited == (UNION {Edited(a, b, c) : c \in cells}) \intersect Cells(a, b)
  <2>1. PICK c \in Cells(a, b) : e \in Slide(a, b, c)
    <3>1. e \in UNION {Slide(a, b, c) : c \in edited} /\ edited \in SUBSET Cells(a, b)
      BY <1>3 DEF OneMoreEdit
    <3> HIDE DEF edited
    <3> QED
      BY <3>1
  <2> QED
    BY <1>2, <2>1
<1> QED
  BY <1>2, <1>3

\* The count of the reference: none at the goal, and one more than from the
\* next layer elsewhere.
CountsEdits(a, b, f) ==
  /\ Edits(a, b) = f[Len(a) + Len(b)][Slide(a, b, <<0, 0>>)]
  /\ \A left \in 0..Len(a) + Len(b), cells \in SUBSET Cells(a, b) :
       f[left][cells] =
         IF <<Len(a), Len(b)>> \in cells \/ left = 0 THEN 0
         ELSE 1 + f[left - 1][OneMoreEdit(a, b, cells)]
LEMMA EditsAreCounted ==
  ASSUME NEW a, NEW b, Len(a) \in Nat, Len(b) \in Nat
  PROVE  \E f : CountsEdits(a, b, f)
<1> DEFINE most == Len(a) + Len(b)
           Sets == SUBSET Cells(a, b)
           goal == <<Len(a), Len(b)>>
           more(cells) == OneMoreEdit(a, b, cells)
           count(f, left) == [cells \in Sets |-> IF goal \in cells \/ left = 0 THEN 0 ELSE 1 + f[left - 1][more(cells)]]
           least == CHOOSE f : f = [left \in 0..most |-> count(f, left)]
           X == [Sets -> Nat]
           base == [cells \in Sets |-> 0]
           F == [p \in X \X (1..most) |-> [cells \in Sets |-> IF goal \in cells THEN 0 ELSE 1 + p[1][more(cells)]]]
<1>1. Edits(a, b) = least[most][Slide(a, b, <<0, 0>>)]
  BY DEF Edits
<1>2. most \in Nat
  OBVIOUS
<1>3. \A cells \in Sets : more(cells) \in Sets
  BY EditsStayInTheTable
<1> HIDE DEF Sets, goal, more, most
<1>4. base \in X
  OBVIOUS
<1>5. F \in [X \X (1..most) -> X]
  BY <1>3
<1>6. PICK g \in [0..most -> X] : Stepping(most, base, F, g)
  <2> HIDE DEF X, base, F
  <2> QED
    BY <1>2, <1>4, <1>5, SteppingExists
<1>7. ASSUME NEW left \in 0..most PROVE g[left] = count(g, left)
  <2>1. CASE left = 0
    <3>1. g[left] = base
      BY <1>6, <2>1 DEF Stepping
    <3>2. base = count(g, 0)
      OBVIOUS
    <3> QED
      BY <2>1, <3>1, <3>2
  <2>2. CASE left # 0
    <3>1. left \in 1..most /\ left - 1 \in 0..most
      BY <1>2, <2>2
    <3>2. g[left] = F[<<g[left - 1], left>>]
      <4> HIDE DEF F, base, X
      <4> QED
        BY <1>6, <2>2 DEF Stepping
    <3>3. g[left - 1] \in X
      BY <3>1
    <3>4. F[<<g[left - 1], left>>] = [cells \in Sets |-> IF goal \in cells THEN 0 ELSE 1 + g[left - 1][more(cells)]]
      BY <3>1, <3>3
    <3> QED
      BY <2>2, <3>2, <3>4
  <2> QED
    BY <2>1, <2>2
<1>8. g = [left \in 0..most |-> count(g, left)]
  <2>1. DOMAIN g = 0..most /\ g = [left \in 0..most |-> g[left]]
    OBVIOUS
  <2> HIDE DEF count
  <2> QED
    BY <1>7, <2>1
<1>9. least = [left \in 0..most |-> count(least, left)]
  <2> HIDE DEF count
  <2> QED
    BY <1>8
<1> HIDE DEF least
<1>10. \A left \in 0..most, cells \in Sets :
         least[left][cells] = IF goal \in cells \/ left = 0 THEN 0 ELSE 1 + least[left - 1][more(cells)]
  <2>1. \A left \in 0..most : least[left] = count(least, left)
    <3> HIDE DEF count
    <3> QED
      BY <1>9
  <2> QED
    BY <2>1
<1>11. CountsEdits(a, b, least)
  BY <1>1, <1>10 DEF CountsEdits, most, Sets, goal, more
<1> QED
  BY <1>11

\* No cell is farther than the letters before it.
LEMMA DistanceIsBounded ==
  ASSUME NEW a, NEW b, Len(a) \in Nat, Len(b) \in Nat, NEW d, IsTable(a, b, d)
  PROVE  d[<<Len(a), Len(b)>>] \in 0..Len(a) + Len(b)
<1> DEFINE T == {i \in 0..Len(a) : d[<<i, Len(b)>>] <= i + Len(b)}
<1>1. \A i \in 0..Len(a) : <<i, Len(b)>> \in Cells(a, b) /\ d[<<i, Len(b)>>] \in Nat
  BY DEF IsTable, Cells
<1>2. 0 \in T
  BY DEF IsTable
<1>3. ASSUME NEW i \in 0..Len(a) - 1, i \in T PROVE i + 1 \in T
  <2>1. i \in 0..Len(a) /\ i + 1 \in 0..Len(a)
    OBVIOUS
  <2>2. <<i + 1, Len(b)>> \in Edited(a, b, <<i, Len(b)>>)
    BY DEF Edited
  <2>3. d[<<i + 1, Len(b)>>] <= d[<<i, Len(b)>>] + 1
    <3> HIDE DEF T
    <3> QED
      BY <1>1, <2>1, <2>2, EditIsOneStep
  <2>4. d[<<i + 1, Len(b)>>] \in Nat /\ d[<<i, Len(b)>>] \in Nat
    BY <1>1, <2>1
  <2> QED
    BY <1>3, <2>1, <2>3, <2>4
<1>4. Len(a) \in T
  <2>1. \A i \in 0..Len(a) : i \in T
    <3> HIDE DEF T
    <3> QED
      BY <1>2, <1>3, UpTo
  <2> HIDE DEF T
  <2> QED
    BY <2>1
<1> QED
  BY <1>1, <1>4

\* The distance that the code computes row by row (damerauLevenshtein,
\* fuzzy_context.go:393-434) is the least number of edits that turn one word
\* into the other, for all words.
THEOREM DistanceIsTheLeastNumberOfEdits ==
  ASSUME NEW a, NEW b, Len(a) \in Nat, Len(b) \in Nat
  PROVE  damerauLevenshtein(a, b) = Edits(a, b) /\ Edits(a, b) \in 0..Len(a) + Len(b)
<1>1. PICK d : IsTable(a, b, d) /\ damerauLevenshtein(a, b) = d[<<Len(a), Len(b)>>]
  BY CodeFillsTheTable
<1> DEFINE most == Len(a) + Len(b)
           goal == <<Len(a), Len(b)>>
           far == d[goal]
<1>2. PICK f : CountsEdits(a, b, f)
  BY EditsAreCounted
<1>3. \A left \in 0..most, cells \in SUBSET Cells(a, b) :
         f[left][cells] = IF goal \in cells \/ left = 0 THEN 0 ELSE 1 + f[left - 1][OneMoreEdit(a, b, cells)]
  BY <1>2 DEF CountsEdits
<1>4. far \in 0..most /\ most \in Nat /\ goal \in Cells(a, b)
  BY <1>1, DistanceIsBounded DEF Cells
<1> HIDE DEF most, goal, far
<1> DEFINE Right(n) == \A left \in n..most : \A cells : Layer(a, b, d, far - n, cells) => f[left][cells] = n
           T == {n \in 0..far : Right(n)}
<1>5. Right(0)
  <2> SUFFICES ASSUME NEW left \in 0..most, NEW cells, Layer(a, b, d, far - 0, cells)
               PROVE  f[left][cells] = 0
    OBVIOUS
  <2>1. far - 0 = far
    BY <1>4
  <2>2. goal \in cells /\ cells \in SUBSET Cells(a, b)
    BY <1>4, <2>1 DEF Layer, far
  <2> QED
    BY <1>3, <2>2
<1>6. ASSUME NEW n \in 0..far - 1, Right(n) PROVE Right(n + 1)
  <2> SUFFICES ASSUME NEW left \in n + 1..most, NEW cells, Layer(a, b, d, far - (n + 1), cells)
               PROVE  f[left][cells] = n + 1
    OBVIOUS
  <2> DEFINE k == far - (n + 1)
  <2>1. /\ k \in Nat /\ k + 1 = far - n /\ k < far
        /\ left - 1 \in n..most /\ left \in 0..most /\ left # 0
    BY <1>4
  <2>2. Layer(a, b, d, k + 1, OneMoreEdit(a, b, cells))
    <3> HIDE DEF k, Right, T
    <3> QED
      BY <1>1, <2>1, NextLayer DEF k
  <2>3. f[left - 1][OneMoreEdit(a, b, cells)] = n
    BY <1>6, <2>1, <2>2
  <2>4. goal \notin cells /\ cells \in SUBSET Cells(a, b)
    BY <1>4, <2>1 DEF Layer, far
  <2> QED
    BY <1>3, <2>1, <2>3, <2>4
<1>7. Right(far)
  <2> HIDE DEF Right
  <2>1. 0 \in T /\ \A n \in 0..far - 1 : n \in T => n + 1 \in T
    BY <1>4, <1>5, <1>6
  <2>2. far \in Nat
    BY <1>4
  <2> HIDE DEF T
  <2>3. \A n \in 0..far : n \in T
    BY <2>1, <2>2, UpTo
  <2> QED
    BY <2>2, <2>3 DEF T
<1>8. Layer(a, b, d, 0, Slide(a, b, <<0, 0>>)) /\ far - far = 0 /\ most \in far..most
  BY <1>1, <1>4, FirstLayer
<1>9. f[most][Slide(a, b, <<0, 0>>)] = far
  BY <1>7, <1>8
<1>10. Edits(a, b) = f[most][Slide(a, b, <<0, 0>>)]
  BY <1>2 DEF CountsEdits, most
<1> QED
  BY <1>1, <1>4, <1>9, <1>10 DEF far, goal, most
=============================================================================
