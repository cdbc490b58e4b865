----------------------------- MODULE SortProofs -----------------------------
(***************************************************************************)
(* Proofs that the sorts and the search of ArrayList compute what they      *)
(* should on every array of integers, whatever its length.                  *)
(*                                                                         *)
(* Induction is by the least counterexample (WFMin).  A recursive function  *)
(* satisfies its equation when every call it makes has a smaller measure    *)
(* (RecursionExists), which is proved of each of them before it is unfolded.*)
(***************************************************************************)
EXTENDS ListSort, WellFoundedInduction, FiniteSetTheorems, TLAPS

-----------------------------------------------------------------------------
(* Induction, and that a recursive function satisfies its equation *)

LEMMA LeastNumber ==
    ASSUME NEW T \in SUBSET Nat, T # {}
    PROVE  \E n \in T : \A k \in T : n <= k
<1>1. PICK n \in T : \A k \in T : ~ (<<k, n>> \in OpToRel(<, Nat))
  BY WFMin, NatLessThanWellFounded, Zenon
<1>2. \A k \in T : ~ (k < n)
  BY <1>1 DEF OpToRel
<1> QED BY <1>2

LEMMA NumbersUpwards ==
    ASSUME NEW P \in SUBSET Nat, 0 \in P, \A n \in P : n + 1 \in P
    PROVE  P = Nat
<1> SUFFICES ASSUME P # Nat PROVE FALSE
  OBVIOUS
<1>1. PICK n \in Nat \ P : \A k \in Nat \ P : n <= k
  BY LeastNumber
<1>2. n # 0 /\ n - 1 \in Nat /\ n - 1 \in P BY <1>1
<1>3. (n - 1) + 1 \in P BY <1>2
<1> QED BY <1>1, <1>3

\* G[x][f] looks at f only where the measure is smaller.
Descends(D, V, m, G) ==
    \A x \in D : \A f, g \in [D -> V] :
        (\A y \in D : m[y] < m[x] => f[y] = g[y]) => G[x][f] = G[x][g]
GoodBelow(D, m, G, f, n) == \A x \in D : m[x] < n => f[x] = G[x][f]

LEMMA AgreeBelow ==
    ASSUME NEW D, NEW V, NEW m \in [D -> Nat], NEW G, Descends(D, V, m, G), NEW n \in Nat,
           NEW f \in [D -> V], NEW g \in [D -> V],
           GoodBelow(D, m, G, f, n), GoodBelow(D, m, G, g, n)
    PROVE  \A x \in D : m[x] < n => f[x] = g[x]
<1> DEFINE T == {k \in Nat : \E x \in D : m[x] = k /\ k < n /\ f[x] # g[x]}
<1> SUFFICES ASSUME T # {} PROVE FALSE
  OBVIOUS
<1>1. PICK k \in T : \A j \in T : k <= j
  <2>1. T \in SUBSET Nat OBVIOUS
  <2> HIDE DEF T
  <2> QED BY <2>1, LeastNumber
<1>2. PICK x \in D : m[x] = k /\ k < n /\ f[x] # g[x] OBVIOUS
<1>3. \A y \in D : m[y] < m[x] => f[y] = g[y]
  <2> SUFFICES ASSUME NEW y \in D, m[y] < m[x], f[y] # g[y] PROVE FALSE
    OBVIOUS
  <2>1. m[y] \in Nat /\ k \in Nat /\ m[y] < n BY <1>2
  <2>2. m[y] \in T BY <2>1
  <2> QED BY <1>1, <1>2, <2>1, <2>2
<1>4. G[x][f] = G[x][g] BY <1>3 DEF Descends
<1>5. f[x] = G[x][f] /\ g[x] = G[x][g] BY <1>2 DEF GoodBelow
<1> QED BY <1>2, <1>4, <1>5

WellDefined(D, V, m, G) ==
    /\ V # {} /\ m \in [D -> Nat] /\ G \in [D -> [[D -> V] -> V]]
    /\ Descends(D, V, m, G)
Solves(D, V, G, f) == f \in [D -> V] /\ \A x \in D : f[x] = G[x][f]

LEMMA RecursionExists ==
    ASSUME NEW D, NEW V, NEW m, NEW G, WellDefined(D, V, m, G)
    PROVE  \E f : Solves(D, V, G, f)
<1> USE DEF WellDefined, Solves
<1> DEFINE P == {n \in Nat : \E f \in [D -> V] : GoodBelow(D, m, G, f, n)}
<1>1. 0 \in P
  <2>1. PICK v \in V : TRUE OBVIOUS
  <2>2. [x \in D |-> v] \in [D -> V] OBVIOUS
  <2>3. GoodBelow(D, m, G, [x \in D |-> v], 0) BY DEF GoodBelow
  <2> QED BY <2>2, <2>3
<1>2. \A n \in P : n + 1 \in P
  <2> SUFFICES ASSUME NEW n \in Nat, NEW f \in [D -> V], GoodBelow(D, m, G, f, n)
               PROVE  \E g \in [D -> V] : GoodBelow(D, m, G, g, n + 1)
    OBVIOUS
  <2> DEFINE g == [x \in D |-> G[x][f]]
  <2>1. g \in [D -> V] OBVIOUS
  <2>2. ASSUME NEW x \in D, m[x] < n + 1 PROVE g[x] = G[x][g]
    <3>1. ASSUME NEW y \in D, m[y] < m[x] PROVE g[y] = f[y]
      <4>1. m[y] < n BY <2>2, <3>1
      <4> QED BY <4>1 DEF GoodBelow
    <3>2. g[x] = G[x][f] OBVIOUS
    <3> HIDE DEF g
    <3>3. G[x][g] = G[x][f] BY <2>1, <3>1 DEF Descends
    <3> QED BY <3>2, <3>3
  <2> HIDE DEF g
  <2>3. GoodBelow(D, m, G, g, n + 1) BY <2>2 DEF GoodBelow
  <2> QED BY <2>1, <2>3
<1>3. P = Nat
  <2>1. P \in SUBSET Nat OBVIOUS
  <2> HIDE DEF P
  <2> QED BY <1>1, <1>2, <2>1, NumbersUpwards
<1>4. \A n \in Nat : \E f \in [D -> V] : GoodBelow(D, m, G, f, n) BY <1>3
<1> DEFINE upto(n) == CHOOSE f \in [D -> V] : GoodBelow(D, m, G, f, n)
<1>5. \A n \in Nat : upto(n) \in [D -> V] /\ GoodBelow(D, m, G, upto(n), n) BY <1>4, Zenon
<1> HIDE DEF upto
<1> DEFINE h == [x \in D |-> upto(m[x] + 1)[x]]
<1>6. h \in [D -> V]
  <2>1. ASSUME NEW x \in D PROVE upto(m[x] + 1)[x] \in V
    <3>1. m[x] + 1 \in Nat OBVIOUS
    <3>2. upto(m[x] + 1) \in [D -> V] BY <1>5, <3>1
    <3> QED BY <3>2
  <2> QED BY <2>1
<1>7. ASSUME NEW x \in D PROVE h[x] = G[x][h]
  <2> DEFINE f == upto(m[x] + 1)
  <2>1. m[x] + 1 \in Nat OBVIOUS
  <2>2. f \in [D -> V] /\ GoodBelow(D, m, G, f, m[x] + 1) BY <1>5, <2>1
  <2>3. ASSUME NEW y \in D, m[y] < m[x] PROVE h[y] = f[y]
    <3>1. m[y] + 1 \in Nat OBVIOUS
    <3>2. upto(m[y] + 1) \in [D -> V] /\ GoodBelow(D, m, G, upto(m[y] + 1), m[y] + 1) BY <1>5, <3>1
    <3>3. GoodBelow(D, m, G, f, m[y] + 1)
      <4> HIDE DEF f
      <4> QED BY <2>2, <2>3, <3>1 DEF GoodBelow
    <3>4. m[y] < m[y] + 1 OBVIOUS
    <3> HIDE DEF f
    <3>5. \A z \in D : m[z] < m[y] + 1 => upto(m[y] + 1)[z] = f[z]
      BY <2>2, <3>1, <3>2, <3>3, AgreeBelow
    <3>6. upto(m[y] + 1)[y] = f[y] BY <3>4, <3>5
    <3> QED BY <3>6
  <2>4. f[x] = G[x][f]
    <3> HIDE DEF f
    <3> QED BY <2>2 DEF GoodBelow
  <2>5. h[x] = f[x] OBVIOUS
  <2> HIDE DEF f, h
  <2>6. G[x][h] = G[x][f] BY <1>6, <2>2, <2>3 DEF Descends
  <2> QED BY <2>4, <2>5, <2>6
<1> HIDE DEF h
<1> QED BY <1>6, <1>7

\* x is in Q if everything is for which the measure is smaller.
Inductive(D, m, Q) ==
    /\ m \in [D -> Nat] /\ Q \in SUBSET D
    /\ \A x \in D : (\A y \in D : m[y] < m[x] => y \in Q) => x \in Q

LEMMA MeasureInduction ==
    ASSUME NEW D, NEW m, NEW Q, Inductive(D, m, Q)
    PROVE  Q = D
<1> USE DEF Inductive
<1> DEFINE T == {k \in Nat : \E x \in D : m[x] = k /\ x \notin Q}
<1> SUFFICES ASSUME T # {} PROVE FALSE
  OBVIOUS
<1>1. T \in SUBSET Nat OBVIOUS
<1>2. PICK k \in T : \A j \in T : k <= j
  <2> HIDE DEF T
  <2> QED BY <1>1, LeastNumber
<1>3. PICK x \in D : m[x] = k /\ x \notin Q OBVIOUS
<1>4. ASSUME NEW y \in D, m[y] < m[x], y \notin Q PROVE FALSE
  <2>1. m[y] \in Nat /\ k \in Nat OBVIOUS
  <2>2. m[y] \in T BY <1>4, <2>1
  <2> QED BY <1>2, <1>3, <1>4, <2>1, <2>2
<1> QED BY <1>3, <1>4

-----------------------------------------------------------------------------
(* The search *)

\* One call of the search, its recursive calls answered by f.
SearchStep(a, element, r, f) ==
    LET index1 == r[1]
        index2 == r[2]
        pivot == (index1 + index2) \div 2
    IN  IF index1 < index2
        THEN IF element < a[pivot] THEN f[<<index1, pivot - 1>>]
             ELSE IF element > a[pivot] THEN f[<<pivot + 1, index2>>]
             ELSE pivot
        ELSE IF index1 = index2 THEN index1 ELSE -1

LEMMA Middle ==
    ASSUME NEW i \in Int, NEW j \in Int, i < j
    PROVE  (i + j) \div 2 \in Int /\ i <= (i + j) \div 2 /\ (i + j) \div 2 < j
OBVIOUS

LEMMA SearchUnfolds ==
    ASSUME NEW a, NEW element
    PROVE  /\ SearchRanges(a, element) \in [Int \X Int -> Int]
           /\ \A r \in Int \X Int :
                 SearchRanges(a, element)[r] = SearchStep(a, element, r, SearchRanges(a, element))
<1> DEFINE D == Int \X Int
           m == [r \in D |-> IF r[1] < r[2] THEN r[2] - r[1] ELSE 0]
           G == [r \in D |-> [f \in [D -> Int] |-> SearchStep(a, element, r, f)]]
<1>1. m \in [D -> Nat] OBVIOUS
<1>2. G \in [D -> [[D -> Int] -> Int]]
  <2> SUFFICES ASSUME NEW r \in D, NEW f \in [D -> Int] PROVE SearchStep(a, element, r, f) \in Int
    OBVIOUS
  <2> QED BY DEF SearchStep
<1>3. Descends(D, Int, m, G)
  <2> SUFFICES ASSUME NEW r \in D, NEW f \in [D -> Int], NEW g \in [D -> Int],
                      \A q \in D : m[q] < m[r] => f[q] = g[q]
               PROVE  SearchStep(a, element, r, f) = SearchStep(a, element, r, g)
    BY DEF Descends
  <2>1. PICK i \in Int, j \in Int : r = <<i, j>> OBVIOUS
  <2>2. CASE i < j
    <3> DEFINE p == (i + j) \div 2
    <3>1. p \in Int /\ i <= p /\ p < j BY <2>2, Middle
    <3> HIDE DEF p
    <3>2. f[<<i, p - 1>>] = g[<<i, p - 1>>]
      <4>1. <<i, p - 1>> \in D BY <3>1
      <4>2. m[<<i, p - 1>>] < m[r] BY <2>1, <2>2, <3>1, <4>1
      <4> QED BY <4>1, <4>2
    <3>3. f[<<p + 1, j>>] = g[<<p + 1, j>>]
      <4>1. <<p + 1, j>> \in D BY <3>1
      <4>2. m[<<p + 1, j>>] < m[r] BY <2>1, <2>2, <3>1, <4>1
      <4> QED BY <4>1, <4>2
    <3> QED BY <2>1, <3>2, <3>3 DEF SearchStep, p
  <2>3. CASE ~ (i < j) BY <2>1, <2>3 DEF SearchStep
  <2> QED BY <2>2, <2>3
<1>4. PICK f : Solves(D, Int, G, f)
  <2>1. WellDefined(D, Int, m, G) BY <1>1, <1>2, <1>3 DEF WellDefined
  <2> HIDE DEF D, m, G
  <2> QED BY <2>1, RecursionExists, Zenon
<1>5. f = [r \in Int \X Int |-> SearchStep(a, element, r, f)]
  BY <1>4 DEF Solves
<1> DEFINE S == SearchRanges(a, element)
<1>6. S = [r \in Int \X Int |-> SearchStep(a, element, r, S)]
  BY <1>5, Zenon DEF SearchRanges, SearchStep
<1> HIDE DEF S
<1>7. \A r \in Int \X Int : S[r] = SearchStep(a, element, r, S) BY <1>6, Zenon
<1>8. S \in [D -> Int]
  <2> DEFINE Q == {r \in D : S[r] \in Int}
  <2>1. ASSUME NEW r \in D, \A q \in D : m[q] < m[r] => q \in Q PROVE S[r] \in Int
    <3>1. PICK i \in Int, j \in Int : r = <<i, j>> OBVIOUS
    <3>2. S[r] = SearchStep(a, element, <<i, j>>, S) BY <1>7, <3>1
    <3>3. CASE i < j
      <4> DEFINE p == (i + j) \div 2
      <4>1. p \in Int /\ i <= p /\ p < j BY <3>3, Middle
      <4> HIDE DEF p
      <4>2. <<i, p - 1>> \in D /\ <<p + 1, j>> \in D BY <4>1
      <4>3. m[<<i, p - 1>>] < m[r] /\ m[<<p + 1, j>>] < m[r] BY <3>1, <3>3, <4>1, <4>2
      <4>4. S[<<i, p - 1>>] \in Int /\ S[<<p + 1, j>>] \in Int
        <5> HIDE DEF m
        <5> QED BY <2>1, <4>2, <4>3
      <4> QED BY <3>2, <3>3, <4>1, <4>4 DEF SearchStep, p
    <3>4. CASE ~ (i < j) BY <3>2, <3>4 DEF SearchStep
    <3> QED BY <3>3, <3>4
  <2>2. Q = D
    <3>1. Inductive(D, m, Q) BY <1>1, <2>1 DEF Inductive
    <3> HIDE DEF D, m, Q
    <3> QED BY <3>1, MeasureInduction, Zenon
  <2>3. S = [r \in D |-> S[r]] BY <1>6
  <2> QED BY <2>2, <2>3
<1> QED BY <1>7, <1>8 DEF S

LEMMA SizeIs ==
    ASSUME NEW n \in Nat, NEW a, DOMAIN a = 0 .. n - 1
    PROVE  Size(a) = n
<1>1. Cardinality(0 .. n - 1) = IF 0 > n - 1 THEN 0 ELSE (n - 1) - 0 + 1 BY FS_Interval
<1>2. Cardinality(0 .. n - 1) = n BY <1>1
<1> QED BY <1>2 DEF Size

\* In an ascending array of any length, binarySearch finds an element that is there; it
\* always answers with a number.
THEOREM SearchFindsElements ==
    ASSUME NEW n \in Nat, NEW a \in [0 .. n - 1 -> Int], Ascending(a), NEW element \in Int
    PROVE  /\ binarySearch(a, element, TRUE) \in Int
           /\ element \in Range(a) =>
                 /\ binarySearch(a, element, TRUE) \in 0 .. n - 1
                 /\ a[binarySearch(a, element, TRUE)] = element
<1> DEFINE S == SearchRanges(a, element)
           D == Int \X Int
           m == [r \in D |-> IF r[1] < r[2] THEN r[2] - r[1] ELSE 0]
<1>1. S \in [D -> Int] /\ \A r \in D : S[r] = SearchStep(a, element, r, S) BY SearchUnfolds
<1>2. binarySearch(a, element, TRUE) = S[<<0, n - 1>>] BY SizeIs DEF binarySearch
<1>3. <<0, n - 1>> \in D OBVIOUS
<1> HIDE DEF S
<1>4. ASSUME NEW k \in 0 .. n - 1, a[k] = element
      PROVE  S[<<0, n - 1>>] \in 0 .. n - 1 /\ a[S[<<0, n - 1>>]] = element
  <2> DEFINE Around(r) == 0 <= r[1] /\ r[1] <= k /\ k <= r[2] /\ r[2] <= n - 1
             Found(r) == S[r] \in 0 .. n - 1 /\ a[S[r]] = element
             Q == {r \in D : Around(r) => Found(r)}
  <2>1. ASSUME NEW r \in D, \A q \in D : m[q] < m[r] => q \in Q, Around(r) PROVE Found(r)
    <3>1. PICK i \in Int, j \in Int : r = <<i, j>> OBVIOUS
    <3>2. S[r] = SearchStep(a, element, <<i, j>>, S) BY <1>1, <3>1
    <3>3. 0 <= i /\ i <= k /\ k <= j /\ j <= n - 1 BY <2>1, <3>1
    <3>4. CASE i < j
      <4> DEFINE p == (i + j) \div 2
      <4>1. p \in Int /\ i <= p /\ p < j BY <3>4, Middle
      <4> HIDE DEF p
      <4>2. S[r] = IF element < a[p] THEN S[<<i, p - 1>>]
                   ELSE IF element > a[p] THEN S[<<p + 1, j>>] ELSE p
        BY <3>2, <3>4 DEF SearchStep, p
      <4>3. <<i, p - 1>> \in D /\ <<p + 1, j>> \in D BY <4>1
      <4>4. m[<<i, p - 1>>] < m[r] /\ m[<<p + 1, j>>] < m[r] BY <3>1, <3>4, <4>1, <4>3
      <4>5. p \in 0 .. n - 1 /\ a[p] \in Int BY <3>3, <4>1
      <4> HIDE DEF m
      <4>6. CASE element < a[p]
        <5>1. k <= p - 1 BY <1>4, <3>3, <4>1, <4>5, <4>6 DEF Ascending
        <5>2. Around(<<i, p - 1>>) BY <3>3, <4>1, <5>1
        <5>3. Found(<<i, p - 1>>) BY <2>1, <4>3, <4>4, <5>2
        <5> QED BY <4>2, <4>6, <5>3
      <4>7. CASE element > a[p]
        <5>1. p + 1 <= k BY <1>4, <3>3, <4>1, <4>5, <4>7 DEF Ascending
        <5>2. Around(<<p + 1, j>>) BY <3>3, <4>1, <5>1
        <5>3. Found(<<p + 1, j>>) BY <2>1, <4>3, <4>4, <5>2
        <5>4. ~ (element < a[p]) BY <4>5, <4>7
        <5> QED BY <4>2, <4>7, <5>3, <5>4
      <4>8. CASE element = a[p] BY <4>2, <4>5, <4>8
      <4> QED BY <4>5, <4>6, <4>7, <4>8
    <3>5. CASE ~ (i < j)
      <4>1. i = j /\ i = k BY <3>3, <3>5
      <4>2. S[r] = k BY <3>2, <4>1 DEF SearchStep
      <4> QED BY <1>4, <4>2
    <3> QED BY <3>4, <3>5
  <2>2. Q = D
    <3>1. Inductive(D, m, Q) BY <2>1 DEF Inductive
    <3> HIDE DEF D, m, Q
    <3> QED BY <3>1, MeasureInduction, Zenon
  <2>3. Around(<<0, n - 1>>) OBVIOUS
  <2>4. <<0, n - 1>> \in Q BY <1>3, <2>2
  <2> QED BY <2>3, <2>4
<1>5. element \in Range(a) => \E k \in 0 .. n - 1 : a[k] = element BY DEF Range
<1> QED BY <1>1, <1>2, <1>3, <1>4, <1>5

\* No element of a lies strictly between the one at s and e.
NextTo(a, n, s, e) == \A k \in 0 .. n - 1 : ~ (a[s] < a[k] /\ a[k] < e) /\ ~ (e < a[k] /\ a[k] < a[s])

\* The search for an absent element of an ascending array of any length ends with -1, or
\* at an index whose element it has not compared: one of the two next to it in order.
THEOREM SearchEndsBeside ==
    ASSUME NEW n \in Nat, NEW a \in [0 .. n - 1 -> Int], Ascending(a), NEW element \in Int,
           element \notin Range(a)
    PROVE  \/ binarySearch(a, element, TRUE) = -1
           \/ /\ binarySearch(a, element, TRUE) \in 0 .. n - 1
              /\ NextTo(a, n, binarySearch(a, element, TRUE), element)
<1> DEFINE S == SearchRanges(a, element)
           D == Int \X Int
           m == [r \in D |-> IF r[1] < r[2] THEN r[2] - r[1] ELSE 0]
<1>1. S \in [D -> Int] /\ \A r \in D : S[r] = SearchStep(a, element, r, S) BY SearchUnfolds
<1>2. binarySearch(a, element, TRUE) = S[<<0, n - 1>>] BY SizeIs DEF binarySearch
<1>3. <<0, n - 1>> \in D OBVIOUS
<1> HIDE DEF S
<1> DEFINE Around(r) == /\ 0 <= r[1] /\ r[2] <= n - 1
                        /\ \A k \in 0 .. n - 1 : (k < r[1] => a[k] < element) /\ (k > r[2] => a[k] > element)
           Ends(r) == S[r] = -1 \/ (S[r] \in 0 .. n - 1 /\ NextTo(a, n, S[r], element))
           Q == {r \in D : Around(r) => Ends(r)}
<1>4. ASSUME NEW r \in D, \A q \in D : m[q] < m[r] => q \in Q, Around(r) PROVE Ends(r)
  <2>1. PICK i \in Int, j \in Int : r = <<i, j>> OBVIOUS
  <2>2. S[r] = SearchStep(a, element, <<i, j>>, S) BY <1>1, <2>1
  <2>3. /\ 0 <= i /\ j <= n - 1
        /\ \A k \in 0 .. n - 1 : (k < i => a[k] < element) /\ (k > j => a[k] > element)
    BY <1>4, <2>1
  <2>4. CASE i < j
    <3> DEFINE p == (i + j) \div 2
    <3>1. p \in Int /\ i <= p /\ p < j BY <2>4, Middle
    <3> HIDE DEF p
    <3>2. S[r] = IF element < a[p] THEN S[<<i, p - 1>>]
                 ELSE IF element > a[p] THEN S[<<p + 1, j>>] ELSE p
      BY <2>2, <2>4 DEF SearchStep, p
    <3>3. <<i, p - 1>> \in D /\ <<p + 1, j>> \in D BY <3>1
    <3>4. m[<<i, p - 1>>] < m[r] /\ m[<<p + 1, j>>] < m[r] BY <2>1, <2>4, <3>1, <3>3
    <3>5. p \in 0 .. n - 1 /\ a[p] \in Int BY <2>3, <3>1
    <3> HIDE DEF m
    <3>6. CASE element < a[p]
      <4>1. \A k \in 0 .. n - 1 : k > p - 1 => a[k] > element
        <5> SUFFICES ASSUME NEW k \in 0 .. n - 1, k > p - 1 PROVE a[k] > element
          OBVIOUS
        <5>1. a[p] <= a[k] BY <3>5 DEF Ascending
        <5> QED BY <3>5, <3>6, <5>1
      <4>2. Around(<<i, p - 1>>) BY <2>3, <3>1, <4>1
      <4>3. Ends(<<i, p - 1>>) BY <1>4, <3>3, <3>4, <4>2
      <4> QED BY <3>2, <3>6, <4>3
    <3>7. CASE element > a[p]
      <4>1. \A k \in 0 .. n - 1 : k < p + 1 => a[k] < element
        <5> SUFFICES ASSUME NEW k \in 0 .. n - 1, k < p + 1 PROVE a[k] < element
          OBVIOUS
        <5>1. a[k] <= a[p] BY <3>5 DEF Ascending
        <5> QED BY <3>5, <3>7, <5>1
      <4>2. Around(<<p + 1, j>>) BY <2>3, <3>1, <4>1
      <4>3. Ends(<<p + 1, j>>) BY <1>4, <3>3, <3>4, <4>2
      <4>4. ~ (element < a[p]) BY <3>5, <3>7
      <4> QED BY <3>2, <3>7, <4>3, <4>4
    <3>8. element # a[p] BY <3>5 DEF Range
    <3> QED BY <3>5, <3>6, <3>7, <3>8
  <2>5. CASE i = j
    <3>1. S[r] = i /\ i \in 0 .. n - 1 BY <2>2, <2>3, <2>5 DEF SearchStep
    <3>2. NextTo(a, n, i, element)
      <4> SUFFICES ASSUME NEW k \in 0 .. n - 1
                   PROVE  ~ (a[i] < a[k] /\ a[k] < element) /\ ~ (element < a[k] /\ a[k] < a[i])
        BY DEF NextTo
      <4>1. a[i] \in Int /\ a[k] \in Int BY <3>1
      <4>2. CASE k < i
        <5>1. a[k] <= a[i] /\ a[k] < element BY <2>3, <3>1, <4>2 DEF Ascending
        <5> QED BY <4>1, <5>1
      <4>3. CASE k > i
        <5>1. a[i] <= a[k] /\ a[k] > element BY <2>3, <2>5, <3>1, <4>3 DEF Ascending
        <5> QED BY <4>1, <5>1
      <4>4. CASE k = i BY <4>1, <4>4
      <4> QED BY <4>2, <4>3, <4>4
    <3> QED BY <3>1, <3>2
  <2>6. CASE i > j BY <2>2, <2>6 DEF SearchStep
  <2> QED BY <2>4, <2>5, <2>6
<1>5. Q = D
  <2>1. Inductive(D, m, Q)
    <3>1. m \in [D -> Nat] OBVIOUS
    <3>2. Q \in SUBSET D OBVIOUS
    <3>3. \A r \in D : (\A q \in D : m[q] < m[r] => q \in Q) => r \in Q
      <4> HIDE DEF D, m, Around, Ends
      <4> QED BY <1>4
    <3> HIDE DEF D, m, Q
    <3> QED BY <3>1, <3>2, <3>3 DEF Inductive
  <2> HIDE DEF D, m, Q
  <2> QED BY <2>1, MeasureInduction, Zenon
<1>6. Around(<<0, n - 1>>) OBVIOUS
<1>7. <<0, n - 1>> \in Q BY <1>3, <1>5
<1>8. Ends(<<0, n - 1>>) BY <1>6, <1>7
<1> QED BY <1>2, <1>8

-----------------------------------------------------------------------------
(* Rearranging the elements of an array *)

\* p permutes the indices lo .. hi of an array of n elements, the others stay.
Shuffle(n, lo, hi, p) ==
    /\ p \in [0 .. n - 1 -> 0 .. n - 1]
    /\ \A i, j \in 0 .. n - 1 : p[i] = p[j] => i = j
    /\ \A k \in 0 .. n - 1 : IF lo <= k /\ k <= hi THEN lo <= p[k] /\ p[k] <= hi ELSE p[k] = k

\* r is a with the elements at lo .. hi in another order.
Rearranges(r, a, n, lo, hi) ==
    /\ r \in [0 .. n - 1 -> Int] /\ a \in [0 .. n - 1 -> Int]
    /\ \E p : Shuffle(n, lo, hi, p) /\ \A k \in 0 .. n - 1 : r[k] = a[p[k]]

LEMMA RearrangesItself ==
    ASSUME NEW n \in Nat, NEW a \in [0 .. n - 1 -> Int], NEW lo \in Int, NEW hi \in Int
    PROVE  Rearranges(a, a, n, lo, hi)
<1> DEFINE p == [k \in 0 .. n - 1 |-> k]
<1>1. Shuffle(n, lo, hi, p) /\ \A k \in 0 .. n - 1 : a[k] = a[p[k]] BY DEF Shuffle
<1> HIDE DEF p
<1> QED BY <1>1 DEF Rearranges

LEMMA RearrangesWider ==
    ASSUME NEW n \in Nat, NEW a, NEW r, NEW lo \in Int, NEW hi \in Int,
           NEW lo2 \in Int, NEW hi2 \in Int, lo2 <= lo, hi <= hi2, Rearranges(r, a, n, lo, hi)
    PROVE  Rearranges(r, a, n, lo2, hi2)
<1>1. PICK p : Shuffle(n, lo, hi, p) /\ \A k \in 0 .. n - 1 : r[k] = a[p[k]] BY DEF Rearranges
<1>2. Shuffle(n, lo2, hi2, p) BY <1>1 DEF Shuffle
<1> QED BY <1>1, <1>2 DEF Rearranges

LEMMA RearrangesTwice ==
    ASSUME NEW n \in Nat, NEW a, NEW b, NEW c, NEW lo \in Int, NEW hi \in Int,
           Rearranges(b, a, n, lo, hi), Rearranges(c, b, n, lo, hi)
    PROVE  Rearranges(c, a, n, lo, hi)
<1>1. PICK p : Shuffle(n, lo, hi, p) /\ \A k \in 0 .. n - 1 : b[k] = a[p[k]] BY DEF Rearranges
<1>2. PICK q : Shuffle(n, lo, hi, q) /\ \A k \in 0 .. n - 1 : c[k] = b[q[k]] BY DEF Rearranges
<1> DEFINE s == [k \in 0 .. n - 1 |-> p[q[k]]]
<1>3. \A k \in 0 .. n - 1 : q[k] \in 0 .. n - 1 /\ p[k] \in 0 .. n - 1 BY <1>1, <1>2 DEF Shuffle
<1>4. s \in [0 .. n - 1 -> 0 .. n - 1] BY <1>3
<1>5. \A k \in 0 .. n - 1 : s[k] = p[q[k]] OBVIOUS
<1> HIDE DEF s
<1>6. \A i, j \in 0 .. n - 1 : s[i] = s[j] => i = j BY <1>1, <1>2, <1>3, <1>5 DEF Shuffle
<1>7. \A k \in 0 .. n - 1 : IF lo <= k /\ k <= hi THEN lo <= s[k] /\ s[k] <= hi ELSE s[k] = k
  <2> TAKE k \in 0 .. n - 1
  <2>1. q[k] \in 0 .. n - 1 /\ s[k] = p[q[k]] BY <1>3, <1>5
  <2>2. IF lo <= k /\ k <= hi THEN lo <= q[k] /\ q[k] <= hi ELSE q[k] = k BY <1>2 DEF Shuffle
  <2>3. IF lo <= q[k] /\ q[k] <= hi THEN lo <= p[q[k]] /\ p[q[k]] <= hi ELSE p[q[k]] = q[k]
    BY <1>1, <2>1 DEF Shuffle
  <2> QED BY <2>1, <2>2, <2>3
<1>8. Shuffle(n, lo, hi, s) BY <1>4, <1>6, <1>7 DEF Shuffle
<1>9. \A k \in 0 .. n - 1 : c[k] = a[s[k]] BY <1>1, <1>2, <1>3, <1>5
<1> QED BY <1>8, <1>9 DEF Rearranges

LEMMA RearrangesMove ==
    ASSUME NEW n \in Nat, NEW a \in [0 .. n - 1 -> Int], NEW lo \in Int, NEW hi \in Int,
           NEW i \in 0 .. n - 1, NEW j \in 0 .. n - 1, lo <= i, i <= hi, lo <= j, j <= hi
    PROVE  Rearranges(move(a, i, j), a, n, lo, hi)
<1> DEFINE p == [k \in 0 .. n - 1 |-> IF k = j THEN i ELSE IF k = i THEN j ELSE k]
<1>1. Shuffle(n, lo, hi, p) BY DEF Shuffle
<1>2. \A k \in 0 .. n - 1 : move(a, i, j)[k] = a[p[k]] BY DEF move
<1>3. move(a, i, j) \in [0 .. n - 1 -> Int] BY DEF move
<1> HIDE DEF p
<1> QED BY <1>1, <1>2, <1>3 DEF Rearranges

LEMMA RearrangesInside ==
    ASSUME NEW n \in Nat, NEW a, NEW r, NEW lo, NEW hi, Rearranges(r, a, n, lo, hi)
    PROVE  \A k \in 0 .. n - 1 : ~ (lo <= k /\ k <= hi) => r[k] = a[k]
<1>1. PICK p : Shuffle(n, lo, hi, p) /\ \A k \in 0 .. n - 1 : r[k] = a[p[k]] BY DEF Rearranges
<1> QED BY <1>1 DEF Shuffle

LEMMA RearrangesBelow ==
    ASSUME NEW n \in Nat, NEW a, NEW r, NEW lo \in 0 .. n, NEW hi \in -1 .. n - 1,
           Rearranges(r, a, n, lo, hi), NEW v, \A k \in lo .. hi : a[k] <= v
    PROVE  \A k \in lo .. hi : r[k] <= v
<1>1. PICK p : Shuffle(n, lo, hi, p) /\ \A k \in 0 .. n - 1 : r[k] = a[p[k]] BY DEF Rearranges
<1>2. \A k \in lo .. hi : p[k] \in lo .. hi /\ r[k] = a[p[k]] BY <1>1 DEF Shuffle
<1> QED BY <1>2

LEMMA RearrangesAbove ==
    ASSUME NEW n \in Nat, NEW a, NEW r, NEW lo \in 0 .. n, NEW hi \in -1 .. n - 1,
           Rearranges(r, a, n, lo, hi), NEW v, \A k \in lo .. hi : a[k] >= v
    PROVE  \A k \in lo .. hi : r[k] >= v
<1>1. PICK p : Shuffle(n, lo, hi, p) /\ \A k \in 0 .. n - 1 : r[k] = a[p[k]] BY DEF Rearranges
<1>2. \A k \in lo .. hi : p[k] \in lo .. hi /\ r[k] = a[p[k]] BY <1>1 DEF Shuffle
<1> QED BY <1>2

\* A rearranged array has every element as often as before.
LEMMA RearrangesPermutes ==
    ASSUME NEW n \in Nat, NEW a, NEW r, NEW lo \in Int, NEW hi \in Int, Rearranges(r, a, n, lo, hi)
    PROVE  Permutes(r, a)
<1> DEFINE I == 0 .. n - 1
<1>1. PICK p : Shuffle(n, lo, hi, p) /\ \A k \in 0 .. n - 1 : r[k] = a[p[k]] BY DEF Rearranges
<1>2. DOMAIN r = I /\ DOMAIN a = I BY DEF Rearranges
<1>3. p \in [I -> I] /\ (\A i, j \in I : p[i] = p[j] => i = j) BY <1>1 DEF Shuffle
<1>4. IsFiniteSet(I) BY FS_Interval
<1> HIDE DEF I
<1>5. p \in Injection(I, I) BY <1>3 DEF Injection, IsInjective
<1>6. p \in Surjection(I, I) BY <1>4, <1>5, FS_Injection
<1>7. \A i \in I : \E k \in I : p[k] = i BY <1>6 DEF Surjection
<1>8. \A k \in I : r[k] = a[p[k]] BY <1>1 DEF I
<1>9. Range(r) = Range(a)
  <2>1. Range(r) \subseteq Range(a) BY <1>2, <1>3, <1>8 DEF Range
  <2>2. Range(a) \subseteq Range(r)
    <3> SUFFICES ASSUME NEW i \in I PROVE a[i] \in Range(r)
      BY <1>2 DEF Range
    <3>1. PICK k \in I : p[k] = i BY <1>7
    <3>2. r[k] = a[i] BY <1>8, <3>1
    <3> QED BY <1>2, <3>2 DEF Range
  <2> QED BY <2>1, <2>2
<1>10. ASSUME NEW v PROVE Count(r, v) = Count(a, v)
  <2> DEFINE R == {i \in I : r[i] = v}
             A == {i \in I : a[i] = v}
             q == [i \in R |-> p[i]]
  <2>1. q \in [R -> A] BY <1>3, <1>8
  <2>2. \A i, j \in R : q[i] = q[j] => i = j BY <1>3
  <2>3. \A k \in A : \E i \in R : q[i] = k
    <3> TAKE k \in A
    <3>1. PICK i \in I : p[i] = k BY <1>7
    <3>2. i \in R BY <1>8, <3>1
    <3> QED BY <3>1, <3>2
  <2>4. IsFiniteSet(R) BY <1>4, FS_Subset
  <2>5. Cardinality(A) = Cardinality(R)
    <3> HIDE DEF R, A, q
    <3>1. q \in Bijection(R, A) BY <2>1, <2>2, <2>3 DEF Bijection, Injection, Surjection, IsInjective
    <3>2. ExistsBijection(R, A) BY <3>1 DEF ExistsBijection
    <3> QED BY <2>4, <3>2, FS_Bijection
  <2> QED BY <1>2, <2>5 DEF Count
<1> QED BY <1>9, <1>10 DEF Permutes

-----------------------------------------------------------------------------
(* Insertion sort *)

LEMMA MaxOf ==
    ASSUME NEW S \in SUBSET Int, S # {}, NEW b \in Int, \A x \in S : x <= b
    PROVE  Max(S) \in S /\ \A y \in S : y <= Max(S)
<1> DEFINE T == {k \in Nat : b - k \in S}
<1>1. T \in SUBSET Nat OBVIOUS
<1>2. T # {}
  <2>1. PICK x \in S : TRUE OBVIOUS
  <2>2. x \in Int /\ b - x \in Nat /\ b - (b - x) = x OBVIOUS
  <2>3. b - x \in T BY <2>2
  <2> QED BY <2>3
<1>3. PICK k \in T : \A j \in T : k <= j
  <2> HIDE DEF T
  <2> QED BY <1>1, <1>2, LeastNumber
<1>4. b - k \in S OBVIOUS
<1>5. \A y \in S : b - k >= y
  <2> TAKE y \in S
  <2>1. y \in Int /\ b - y \in Nat /\ b - (b - y) = y OBVIOUS
  <2>2. b - y \in T BY <2>1
  <2> QED BY <1>3, <2>1, <2>2
<1>6. \E x \in S : \A y \in S : x >= y BY <1>4, <1>5
<1>7. Max(S) \in S /\ \A y \in S : Max(S) >= y BY <1>6, Zenon DEF Max
<1> QED BY <1>7

LEMMA MinOf ==
    ASSUME NEW S \in SUBSET Int, S # {}, NEW b \in Int, \A x \in S : b <= x
    PROVE  Min(S) \in S /\ \A y \in S : Min(S) <= y
<1> DEFINE T == {k \in Nat : b + k \in S}
<1>1. T \in SUBSET Nat OBVIOUS
<1>2. T # {}
  <2>1. PICK x \in S : TRUE OBVIOUS
  <2>2. x \in Int /\ x - b \in Nat /\ b + (x - b) = x OBVIOUS
  <2>3. x - b \in T BY <2>2
  <2> QED BY <2>3
<1>3. PICK k \in T : \A j \in T : k <= j
  <2> HIDE DEF T
  <2> QED BY <1>1, <1>2, LeastNumber
<1>4. b + k \in S OBVIOUS
<1>5. \A y \in S : b + k <= y
  <2> TAKE y \in S
  <2>1. y \in Int /\ y - b \in Nat /\ b + (y - b) = y OBVIOUS
  <2>2. y - b \in T BY <2>1
  <2> QED BY <1>3, <2>1, <2>2
<1>6. \E x \in S : \A y \in S : x <= y BY <1>4, <1>5
<1>7. Min(S) \in S /\ \A y \in S : Min(S) <= y BY <1>6, Zenon DEF Min
<1> QED BY <1>7

\* Where Insert puts the element: those it passes are larger, the one before is not.
LEMMA InsertPlace ==
    ASSUME NEW n \in Nat, NEW a \in [0 .. n - 1 -> Int], NEW j \in 0 .. n - 1
    PROVE  \E k \in 0 .. j :
              /\ Insert(a, j, a[j]) = [i \in 0 .. n - 1 |->
                     IF i = k THEN a[j] ELSE IF k < i /\ i <= j THEN a[i - 1] ELSE a[i]]
              /\ \A i \in k + 1 .. j : a[i - 1] > a[j]
              /\ k > 0 => a[k - 1] <= a[j]
<1> DEFINE S == {0} \cup {i \in 1 .. j : a[i - 1] <= a[j]}
           k == Max(S)
<1>1. j \in Int /\ S \in SUBSET Int /\ S # {} /\ \A x \in S : x <= j OBVIOUS
<1>2. k \in S /\ \A y \in S : y <= k
  <2> HIDE DEF S
  <2> QED BY <1>1, MaxOf
<1>3. Insert(a, j, a[j]) = [i \in 0 .. n - 1 |->
          IF i = k THEN a[j] ELSE IF k < i /\ i <= j THEN a[i - 1] ELSE a[i]]
  BY DEF Insert
<1> HIDE DEF k
<1>4. k \in 0 .. j BY <1>2
<1>5. \A i \in k + 1 .. j : a[i - 1] > a[j]
  <2> TAKE i \in k + 1 .. j
  <2>1. i \in 1 .. j /\ i - 1 \in 0 .. n - 1 /\ i > k BY <1>4
  <2>2. i \notin S BY <1>2, <1>4, <2>1
  <2> QED BY <2>1, <2>2
<1>6. k > 0 => a[k - 1] <= a[j] BY <1>2
<1> HIDE DEF S
<1> WITNESS k \in 0 .. j
<1> QED BY <1>3, <1>5, <1>6, Zenon

LEMMA InsertRearranges ==
    ASSUME NEW n \in Nat, NEW a \in [0 .. n - 1 -> Int], NEW j \in 0 .. n - 1, NEW lo \in 0 .. j,
           lo > 0 => a[lo - 1] <= a[j]
    PROVE  /\ Rearranges(Insert(a, j, a[j]), a, n, lo, j)
           /\ (\A x, y \in lo .. j - 1 : x < y => a[x] <= a[y]) =>
                 \A x, y \in lo .. j : x < y => Insert(a, j, a[j])[x] <= Insert(a, j, a[j])[y]
<1> DEFINE r == Insert(a, j, a[j])
<1>1. PICK k \in 0 .. j :
              /\ r = [i \in 0 .. n - 1 |->
                     IF i = k THEN a[j] ELSE IF k < i /\ i <= j THEN a[i - 1] ELSE a[i]]
              /\ \A i \in k + 1 .. j : a[i - 1] > a[j]
              /\ k > 0 => a[k - 1] <= a[j]
  BY InsertPlace
<1> HIDE DEF r
<1>2. lo <= k
  <2> SUFFICES ASSUME k < lo PROVE FALSE
    OBVIOUS
  <2>1. lo \in k + 1 .. j /\ lo > 0 /\ lo - 1 \in 0 .. n - 1 OBVIOUS
  <2>2. a[lo - 1] > a[j] BY <1>1, <2>1
  <2> QED BY <2>1, <2>2
<1> DEFINE p == [i \in 0 .. n - 1 |-> IF i = k THEN j ELSE IF k < i /\ i <= j THEN i - 1 ELSE i]
<1>3. Shuffle(n, lo, j, p)
  <2>1. p \in [0 .. n - 1 -> 0 .. n - 1] OBVIOUS
  <2>2. \A x, y \in 0 .. n - 1 : p[x] = p[y] => x = y OBVIOUS
  <2>3. \A x \in 0 .. n - 1 : IF lo <= x /\ x <= j THEN lo <= p[x] /\ p[x] <= j ELSE p[x] = x
    BY <1>2
  <2> QED BY <2>1, <2>2, <2>3 DEF Shuffle
<1>4. r \in [0 .. n - 1 -> Int] BY <1>1
<1>5. \A i \in 0 .. n - 1 : r[i] = a[p[i]] BY <1>1
<1> HIDE DEF p
<1>6. Rearranges(r, a, n, lo, j) BY <1>3, <1>4, <1>5 DEF Rearranges
<1>7. ASSUME \A x, y \in lo .. j - 1 : x < y => a[x] <= a[y],
             NEW x \in lo .. j, NEW y \in lo .. j, x < y
      PROVE  r[x] <= r[y]
  <2>1. \A i \in lo .. j : r[i] = IF i = k THEN a[j] ELSE IF k < i THEN a[i - 1] ELSE a[i] BY <1>1
  <2>2. CASE y < k BY <1>7, <2>1, <2>2
  <2>3. CASE y = k
    <3>1. x \in lo .. j - 1 /\ k - 1 \in lo .. j - 1 BY <1>2, <1>7, <2>3
    <3>2. a[x] <= a[k - 1] BY <1>7, <2>3, <3>1
    <3>3. a[k - 1] <= a[j] BY <1>1, <1>7, <2>3
    <3> QED BY <1>7, <2>1, <2>3, <3>1, <3>2, <3>3
  <2>4. CASE k < y /\ x < k
    <3>1. x \in lo .. j - 1 /\ y - 1 \in lo .. j - 1 /\ x < y - 1 BY <1>2, <1>7, <2>4
    <3> QED BY <1>7, <2>1, <2>4, <3>1
  <2>5. CASE k < y /\ x = k
    <3>1. a[y - 1] > a[j] BY <1>1, <2>5
    <3> QED BY <2>1, <2>5, <3>1
  <2>6. CASE k < x
    <3>1. x - 1 \in lo .. j - 1 /\ y - 1 \in lo .. j - 1 /\ x - 1 < y - 1 BY <1>2, <1>7, <2>6
    <3> QED BY <1>7, <2>1, <2>6, <3>1
  <2> QED BY <1>7, <2>2, <2>3, <2>4, <2>5, <2>6
<1> QED BY <1>6, <1>7 DEF r

InsertionStep(a, index1, i, f) ==
    IF i < index1 THEN a ELSE LET b == f[i - 1] IN Insert(b, i, b[i])

LEMMA InsertionsUnfold ==
    ASSUME NEW n \in Nat, NEW a \in [0 .. n - 1 -> Int], NEW lo \in 0 .. n, NEW hi \in -1 .. n - 1
    PROVE  /\ Insertions(a, lo, hi) \in [lo - 1 .. hi -> [0 .. n - 1 -> Int]]
           /\ \A i \in lo - 1 .. hi :
                 Insertions(a, lo, hi)[i] = InsertionStep(a, lo, i, Insertions(a, lo, hi))
<1> DEFINE D == lo - 1 .. hi
           V == [0 .. n - 1 -> Int]
           m == [i \in D |-> i - (lo - 1)]
           G == [i \in D |-> [f \in [D -> V] |-> InsertionStep(a, lo, i, f)]]
<1>1. m \in [D -> Nat] OBVIOUS
<1>2. ASSUME NEW i \in D, NEW f, i >= lo => f[i - 1] \in V PROVE InsertionStep(a, lo, i, f) \in V
  <2>1. CASE i < lo BY <2>1 DEF InsertionStep
  <2>2. CASE i >= lo
    <3> DEFINE b == f[i - 1]
    <3>1. b \in V /\ i \in 0 .. n - 1 /\ 0 \in 0 .. i BY <1>2, <2>2
    <3> HIDE DEF b
    <3>2. 0 > 0 => b[0 - 1] <= b[i] OBVIOUS
    <3>3. Rearranges(Insert(b, i, b[i]), b, n, 0, i) BY <3>1, <3>2, InsertRearranges, Zenon
    <3>4. Insert(b, i, b[i]) \in V BY <3>3 DEF Rearranges
    <3> QED BY <2>2, <3>4 DEF InsertionStep, b
  <2> QED BY <2>1, <2>2
<1>3. G \in [D -> [[D -> V] -> V]]
  <2> SUFFICES ASSUME NEW i \in D, NEW f \in [D -> V] PROVE InsertionStep(a, lo, i, f) \in V
    OBVIOUS
  <2>1. i >= lo => f[i - 1] \in V
    <3> HIDE DEF V
    <3> QED OBVIOUS
  <2> QED BY <1>2, <2>1
<1>4. Descends(D, V, m, G)
  <2> SUFFICES ASSUME NEW i \in D, NEW f \in [D -> V], NEW g \in [D -> V],
                      \A j \in D : m[j] < m[i] => f[j] = g[j]
               PROVE  InsertionStep(a, lo, i, f) = InsertionStep(a, lo, i, g)
    BY DEF Descends
  <2>1. i >= lo => f[i - 1] = g[i - 1]
    <3> HIDE DEF V
    <3> QED OBVIOUS
  <2> QED BY <2>1 DEF InsertionStep
<1>5. PICK f : Solves(D, V, G, f)
  <2>1. V # {} OBVIOUS
  <2>2. WellDefined(D, V, m, G) BY <1>1, <1>3, <1>4, <2>1 DEF WellDefined
  <2> HIDE DEF D, V, m, G
  <2> QED BY <2>2, RecursionExists, Zenon
<1>6. f = [i \in lo - 1 .. hi |-> InsertionStep(a, lo, i, f)]
  <2>1. f \in [D -> V] /\ \A i \in D : f[i] = InsertionStep(a, lo, i, f)
    <3> HIDE DEF V
    <3> QED BY <1>5 DEF Solves
  <2> HIDE DEF V
  <2> QED BY <2>1
<1> DEFINE S == Insertions(a, lo, hi)
<1>7. S = [i \in lo - 1 .. hi |-> InsertionStep(a, lo, i, S)]
  BY <1>6, Zenon DEF Insertions, InsertionStep
<1> HIDE DEF S
<1>8. \A i \in lo - 1 .. hi : S[i] = InsertionStep(a, lo, i, S) BY <1>7, Zenon
<1>9. S \in [D -> V]
  <2> DEFINE Q == {i \in D : S[i] \in V}
  <2>1. ASSUME NEW i \in D, \A j \in D : m[j] < m[i] => j \in Q PROVE S[i] \in V
    <3>0. S[i] = InsertionStep(a, lo, i, S) BY <1>8
    <3>1. i >= lo => i - 1 \in D /\ m[i - 1] < m[i] OBVIOUS
    <3> HIDE DEF D, m, V
    <3>2. i >= lo => S[i - 1] \in V BY <2>1, <3>1
    <3> QED BY <1>2, <3>0, <3>2
  <2>2. Q = D
    <3>1. Inductive(D, m, Q) BY <1>1, <2>1 DEF Inductive
    <3> HIDE DEF D, m, Q
    <3> QED BY <3>1, MeasureInduction, Zenon
  <2>3. S = [i \in D |-> S[i]] BY <1>7
  <2> HIDE DEF D, V
  <2> QED BY <2>2, <2>3
<1> QED BY <1>8, <1>9 DEF S

AscendingIn(a, lo, hi) == \A x, y \in lo .. hi : x < y => a[x] <= a[y]

\* Nothing at lo .. hi is smaller than the element before base.
BoundedBelow(a, base, lo, hi) == base > 0 => \A k \in lo .. hi : a[base - 1] <= a[k]

LEMMA InsertionsRight ==
    ASSUME NEW n \in Nat, NEW a \in [0 .. n - 1 -> Int], NEW lo \in 0 .. n, NEW hi \in -1 .. n - 1,
           NEW base \in 0 .. lo, BoundedBelow(a, base, lo, hi)
    PROVE  \A i \in lo - 1 .. hi :
              /\ Rearranges(Insertions(a, lo, hi)[i], a, n, base, i)
              /\ base = lo => AscendingIn(Insertions(a, lo, hi)[i], lo, i)
<1> DEFINE S == Insertions(a, lo, hi)
           D == lo - 1 .. hi
           m == [i \in D |-> i - (lo - 1)]
           Good(i) == Rearranges(S[i], a, n, base, i) /\ (base = lo => AscendingIn(S[i], lo, i))
           Q == {i \in D : Good(i)}
<1>1. S \in [D -> [0 .. n - 1 -> Int]] /\ \A i \in D : S[i] = InsertionStep(a, lo, i, S)
  BY InsertionsUnfold
<1> HIDE DEF S
<1>2. ASSUME NEW i \in D, \A j \in D : m[j] < m[i] => j \in Q PROVE Good(i)
  <2>1. CASE i < lo
    <3>1. S[i] = a BY <1>1, <2>1 DEF InsertionStep
    <3>2. Rearranges(a, a, n, base, i) BY RearrangesItself
    <3>3. AscendingIn(a, lo, i) BY <2>1 DEF AscendingIn
    <3> QED BY <3>1, <3>2, <3>3
  <2>2. CASE i >= lo
    <3> DEFINE b == S[i - 1]
    <3>1. i - 1 \in D /\ m[i - 1] < m[i] BY <2>2
    <3>2. S[i] = Insert(b, i, b[i]) BY <1>1, <2>2 DEF InsertionStep
    <3>3. Rearranges(b, a, n, base, i - 1) /\ (base = lo => AscendingIn(b, lo, i - 1)) BY <1>2, <3>1
    <3> HIDE DEF b
    <3>4. i \in 0 .. n - 1 /\ base \in 0 .. i /\ base \in 0 .. n /\ i - 1 \in -1 .. n - 1 /\ i \in lo .. hi
      BY <2>2
    <3>5. b \in [0 .. n - 1 -> Int] BY <3>3 DEF Rearranges
    <3>6. \A k \in 0 .. n - 1 : ~ (base <= k /\ k <= i - 1) => b[k] = a[k]
      BY <3>3, RearrangesInside
    <3>7. b[i] = a[i] BY <3>4, <3>6
    <3>8. base > 0 => b[base - 1] <= b[i]
      <4> SUFFICES ASSUME base > 0 PROVE b[base - 1] <= b[i]
        OBVIOUS
      <4>1. b[base - 1] = a[base - 1] BY <3>4, <3>6
      <4>2. a[base - 1] <= a[i] BY <3>4 DEF BoundedBelow
      <4> QED BY <3>7, <4>1, <4>2
    <3>9. /\ Rearranges(S[i], b, n, base, i)
          /\ AscendingIn(b, base, i - 1) => AscendingIn(S[i], base, i)
      BY <3>2, <3>4, <3>5, <3>8, InsertRearranges, Zenon DEF AscendingIn
    <3>10. Rearranges(b, a, n, base, i)
      <4>1. i - 1 \in Int /\ i \in Int /\ base \in Int /\ base <= base /\ i - 1 <= i BY <3>4
      <4> QED BY <3>3, <4>1, RearrangesWider
    <3>11. Rearranges(S[i], a, n, base, i) BY <3>4, <3>9, <3>10, RearrangesTwice
    <3> QED BY <3>3, <3>9, <3>11
  <2> QED BY <2>1, <2>2
<1>3. Q = D
  <2>1. Inductive(D, m, Q) BY <1>2 DEF Inductive
  <2> HIDE DEF D, m, Q
  <2> QED BY <2>1, MeasureInduction, Zenon
<1> QED BY <1>3 DEF S

\* insertionSort of a range moves elements only below its end, and only within the range
\* and into order when none of them is smaller than the element before the range.
LEMMA InsertionSortRange ==
    ASSUME NEW n \in Nat, NEW a \in [0 .. n - 1 -> Int], NEW lo \in 0 .. n, NEW hi \in -1 .. n - 1
    PROVE  /\ Rearranges(insertionSort(a, lo, hi), a, n, 0, n - 1)
           /\ BoundedBelow(a, lo, lo, hi) =>
                 /\ Rearranges(insertionSort(a, lo, hi), a, n, lo, hi)
                 /\ AscendingIn(insertionSort(a, lo, hi), lo, hi)
<1>1. CASE ~ (lo < hi)
  <2>1. insertionSort(a, lo, hi) = a BY <1>1 DEF insertionSort
  <2>2. Rearranges(a, a, n, lo, hi) /\ Rearranges(a, a, n, 0, n - 1) BY RearrangesItself
  <2>3. AscendingIn(a, lo, hi) BY <1>1 DEF AscendingIn
  <2> QED BY <2>1, <2>2, <2>3
<1>2. CASE lo < hi
  <2> DEFINE r == Insertions(a, lo, hi)[hi]
  <2>1. insertionSort(a, lo, hi) = r BY <1>2 DEF insertionSort
  <2>2. hi \in lo - 1 .. hi BY <1>2
  <2>3. Rearranges(r, a, n, 0, hi)
    <3>1. 0 \in 0 .. lo /\ BoundedBelow(a, 0, lo, hi) BY DEF BoundedBelow
    <3> QED BY <2>2, <3>1, InsertionsRight, Zenon
  <2>4. BoundedBelow(a, lo, lo, hi) => Rearranges(r, a, n, lo, hi) /\ AscendingIn(r, lo, hi)
    <3>1. lo \in 0 .. lo OBVIOUS
    <3> QED BY <2>2, <3>1, InsertionsRight, Zenon
  <2> HIDE DEF r
  <2>5. Rearranges(r, a, n, 0, n - 1)
    <3>1. 0 \in Int /\ n - 1 \in Int /\ hi \in Int /\ 0 <= 0 /\ hi <= n - 1 OBVIOUS
    <3> QED BY <2>3, <3>1, RearrangesWider
  <2> QED BY <2>1, <2>4, <2>5
<1> QED BY <1>1, <1>2

SortedArray(r, a, n) == r \in [0 .. n - 1 -> Int] /\ Ascending(r) /\ Permutes(r, a)

LEMMA SortedWhole ==
    ASSUME NEW n \in Nat, NEW a, NEW r, Rearranges(r, a, n, 0, n - 1), AscendingIn(r, 0, n - 1)
    PROVE  SortedArray(r, a, n)
<1>1. r \in [0 .. n - 1 -> Int] BY DEF Rearranges
<1>2. Ascending(r) BY <1>1 DEF Ascending, AscendingIn
<1>3. 0 \in Int /\ n - 1 \in Int OBVIOUS
<1>4. Permutes(r, a) BY <1>3, RearrangesPermutes
<1> QED BY <1>1, <1>2, <1>4 DEF SortedArray

\* insertionSort puts every array in order.
THEOREM InsertionSortSorts ==
    ASSUME NEW n \in Nat, NEW a \in [0 .. n - 1 -> Int]
    PROVE  SortedArray(insertionSort(a, 0, n - 1), a, n)
<1>1. 0 \in 0 .. n /\ n - 1 \in -1 .. n - 1 /\ BoundedBelow(a, 0, 0, n - 1) BY DEF BoundedBelow
<1>2. /\ Rearranges(insertionSort(a, 0, n - 1), a, n, 0, n - 1)
      /\ AscendingIn(insertionSort(a, 0, n - 1), 0, n - 1)
  BY <1>1, InsertionSortRange, Zenon
<1> QED BY <1>2, SortedWhole

-----------------------------------------------------------------------------
(* Merge sort *)

TakenStep(array1, array2, i, f) ==
    IF i = 0 THEN 0
    ELSE LET k == f[i - 1]
         IN  IF FromFirst(array1, array2, k, (i - 1) - k) THEN k + 1 ELSE k

LEMMA TakenUnfolds ==
    ASSUME NEW A, NEW B, Size(A) \in Nat, Size(B) \in Nat
    PROVE  \A i \in 0 .. Size(A) + Size(B) : Taken(A, B)[i] = TakenStep(A, B, i, Taken(A, B))
<1> DEFINE N == Size(A) + Size(B)
           D == 0 .. N
           m == [i \in D |-> i]
           G == [i \in D |-> [f \in [D -> Int] |-> TakenStep(A, B, i, f)]]
<1>0. N \in Nat OBVIOUS
<1> HIDE DEF N
<1>1. m \in [D -> Nat] OBVIOUS
<1>2. G \in [D -> [[D -> Int] -> Int]]
  <2> SUFFICES ASSUME NEW i \in D, NEW f \in [D -> Int] PROVE TakenStep(A, B, i, f) \in Int
    OBVIOUS
  <2>1. i # 0 => i - 1 \in D BY <1>0
  <2> QED BY <2>1 DEF TakenStep
<1>3. Descends(D, Int, m, G)
  <2> SUFFICES ASSUME NEW i \in D, NEW f \in [D -> Int], NEW g \in [D -> Int],
                      \A j \in D : m[j] < m[i] => f[j] = g[j]
               PROVE  TakenStep(A, B, i, f) = TakenStep(A, B, i, g)
    BY DEF Descends
  <2>1. i # 0 => f[i - 1] = g[i - 1] BY <1>0
  <2> QED BY <2>1 DEF TakenStep
<1>4. PICK f : Solves(D, Int, G, f)
  <2>1. WellDefined(D, Int, m, G) BY <1>1, <1>2, <1>3 DEF WellDefined
  <2> HIDE DEF D, m, G
  <2> QED BY <2>1, RecursionExists, Zenon
<1>5. f = [i \in 0 .. N |-> TakenStep(A, B, i, f)] BY <1>4 DEF Solves
<1> DEFINE S == Taken(A, B)
<1>6. S = [i \in 0 .. Size(A) + Size(B) |-> TakenStep(A, B, i, S)]
  BY <1>5, Zenon DEF Taken, TakenStep, N
<1> HIDE DEF S
<1>7. \A i \in 0 .. Size(A) + Size(B) : S[i] = TakenStep(A, B, i, S) BY <1>6, Zenon
<1> QED BY <1>7 DEF S

\* Two arrays to merge, and the counts of elements taken from them.
Halves(A, B, s1, s2) ==
    /\ s1 \in Nat /\ s2 \in Nat /\ A \in [0 .. s1 - 1 -> Int] /\ B \in [0 .. s2 - 1 -> Int]
TakenRight(A, B, s1, s2, T) ==
    /\ T[0] = 0
    /\ \A i \in 0 .. s1 + s2 : T[i] \in 0 .. s1 /\ i - T[i] \in 0 .. s2
    /\ \A i \in 0 .. s1 + s2 - 1 : T[i + 1] = IF FromFirst(A, B, T[i], i - T[i]) THEN T[i] + 1 ELSE T[i]
    /\ \A i \in 0 .. s1 + s2 - 1 : IF FromFirst(A, B, T[i], i - T[i]) THEN T[i] < s1 ELSE i - T[i] < s2

LEMMA HalvesSizes ==
    ASSUME NEW A, NEW B, NEW s1, NEW s2, Halves(A, B, s1, s2)
    PROVE  Size(A) = s1 /\ Size(B) = s2
BY SizeIs DEF Halves

LEMMA TakenCounts ==
    ASSUME NEW A, NEW B, NEW s1, NEW s2, Halves(A, B, s1, s2)
    PROVE  TakenRight(A, B, s1, s2, Taken(A, B))
<1> USE DEF Halves
<1> DEFINE T == Taken(A, B)
           D == 0 .. s1 + s2
           m == [i \in D |-> i]
           Good(i) == T[i] \in 0 .. s1 /\ i - T[i] \in 0 .. s2
           Q == {i \in D : Good(i)}
<1>1. Size(A) = s1 /\ Size(B) = s2 BY HalvesSizes
<1>2. \A i \in D : T[i] = TakenStep(A, B, i, T) BY <1>1, TakenUnfolds
<1> HIDE DEF T
<1>3. \A j, k : FromFirst(A, B, j, k) <=> j < s1 /\ (k = s2 \/ A[j] <= B[k]) BY <1>1 DEF FromFirst
<1>4. \A i \in 0 .. s1 + s2 - 1 : T[i + 1] = IF FromFirst(A, B, T[i], i - T[i]) THEN T[i] + 1 ELSE T[i]
  <2> TAKE i \in 0 .. s1 + s2 - 1
  <2>1. i + 1 \in D /\ i + 1 # 0 /\ (i + 1) - 1 = i OBVIOUS
  <2> QED BY <1>2, <2>1 DEF TakenStep
<1>5. ASSUME NEW i \in 0 .. s1 + s2 - 1, Good(i)
      PROVE  /\ Good(i + 1)
             /\ IF FromFirst(A, B, T[i], i - T[i]) THEN T[i] < s1 ELSE i - T[i] < s2
  <2>1. CASE FromFirst(A, B, T[i], i - T[i])
    <3>1. T[i] < s1 /\ T[i + 1] = T[i] + 1 BY <1>3, <1>4, <2>1
    <3> QED BY <1>5, <2>1, <3>1
  <2>2. CASE ~ FromFirst(A, B, T[i], i - T[i])
    <3>1. T[i + 1] = T[i] BY <1>4, <2>2
    <3>2. ~ (T[i] < s1) \/ i - T[i] # s2 BY <1>3, <2>2
    <3> QED BY <1>5, <2>2, <3>1, <3>2
  <2> QED BY <2>1, <2>2
<1>6. T[0] = 0 BY <1>2 DEF TakenStep
<1>7. ASSUME NEW i \in D, \A j \in D : m[j] < m[i] => j \in Q PROVE Good(i)
  <2>1. CASE i = 0 BY <1>6, <2>1
  <2>2. CASE i # 0
    <3>1. i - 1 \in D /\ m[i - 1] < m[i] /\ i - 1 \in 0 .. s1 + s2 - 1 /\ (i - 1) + 1 = i BY <2>2
    <3>2. Good(i - 1) BY <1>7, <3>1
    <3>3. Good((i - 1) + 1) BY <1>5, <3>1, <3>2
    <3> QED BY <3>1, <3>3
  <2> QED BY <2>1, <2>2
<1>8. Q = D
  <2>1. Inductive(D, m, Q) BY <1>7 DEF Inductive
  <2> HIDE DEF D, m, Q
  <2> QED BY <2>1, MeasureInduction, Zenon
<1>9. \A i \in 0 .. s1 + s2 : Good(i) BY <1>8
<1>10. \A i \in 0 .. s1 + s2 - 1 : IF FromFirst(A, B, T[i], i - T[i]) THEN T[i] < s1 ELSE i - T[i] < s2
  BY <1>5, <1>9
<1> QED BY <1>4, <1>6, <1>9, <1>10 DEF TakenRight, T

\* The turns of the merge loop: T counts the elements taken from A, M is what it writes.
TurnFirst(A, B, s2, M, T, i) ==
    /\ T[i + 1] = T[i] + 1 /\ M[i] = A[T[i]]
    /\ i - T[i] = s2 \/ A[T[i]] <= B[i - T[i]]
TurnSecond(A, B, s1, M, T, i) ==
    /\ T[i + 1] = T[i] /\ M[i] = B[i - T[i]]
    /\ T[i] = s1 \/ ~ (A[T[i]] <= B[i - T[i]])
Merging(A, B, s1, s2, M, T) ==
    /\ M \in [0 .. s1 + s2 - 1 -> Int]
    /\ \A i \in 0 .. s1 + s2 : T[i] \in 0 .. s1 /\ i - T[i] \in 0 .. s2
    /\ \A i \in 0 .. s1 + s2 - 1 :
          \/ T[i] \in 0 .. s1 - 1 /\ TurnFirst(A, B, s2, M, T, i)
          \/ i - T[i] \in 0 .. s2 - 1 /\ TurnSecond(A, B, s1, M, T, i)

LEMMA MergeTurns ==
    ASSUME NEW A, NEW B, NEW s1, NEW s2, Halves(A, B, s1, s2)
    PROVE  Merging(A, B, s1, s2, Merge(A, B), Taken(A, B))
<1> USE DEF Halves
<1> DEFINE T == Taken(A, B)
           M == Merge(A, B)
           N == s1 + s2
<1>1. Size(A) = s1 /\ Size(B) = s2 BY HalvesSizes
<1>2. TakenRight(A, B, s1, s2, T) BY TakenCounts
<1>3. M = [i \in 0 .. N - 1 |-> IF FromFirst(A, B, T[i], i - T[i]) THEN A[T[i]] ELSE B[i - T[i]]]
  BY <1>1 DEF Merge
<1> HIDE DEF T, M
<1>4. ASSUME NEW i \in 0 .. N - 1
      PROVE  /\ M[i] \in Int
             /\ \/ T[i] \in 0 .. s1 - 1 /\ TurnFirst(A, B, s2, M, T, i)
                \/ i - T[i] \in 0 .. s2 - 1 /\ TurnSecond(A, B, s1, M, T, i)
  <2>1. T[i] \in 0 .. s1 /\ i - T[i] \in 0 .. s2 BY <1>2 DEF TakenRight
  <2>2. CASE FromFirst(A, B, T[i], i - T[i])
    <3>1. T[i] < s1 /\ T[i + 1] = T[i] + 1 BY <1>2, <2>2 DEF TakenRight
    <3>2. i - T[i] = s2 \/ A[T[i]] <= B[i - T[i]] BY <1>1, <2>2 DEF FromFirst
    <3>3. M[i] = A[T[i]] BY <1>3, <2>2
    <3> QED BY <2>1, <3>1, <3>2, <3>3 DEF TurnFirst
  <2>3. CASE ~ FromFirst(A, B, T[i], i - T[i])
    <3>1. i - T[i] < s2 /\ T[i + 1] = T[i] BY <1>2, <2>3 DEF TakenRight
    <3>2. T[i] = s1 \/ ~ (A[T[i]] <= B[i - T[i]]) BY <1>1, <2>1, <2>3 DEF FromFirst
    <3>3. M[i] = B[i - T[i]] BY <1>3, <2>3
    <3> QED BY <2>1, <3>1, <3>2, <3>3 DEF TurnSecond
  <2> QED BY <2>2, <2>3
<1>5. M \in [0 .. N - 1 -> Int]
  <2>1. M = [i \in 0 .. N - 1 |-> M[i]] BY <1>3
  <2> QED BY <1>4, <2>1
<1>6. \A i \in 0 .. s1 + s2 : T[i] \in 0 .. s1 /\ i - T[i] \in 0 .. s2 BY <1>2 DEF TakenRight
<1> QED BY <1>4, <1>5, <1>6 DEF Merging, M, T

\* Between two turns, elements are only taken.
LEMMA TurnsGrow ==
    ASSUME NEW A, NEW B, NEW s1 \in Nat, NEW s2 \in Nat, NEW M, NEW T, Merging(A, B, s1, s2, M, T),
           NEW i \in 0 .. s1 + s2
    PROVE  \A j \in i .. s1 + s2 : T[i] <= T[j] /\ i - T[i] <= j - T[j]
<1> DEFINE D == i .. s1 + s2
           m == [j \in D |-> j]
           Good(j) == T[i] <= T[j] /\ i - T[i] <= j - T[j]
           Q == {j \in D : Good(j)}
<1>1. \A j \in 0 .. s1 + s2 : T[j] \in Int BY DEF Merging
<1>2. ASSUME NEW j \in D, \A k \in D : m[k] < m[j] => k \in Q PROVE Good(j)
  <2>1. CASE j = i BY <1>1, <2>1
  <2>2. CASE j # i
    <3>1. j - 1 \in D /\ m[j - 1] < m[j] /\ j - 1 \in 0 .. s1 + s2 - 1 /\ (j - 1) + 1 = j BY <2>2
    <3>2. Good(j - 1) BY <1>2, <3>1
    <3>3. T[j] = T[j - 1] + 1 \/ T[j] = T[j - 1] BY <3>1 DEF Merging, TurnFirst, TurnSecond
    <3> QED BY <1>1, <3>1, <3>2, <3>3
  <2> QED BY <2>1, <2>2
<1>3. Q = D
  <2>1. Inductive(D, m, Q) BY <1>2 DEF Inductive
  <2> HIDE DEF D, m, Q
  <2> QED BY <2>1, MeasureInduction, Zenon
<1> QED BY <1>3

LEMMA MergeAscends ==
    ASSUME NEW A, NEW B, NEW s1, NEW s2, Halves(A, B, s1, s2),
           AscendingIn(A, 0, s1 - 1), AscendingIn(B, 0, s2 - 1)
    PROVE  AscendingIn(Merge(A, B), 0, s1 + s2 - 1)
<1> USE DEF Halves
<1> DEFINE T == Taken(A, B)
           M == Merge(A, B)
<1> SUFFICES ASSUME NEW x \in 0 .. s1 + s2 - 1, NEW y \in 0 .. s1 + s2 - 1, x < y
             PROVE  M[x] <= M[y]
  BY DEF AscendingIn
<1>1. Merging(A, B, s1, s2, M, T) BY MergeTurns
<1> HIDE DEF T, M
<1>2. x + 1 \in 0 .. s1 + s2 /\ y \in x + 1 .. s1 + s2 OBVIOUS
<1>3. T[x + 1] <= T[y] /\ (x + 1) - T[x + 1] <= y - T[y] BY <1>1, <1>2, TurnsGrow
<1> DEFINE jx == T[x]
           jy == T[y]
           kx == x - jx
           ky == y - jy
<1>4. jx \in 0 .. s1 /\ kx \in 0 .. s2 /\ jy \in 0 .. s1 /\ ky \in 0 .. s2 BY <1>1 DEF Merging
<1>5. \/ /\ jx < s1 /\ jx + 1 <= jy /\ kx <= ky /\ M[x] = A[jx]
         /\ kx = s2 \/ A[jx] <= B[kx]
      \/ /\ kx < s2 /\ jx <= jy /\ kx + 1 <= ky /\ M[x] = B[kx]
         /\ jx = s1 \/ ~ (A[jx] <= B[kx])
  <2>0. x \in Int /\ y \in Int /\ jx \in Int /\ jy \in Int /\ T[x + 1] \in Int
    <3>1. T[x + 1] \in 0 .. s1 BY ONLY <1>1, <1>2 DEF Merging
    <3>2. x \in Int /\ y \in Int OBVIOUS
    <3> QED BY ONLY <1>4, <3>1, <3>2
  <2>1. CASE jx \in 0 .. s1 - 1 /\ TurnFirst(A, B, s2, M, T, x)
    <3>1. T[x + 1] = jx + 1 /\ M[x] = A[jx] /\ (kx = s2 \/ A[jx] <= B[kx])
      BY ONLY <2>1, Zenon DEF TurnFirst
    <3>2. jx < s1 /\ jx + 1 <= jy /\ kx <= ky BY ONLY <1>3, <2>0, <2>1, <3>1, s1 \in Nat
    <3> QED BY <3>1, <3>2
  <2>2. CASE kx \in 0 .. s2 - 1 /\ TurnSecond(A, B, s1, M, T, x)
    <3>1. T[x + 1] = jx /\ M[x] = B[kx] /\ (jx = s1 \/ ~ (A[jx] <= B[kx]))
      BY ONLY <2>2, Zenon DEF TurnSecond
    <3>2. kx < s2 /\ jx <= jy /\ kx + 1 <= ky BY ONLY <1>3, <2>0, <2>2, <3>1, s2 \in Nat
    <3> QED BY <3>1, <3>2
  <2> QED BY <1>1, <2>1, <2>2 DEF Merging
<1>6. (jy < s1 /\ M[y] = A[jy]) \/ (ky < s2 /\ M[y] = B[ky])
  <2>1. CASE T[y] \in 0 .. s1 - 1 /\ TurnFirst(A, B, s2, M, T, y) BY <1>4, <2>1 DEF TurnFirst
  <2>2. CASE y - T[y] \in 0 .. s2 - 1 /\ TurnSecond(A, B, s1, M, T, y) BY <1>4, <2>2 DEF TurnSecond
  <2> QED BY <1>1, <2>1, <2>2 DEF Merging
<1> HIDE DEF jx, jy, kx, ky
<1>7. \A j \in 0 .. s1 - 1 : A[j] \in Int OBVIOUS
<1>8. \A k \in 0 .. s2 - 1 : B[k] \in Int OBVIOUS
<1>9. \A i, j \in 0 .. s1 - 1 : i <= j => A[i] <= A[j] BY <1>7 DEF AscendingIn
<1>10. \A i, j \in 0 .. s2 - 1 : i <= j => B[i] <= B[j] BY <1>8 DEF AscendingIn
<1> QED BY <1>4, <1>5, <1>6, <1>7, <1>8, <1>9, <1>10

\* r has the elements of a at first .. first + len - 1, in any order.
Selects(p, first, len) ==
    /\ p \in [0 .. len - 1 -> first .. first + len - 1]
    /\ \A i, j \in 0 .. len - 1 : p[i] = p[j] => i = j
PartOf(r, a, first, len) ==
    /\ r \in [0 .. len - 1 -> Int]
    /\ \E p : Selects(p, first, len) /\ \A i \in 0 .. len - 1 : r[i] = a[p[i]]

LEMMA MergeParts ==
    ASSUME NEW A, NEW B, NEW s1, NEW s2, Halves(A, B, s1, s2), NEW a, NEW first \in Nat,
           PartOf(A, a, first, s1), PartOf(B, a, first + s1, s2)
    PROVE  PartOf(Merge(A, B), a, first, s1 + s2)
<1>0. s1 \in Nat /\ s2 \in Nat BY DEF Halves
<1> DEFINE T == Taken(A, B)
           M == Merge(A, B)
           N == s1 + s2
<1>1. Merging(A, B, s1, s2, M, T) BY MergeTurns
<1>2. PICK p1 : Selects(p1, first, s1) /\ \A i \in 0 .. s1 - 1 : A[i] = a[p1[i]] BY DEF PartOf
<1>3. PICK p2 : Selects(p2, first + s1, s2) /\ \A i \in 0 .. s2 - 1 : B[i] = a[p2[i]] BY DEF PartOf
<1> HIDE DEF T, M
<1> DEFINE p == [i \in 0 .. N - 1 |-> IF T[i + 1] = T[i] + 1 THEN p1[T[i]] ELSE p2[i - T[i]]]
<1>4. \A i \in 0 .. s1 - 1 : p1[i] \in first .. first + s1 - 1 BY <1>2 DEF Selects
<1>5. \A i \in 0 .. s2 - 1 : p2[i] \in first + s1 .. first + N - 1
  <2>1. (first + s1) + s2 - 1 = first + N - 1 BY <1>0
  <2> QED BY <1>3, <2>1 DEF Selects
<1>6. ASSUME NEW i \in 0 .. N - 1
      PROVE  \/ /\ T[i] \in 0 .. s1 - 1 /\ T[i + 1] = T[i] + 1
                /\ p[i] = p1[T[i]] /\ M[i] = A[T[i]]
             \/ /\ i - T[i] \in 0 .. s2 - 1 /\ T[i + 1] = T[i]
                /\ p[i] = p2[i - T[i]] /\ M[i] = B[i - T[i]]
  <2>0. T[i] \in Int BY <1>0, <1>1 DEF Merging
  <2>1. CASE T[i] \in 0 .. s1 - 1 /\ TurnFirst(A, B, s2, M, T, i) BY <2>1 DEF TurnFirst
  <2>2. CASE i - T[i] \in 0 .. s2 - 1 /\ TurnSecond(A, B, s1, M, T, i)
    BY <2>0, <2>2 DEF TurnSecond
  <2>3. \/ T[i] \in 0 .. s1 - 1 /\ TurnFirst(A, B, s2, M, T, i)
        \/ i - T[i] \in 0 .. s2 - 1 /\ TurnSecond(A, B, s1, M, T, i)
    BY <1>0, <1>1 DEF Merging
  <2> QED BY <2>1, <2>2, <2>3, Zenon
<1>7. p \in [0 .. N - 1 -> first .. first + N - 1]
  <2>1. ASSUME NEW i \in 0 .. N - 1 PROVE p[i] \in first .. first + N - 1
    <3> HIDE DEF p
    <3> QED BY <1>0, <1>4, <1>5, <1>6
  <2>2. p = [i \in 0 .. N - 1 |-> p[i]] OBVIOUS
  <2> HIDE DEF p
  <2> QED BY <2>1, <2>2
<1> HIDE DEF p
<1>8. ASSUME NEW x \in 0 .. N - 1, NEW y \in 0 .. N - 1, x < y PROVE p[x] # p[y]
  <2>1. x + 1 \in 0 .. s1 + s2 /\ y \in x + 1 .. s1 + s2 /\ y \in 0 .. s1 + s2 BY <1>0, <1>8
  <2>2. T[x + 1] <= T[y] /\ (x + 1) - T[x + 1] <= y - T[y] BY <1>0, <1>1, <2>1, TurnsGrow
  <2>3. T[x] \in Int /\ T[y] \in Int BY <1>0, <1>1 DEF Merging
  <2>4. \A i, j \in 0 .. s1 - 1 : p1[i] = p1[j] => i = j BY <1>2 DEF Selects
  <2>5. \A i, j \in 0 .. s2 - 1 : p2[i] = p2[j] => i = j BY <1>3 DEF Selects
  <2>6. CASE T[x] \in 0 .. s1 - 1 /\ T[x + 1] = T[x] + 1 /\ p[x] = p1[T[x]]
    <3>1. CASE T[y] \in 0 .. s1 - 1 /\ p[y] = p1[T[y]] BY <2>2, <2>3, <2>4, <2>6, <3>1
    <3>2. CASE y - T[y] \in 0 .. s2 - 1 /\ p[y] = p2[y - T[y]] BY <1>0, <1>4, <1>5, <2>6, <3>2
    <3> QED BY <1>6, <3>1, <3>2
  <2>7. CASE x - T[x] \in 0 .. s2 - 1 /\ T[x + 1] = T[x] /\ p[x] = p2[x - T[x]]
    <3>1. CASE T[y] \in 0 .. s1 - 1 /\ p[y] = p1[T[y]] BY <1>0, <1>4, <1>5, <2>7, <3>1
    <3>2. CASE y - T[y] \in 0 .. s2 - 1 /\ p[y] = p2[y - T[y]] BY <2>2, <2>3, <2>5, <2>7, <3>2
    <3> QED BY <1>6, <3>1, <3>2
  <2> QED BY <1>6, <2>6, <2>7
<1>9. \A x, y \in 0 .. N - 1 : p[x] = p[y] => x = y
  <2> SUFFICES ASSUME NEW x \in 0 .. N - 1, NEW y \in 0 .. N - 1, x # y PROVE p[x] # p[y]
    OBVIOUS
  <2>1. x < y \/ y < x BY <1>0
  <2> QED BY <1>8, <2>1
<1>10. \A i \in 0 .. N - 1 : M[i] = a[p[i]] BY <1>2, <1>3, <1>6
<1>11. Selects(p, first, N) BY <1>7, <1>9 DEF Selects
<1>12. M \in [0 .. N - 1 -> Int] BY <1>0, <1>1 DEF Merging
<1> QED BY <1>10, <1>11, <1>12 DEF PartOf, M

\* One call of mergeSort, its recursive calls answered by f.
PartStep(a, r, f) ==
    LET first == r[1]
        n == r[2]
        size1 == n \div 2
    IN  IF n > 1 THEN Merge(f[<<first, size1>>], f[<<first + size1, n - size1>>])
        ELSE [i \in 0 .. n - 1 |-> a[first + i]]

LEMMA TwoHalves ==
    ASSUME NEW n \in Nat, NEW first \in Nat, NEW len \in Nat, len > 1, first + len <= n
    PROVE  \E h \in Nat :
              /\ h = len \div 2 /\ 0 < h /\ h < len /\ first \in 0 .. n /\ h \in 0 .. n
              /\ first + h \in 0 .. n /\ len - h \in 0 .. n /\ len - h < len /\ len - h \in Nat
              /\ first + h <= n /\ (first + h) + (len - h) <= n
<1>1. len \div 2 \in Nat /\ 0 < len \div 2 /\ len \div 2 < len OBVIOUS
<1> DEFINE h == len \div 2
<1>2. h \in Nat /\ 0 < h /\ h < len BY <1>1
<1>3. h = len \div 2 OBVIOUS
<1> HIDE DEF h
<1>4. /\ first \in 0 .. n /\ h \in 0 .. n /\ first + h \in 0 .. n /\ len - h \in 0 .. n
      /\ len - h < len /\ len - h \in Nat /\ first + h <= n /\ (first + h) + (len - h) <= n
  BY <1>2
<1> QED BY <1>2, <1>3, <1>4

LEMMA SortedPartsUnfold ==
    ASSUME NEW n \in Nat, NEW a \in [0 .. n - 1 -> Int]
    PROVE  \A r \in Parts(a) : SortedParts(a)[r] = PartStep(a, r, SortedParts(a))
<1> DEFINE D == {r \in (0 .. n) \X (0 .. n) : r[1] + r[2] <= n}
           V == UNION {[0 .. k - 1 -> Int] : k \in Nat}
           m == [r \in D |-> r[2]]
           G == [r \in D |-> [f \in [D -> V] |-> PartStep(a, r, f)]]
<1>0. Parts(a) = D BY SizeIs DEF Parts
<1>1. m \in [D -> Nat] OBVIOUS
<1>2. ASSUME NEW r \in D, NEW f \in [D -> V], NEW g \in [D -> V]
      PROVE  /\ PartStep(a, r, f) \in V
             /\ (\A q \in D : m[q] < m[r] => f[q] = g[q]) => PartStep(a, r, f) = PartStep(a, r, g)
  <2>1. PICK first \in 0 .. n, len \in 0 .. n : r = <<first, len>> /\ first + len <= n OBVIOUS
  <2>2. CASE len > 1
    <3>1. PICK h \in Nat :
              /\ h = len \div 2 /\ 0 < h /\ h < len /\ first \in 0 .. n /\ h \in 0 .. n
              /\ first + h \in 0 .. n /\ len - h \in 0 .. n /\ len - h < len /\ len - h \in Nat
              /\ first + h <= n /\ (first + h) + (len - h) <= n
      BY <2>1, <2>2, TwoHalves
    <3> DEFINE q1 == <<first, h>>
               q2 == <<first + h, len - h>>
    <3>2. q1 \in D /\ q2 \in D /\ m[q1] < m[r] /\ m[q2] < m[r] BY <2>1, <3>1
    <3>3. \A e : PartStep(a, r, e) = Merge(e[q1], e[q2]) BY <2>1, <2>2, <3>1 DEF PartStep
    <3> HIDE DEF q1, q2, m
    <3>4. f[q1] \in V /\ f[q2] \in V
      <4> HIDE DEF D, V
      <4> QED BY <1>2, <3>2
    <3>5. PICK k1 \in Nat : f[q1] \in [0 .. k1 - 1 -> Int] BY <3>4
    <3>6. PICK k2 \in Nat : f[q2] \in [0 .. k2 - 1 -> Int] BY <3>4
    <3>7. Halves(f[q1], f[q2], k1, k2) BY <3>5, <3>6 DEF Halves
    <3>8. Merging(f[q1], f[q2], k1, k2, Merge(f[q1], f[q2]), Taken(f[q1], f[q2])) BY <3>7, MergeTurns
    <3>9. Merge(f[q1], f[q2]) \in [0 .. (k1 + k2) - 1 -> Int] /\ k1 + k2 \in Nat BY <3>8 DEF Merging
    <3>10. Merge(f[q1], f[q2]) \in V BY <3>9
    <3>11. (\A q \in D : m[q] < m[r] => f[q] = g[q]) => f[q1] = g[q1] /\ f[q2] = g[q2] BY <3>2
    <3> QED BY <3>3, <3>10, <3>11
  <2>3. CASE ~ (len > 1)
    <3>1. \A e : PartStep(a, r, e) = [i \in 0 .. len - 1 |-> a[first + i]] BY <2>1, <2>3 DEF PartStep
    <3>2. [i \in 0 .. len - 1 |-> a[first + i]] \in V
      <4> DEFINE w == [i \in 0 .. len - 1 |-> a[first + i]]
      <4>1. w \in [0 .. len - 1 -> Int] BY <2>1
      <4>2. len \in Nat BY <2>1
      <4> HIDE DEF w
      <4>3. w \in V BY <4>1, <4>2
      <4> QED BY <4>3 DEF w
    <3> HIDE DEF V
    <3> QED BY <3>1, <3>2
  <2> QED BY <2>2, <2>3
<1>3. WellDefined(D, V, m, G)
  <2> DEFINE e == [i \in 0 .. 0 - 1 |-> 0]
  <2>1. V # {}
    <3>1. e \in [0 .. 0 - 1 -> Int] /\ 0 \in Nat OBVIOUS
    <3> HIDE DEF e
    <3>2. e \in V BY <3>1
    <3> QED BY <3>2
  <2> HIDE DEF D, V, m
  <2>2. G \in [D -> [[D -> V] -> V]] BY <1>2
  <2>3. Descends(D, V, m, G) BY <1>2 DEF Descends
  <2> QED BY <1>1, <2>1, <2>2, <2>3 DEF WellDefined
<1>4. PICK f : Solves(D, V, G, f)
  <2> HIDE DEF D, V, m, G
  <2> QED BY <1>3, RecursionExists, Zenon
<1>5. f = [r \in D |-> PartStep(a, r, f)]
  <2> HIDE DEF D, V
  <2> QED BY <1>4 DEF Solves
<1> DEFINE S == SortedParts(a)
<1> HIDE DEF D
<1>6. f = [r \in Parts(a) |-> PartStep(a, r, f)] BY <1>0, <1>5
<1>7. S = [r \in Parts(a) |-> PartStep(a, r, S)]
  BY <1>6, Zenon DEF SortedParts, PartStep
<1> HIDE DEF S
<1>8. \A r \in Parts(a) : S[r] = PartStep(a, r, S) BY <1>7, Zenon
<1> QED BY <1>8 DEF S

LEMMA SortedPartsRight ==
    ASSUME NEW n \in Nat, NEW a \in [0 .. n - 1 -> Int]
    PROVE  \A first, len \in 0 .. n : first + len <= n =>
              LET r == SortedParts(a)[<<first, len>>]
              IN  PartOf(r, a, first, len) /\ AscendingIn(r, 0, len - 1)
<1> DEFINE D == {r \in (0 .. n) \X (0 .. n) : r[1] + r[2] <= n}
           S == SortedParts(a)
           m == [r \in D |-> r[2]]
           Good(r) == PartOf(S[r], a, r[1], r[2]) /\ AscendingIn(S[r], 0, r[2] - 1)
           Q == {r \in D : Good(r)}
<1>1. \A r \in D : S[r] = PartStep(a, r, S)
  <2>1. Parts(a) = D BY SizeIs DEF Parts
  <2> QED BY <2>1, SortedPartsUnfold
<1> HIDE DEF S
<1>2. ASSUME NEW r \in D, \A q \in D : m[q] < m[r] => q \in Q PROVE Good(r)
  <2>1. PICK first \in 0 .. n, len \in 0 .. n : r = <<first, len>> /\ first + len <= n OBVIOUS
  <2>2. S[r] = PartStep(a, <<first, len>>, S) BY <1>1, <2>1
  <2>3. CASE len > 1
    <3>1. PICK h \in Nat :
              /\ h = len \div 2 /\ 0 < h /\ h < len /\ first \in 0 .. n /\ h \in 0 .. n
              /\ first + h \in 0 .. n /\ len - h \in 0 .. n /\ len - h < len /\ len - h \in Nat
              /\ first + h <= n /\ (first + h) + (len - h) <= n
      BY <2>1, <2>3, TwoHalves
    <3> DEFINE A == S[<<first, h>>]
               B == S[<<first + h, len - h>>]
    <3>2. <<first, h>> \in D /\ <<first + h, len - h>> \in D BY <3>1
    <3>3. m[<<first, h>>] < m[r] /\ m[<<first + h, len - h>>] < m[r] BY <2>1, <3>1, <3>2
    <3>4. PartOf(A, a, first, h) /\ AscendingIn(A, 0, h - 1)
      <4>1. <<first, h>> \in Q BY <1>2, <3>2, <3>3
      <4> QED BY <4>1
    <3>5. PartOf(B, a, first + h, len - h) /\ AscendingIn(B, 0, (len - h) - 1)
      <4>1. <<first + h, len - h>> \in Q BY <1>2, <3>2, <3>3
      <4> QED BY <4>1
    <3>6. S[r] = Merge(A, B) BY <2>2, <2>3, <3>1 DEF PartStep
    <3> HIDE DEF A, B
    <3>7. Halves(A, B, h, len - h) BY <3>1, <3>4, <3>5 DEF Halves, PartOf
    <3>8. h + (len - h) = len /\ first \in Nat BY <3>1
    <3>9. PartOf(Merge(A, B), a, first, h + (len - h)) BY <3>4, <3>5, <3>7, <3>8, MergeParts
    <3>10. AscendingIn(Merge(A, B), 0, h + (len - h) - 1) BY <3>4, <3>5, <3>7, MergeAscends
    <3> QED BY <2>1, <3>6, <3>8, <3>9, <3>10
  <2>4. CASE ~ (len > 1)
    <3> DEFINE w == [i \in 0 .. len - 1 |-> a[first + i]]
               p == [i \in 0 .. len - 1 |-> first + i]
    <3>1. S[r] = w BY <2>2, <2>4 DEF PartStep
    <3>2. w \in [0 .. len - 1 -> Int] BY <2>1
    <3>3. Selects(p, first, len) BY <2>1 DEF Selects
    <3>4. \A i \in 0 .. len - 1 : w[i] = a[p[i]] OBVIOUS
    <3>5. AscendingIn(w, 0, len - 1) BY <2>4 DEF AscendingIn
    <3> HIDE DEF w, p
    <3>6. PartOf(w, a, first, len) BY <3>2, <3>3, <3>4 DEF PartOf
    <3> QED BY <2>1, <3>1, <3>5, <3>6
  <2> QED BY <2>3, <2>4
<1>3. Q = D
  <2>1. Inductive(D, m, Q) BY <1>2 DEF Inductive
  <2> HIDE DEF D, m, Q
  <2> QED BY <2>1, MeasureInduction, Zenon
<1> SUFFICES ASSUME NEW first \in 0 .. n, NEW len \in 0 .. n, first + len <= n
             PROVE  PartOf(S[<<first, len>>], a, first, len) /\ AscendingIn(S[<<first, len>>], 0, len - 1)
  BY DEF S
<1>4. <<first, len>> \in D OBVIOUS
<1>5. <<first, len>> \in Q BY <1>3, <1>4
<1> QED BY <1>5

\* mergeSort puts every array in order.
THEOREM MergeSortSorts ==
    ASSUME NEW n \in Nat, NEW a \in [0 .. n - 1 -> Int]
    PROVE  SortedArray(mergeSort(a), a, n)
<1> DEFINE r == SortedParts(a)[<<0, n>>]
<1>1. mergeSort(a) = r BY SizeIs DEF mergeSort
<1>2. PartOf(r, a, 0, n) /\ AscendingIn(r, 0, n - 1)
  <2>1. 0 \in 0 .. n /\ n \in 0 .. n /\ 0 + n <= n OBVIOUS
  <2> QED BY <2>1, SortedPartsRight, Zenon
<1> HIDE DEF r
<1>3. Rearranges(r, a, n, 0, n - 1)
  <2>1. PICK p : Selects(p, 0, n) /\ \A i \in 0 .. n - 1 : r[i] = a[p[i]] BY <1>2 DEF PartOf
  <2>2. Shuffle(n, 0, n - 1, p) BY <2>1 DEF Selects, Shuffle
  <2>3. r \in [0 .. n - 1 -> Int] BY <1>2 DEF PartOf
  <2> QED BY <2>1, <2>2, <2>3 DEF Rearranges
<1> QED BY <1>1, <1>2, <1>3, SortedWhole

-----------------------------------------------------------------------------
(* Quick sort: the partition *)

LEMMA ScanUpStops ==
    ASSUME NEW n \in Nat, NEW b \in [0 .. n - 1 -> Int], NEW i \in Int, NEW pivot \in Int
    PROVE  IF \E k \in 0 .. n - 1 : k > i /\ b[k] >= pivot
           THEN /\ ScanUp(b, i, pivot) \in 0 .. n - 1 /\ ScanUp(b, i, pivot) > i
                /\ b[ScanUp(b, i, pivot)] >= pivot
                /\ \A k \in 0 .. n - 1 : k > i /\ b[k] >= pivot => ScanUp(b, i, pivot) <= k
           ELSE ScanUp(b, i, pivot) = OutOfRange
<1> DEFINE stop == {k \in 0 .. n - 1 : k > i /\ b[k] >= pivot}
<1>1. ScanUp(b, i, pivot) = IF stop = {} THEN OutOfRange ELSE Min(stop) BY DEF ScanUp
<1>2. stop # {} => Min(stop) \in stop /\ \A k \in stop : Min(stop) <= k
  <2>1. stop \in SUBSET Int /\ 0 \in Int /\ \A k \in stop : 0 <= k OBVIOUS
  <2> HIDE DEF stop
  <2> QED BY <2>1, MinOf
<1> QED BY <1>1, <1>2

LEMMA ScanDownStops ==
    ASSUME NEW n \in Nat, NEW b \in [0 .. n - 1 -> Int], NEW j \in Int, NEW pivot \in Int
    PROVE  IF \E k \in 0 .. n - 1 : k < j /\ b[k] <= pivot
           THEN /\ ScanDown(b, j, pivot) \in 0 .. n - 1 /\ ScanDown(b, j, pivot) < j
                /\ b[ScanDown(b, j, pivot)] <= pivot
                /\ \A k \in 0 .. n - 1 : k < j /\ b[k] <= pivot => k <= ScanDown(b, j, pivot)
           ELSE ScanDown(b, j, pivot) = OutOfRange
<1> DEFINE stop == {k \in 0 .. n - 1 : k < j /\ b[k] <= pivot}
<1>1. ScanDown(b, j, pivot) = IF stop = {} THEN OutOfRange ELSE Max(stop) BY DEF ScanDown
<1>2. stop # {} => Max(stop) \in stop /\ \A k \in stop : k <= Max(stop)
  <2>1. stop \in SUBSET Int /\ n \in Int /\ \A k \in stop : k <= n OBVIOUS
  <2> HIDE DEF stop
  <2> QED BY <2>1, MaxOf
<1> QED BY <1>1, <1>2

LEMMA LikeArrays ==
    ASSUME NEW n \in Nat, NEW a \in [0 .. n - 1 -> Int], NEW b \in Like(a)
    PROVE  /\ b \in [0 .. n - 1 -> Int]
           /\ \A i, j \in 0 .. n - 1 : move(b, i, j) \in Like(a)
           /\ \A r : \A lo, hi \in Int : Rearranges(r, b, n, lo, hi) => r \in Like(a)
<1>1. Range(a) \subseteq Int /\ b \in [0 .. n - 1 -> Range(a)] BY DEF Like, Range
<1>2. b \in [0 .. n - 1 -> Int] BY <1>1
<1>3. \A i, j \in 0 .. n - 1 : move(b, i, j) \in Like(a) BY <1>1 DEF move, Like
<1>4. ASSUME NEW r, NEW lo \in Int, NEW hi \in Int, Rearranges(r, b, n, lo, hi) PROVE r \in Like(a)
  <2>1. PICK p : Shuffle(n, lo, hi, p) /\ \A k \in 0 .. n - 1 : r[k] = b[p[k]] BY <1>4 DEF Rearranges
  <2>2. \A k \in 0 .. n - 1 : r[k] \in Range(a) BY <1>1, <2>1 DEF Shuffle
  <2>3. r \in [0 .. n - 1 -> Int] BY <1>4 DEF Rearranges
  <2> QED BY <2>2, <2>3 DEF Like
<1> QED BY <1>2, <1>3, <1>4

\* One turn of the loop, the turns after it answered by f.
PartitionStep(pivot, s, f) ==
    LET b == s[1]
        up == ScanUp(b, s[2], pivot)
        down == ScanDown(b, s[3], pivot)
    IN  IF up = OutOfRange \/ down = OutOfRange THEN <<b, OutOfRange>>
        ELSE IF up < down THEN f[<<move(b, up, down), up, down>>]
        ELSE <<b, up>>

LEMMA PartitionUnfolds ==
    ASSUME NEW n \in Nat, NEW a \in [0 .. n - 1 -> Int], NEW pivot \in Int
    PROVE  \A s \in Like(a) \X Int \X Int :
              PartitionLoop(a, pivot)[s] = PartitionStep(pivot, s, PartitionLoop(a, pivot))
<1> DEFINE L == Like(a)
           D == L \X Int \X Int
           V == L \X Int
           m == [s \in D |-> IF s[2] < s[3] THEN s[3] - s[2] ELSE 0]
           G == [s \in D |-> [f \in [D -> V] |-> PartitionStep(pivot, s, f)]]
<1>0. \A b \in L : b \in [0 .. n - 1 -> Int] /\ \A i, j \in 0 .. n - 1 : move(b, i, j) \in L
  BY LikeArrays
<1>1. a \in L BY DEF Like, Range
<1> HIDE DEF L
<1>2. m \in [D -> Nat] OBVIOUS
<1>3. ASSUME NEW s \in D, NEW f \in [D -> V], NEW g \in [D -> V]
      PROVE  /\ PartitionStep(pivot, s, f) \in V
             /\ (\A q \in D : m[q] < m[s] => f[q] = g[q]) =>
                   PartitionStep(pivot, s, f) = PartitionStep(pivot, s, g)
  <2>1. PICK b \in L, i \in Int, j \in Int : s = <<b, i, j>> OBVIOUS
  <2> DEFINE up == ScanUp(b, i, pivot)
             down == ScanDown(b, j, pivot)
             q == <<move(b, up, down), up, down>>
  <2>2. \A e : PartitionStep(pivot, s, e) =
                  IF up = OutOfRange \/ down = OutOfRange THEN <<b, OutOfRange>>
                  ELSE IF up < down THEN e[q] ELSE <<b, up>>
    BY <2>1 DEF PartitionStep
  <2>3. b \in [0 .. n - 1 -> Int] BY <1>0
  <2>4. up = OutOfRange \/ (up \in 0 .. n - 1 /\ up > i) BY <2>3, ScanUpStops
  <2>5. down = OutOfRange \/ (down \in 0 .. n - 1 /\ down < j) BY <2>3, ScanDownStops
  <2> HIDE DEF up, down
  <2>6. CASE up = OutOfRange \/ down = OutOfRange
    <3>1. \A e : PartitionStep(pivot, s, e) = <<b, OutOfRange>> BY <2>2, <2>6
    <3>2. <<b, OutOfRange>> \in V BY DEF OutOfRange
    <3> HIDE DEF V
    <3> QED BY <3>1, <3>2
  <2>7. CASE ~ (up = OutOfRange \/ down = OutOfRange) /\ up < down
    <3>1. q \in D BY <1>0, <2>4, <2>5, <2>7
    <3>2. m[q] < m[s]
      <4>1. m[q] = down - up
        <5>1. q[2] = up /\ q[3] = down OBVIOUS
        <5> HIDE DEF q, D
        <5> QED BY <2>7, <3>1, <5>1
      <4>2. up \in Int /\ down \in Int /\ up > i /\ down < j BY <2>4, <2>5, <2>7
      <4>3. m[s] = j - i
        <5>1. s[2] = i /\ s[3] = j /\ i < j BY <2>1, <2>7, <4>2
        <5> HIDE DEF D
        <5> QED BY <5>1
      <4> QED BY <4>1, <4>2, <4>3
    <3>3. \A e : PartitionStep(pivot, s, e) = e[q] BY <2>2, <2>7
    <3> HIDE DEF q, m, D, V
    <3> QED BY <3>1, <3>2, <3>3
  <2>8. CASE ~ (up = OutOfRange \/ down = OutOfRange) /\ ~ (up < down)
    <3>1. \A e : PartitionStep(pivot, s, e) = <<b, up>> BY <2>2, <2>8
    <3>2. <<b, up>> \in V BY <2>4, <2>8
    <3> HIDE DEF V
    <3> QED BY <3>1, <3>2
  <2> QED BY <2>6, <2>7, <2>8
<1>4. WellDefined(D, V, m, G)
  <2>1. V # {}
    <3>1. <<a, 0>> \in V BY <1>1
    <3> QED BY <3>1
  <2> HIDE DEF D, V, m
  <2>2. G \in [D -> [[D -> V] -> V]] BY <1>3
  <2>3. Descends(D, V, m, G) BY <1>3 DEF Descends
  <2> QED BY <1>2, <2>1, <2>2, <2>3 DEF WellDefined
<1>5. PICK f : Solves(D, V, G, f)
  <2> HIDE DEF D, V, m, G
  <2> QED BY <1>4, RecursionExists, Zenon
<1>6. f = [s \in D |-> PartitionStep(pivot, s, f)]
  <2> HIDE DEF D, V
  <2> QED BY <1>5 DEF Solves
<1>7. f = [s \in Like(a) \X Int \X Int |-> PartitionStep(pivot, s, f)] BY <1>6, Zenon DEF L
<1> DEFINE S == PartitionLoop(a, pivot)
<1>8. S = [s \in Like(a) \X Int \X Int |-> PartitionStep(pivot, s, S)]
  BY <1>7, Zenon DEF PartitionLoop, PartitionStep
<1> HIDE DEF S
<1>9. \A s \in Like(a) \X Int \X Int : S[s] = PartitionStep(pivot, s, S) BY <1>8, Zenon
<1> QED BY <1>9 DEF S

\* Between two turns: nothing above the pivot up to i, nothing below it from j on.
Partitioning(a, n, lo, hi, pivot, b, i, j) ==
    /\ b \in Like(a) /\ i \in Int /\ j \in Int /\ Rearranges(b, a, n, lo, hi)
    /\ lo <= i /\ i < j /\ j <= hi - 1
    /\ \A k \in lo .. i : b[k] <= pivot
    /\ \A k \in j .. hi : b[k] >= pivot
    /\ b[hi - 1] = pivot
\* At the end: i divides the range.
Partitioned(a, n, lo, hi, pivot, b, i) ==
    /\ Rearranges(b, a, n, lo, hi) /\ i \in lo + 1 .. hi - 1
    /\ \A k \in lo .. i - 1 : b[k] <= pivot
    /\ \A k \in i .. hi : b[k] >= pivot
    /\ b[hi - 1] = pivot
\* The turn from i and j that stops at up and down.
ScanPair(a, n, lo, hi, pivot, b, i, j, up, down) ==
    /\ up = ScanUp(b, i, pivot) /\ down = ScanDown(b, j, pivot) /\ up > i /\ down < j
    /\ IF up < down THEN Partitioning(a, n, lo, hi, pivot, move(b, up, down), up, down)
       ELSE Partitioned(a, n, lo, hi, pivot, b, up)

\* One turn either ends the loop or leaves a smaller range to divide.
LEMMA PartitionTurn ==
    ASSUME NEW n \in Nat, NEW a \in [0 .. n - 1 -> Int], NEW lo \in 0 .. n, NEW hi \in -1 .. n - 1,
           NEW pivot \in Int, NEW b, NEW i, NEW j, Partitioning(a, n, lo, hi, pivot, b, i, j)
    PROVE  \E up, down \in 0 .. n - 1 : ScanPair(a, n, lo, hi, pivot, b, i, j, up, down)
<1> USE DEF Partitioning
<1>1. b \in [0 .. n - 1 -> Int] BY LikeArrays
<1>2. i \in 0 .. n - 1 /\ j \in 0 .. n - 1 /\ b[j] >= pivot /\ b[i] <= pivot OBVIOUS
<1> DEFINE up == ScanUp(b, i, pivot)
           down == ScanDown(b, j, pivot)
<1>3. /\ up \in 0 .. n - 1 /\ up > i /\ b[up] >= pivot
      /\ \A k \in 0 .. n - 1 : k > i /\ b[k] >= pivot => up <= k
  <2>1. \E k \in 0 .. n - 1 : k > i /\ b[k] >= pivot BY <1>2
  <2> QED BY <1>1, <2>1, ScanUpStops
<1>4. /\ down \in 0 .. n - 1 /\ down < j /\ b[down] <= pivot
      /\ \A k \in 0 .. n - 1 : k < j /\ b[k] <= pivot => k <= down
  <2>1. \E k \in 0 .. n - 1 : k < j /\ b[k] <= pivot BY <1>2
  <2> QED BY <1>1, <2>1, ScanDownStops
<1> HIDE DEF up, down
<1>5. up <= j /\ i <= down BY <1>2, <1>3, <1>4
<1>6. \A k \in lo .. up - 1 : b[k] <= pivot
  <2> TAKE k \in lo .. up - 1
  <2>1. CASE k <= i BY <2>1
  <2>2. CASE k > i
    <3>1. k \in 0 .. n - 1 /\ ~ (up <= k) BY <1>3, <2>2
    <3> QED BY <1>1, <1>3, <2>2, <3>1
  <2> QED BY <2>1, <2>2
<1>7. \A k \in down + 1 .. hi : b[k] >= pivot
  <2> TAKE k \in down + 1 .. hi
  <2>1. CASE k >= j BY <2>1
  <2>2. CASE k < j
    <3>1. k \in 0 .. n - 1 /\ ~ (k <= down) BY <1>4, <2>2
    <3> QED BY <1>1, <1>4, <2>2, <3>1
  <2> QED BY <2>1, <2>2
<1>8. CASE up < down
  <2> DEFINE c == move(b, up, down)
  <2>1. c \in Like(a) BY <1>3, <1>4, LikeArrays
  <2>2. Rearranges(c, a, n, lo, hi)
    <3>1. lo <= up /\ up <= hi /\ lo <= down /\ down <= hi BY <1>3, <1>4, <1>8
    <3>2. lo \in Int /\ hi \in Int OBVIOUS
    <3>3. Rearranges(c, b, n, lo, hi) BY <1>1, <1>3, <1>4, <3>1, <3>2, RearrangesMove, Zenon
    <3> QED BY <3>3, RearrangesTwice
  <2>3. \A k \in 0 .. n - 1 : c[k] = IF k = up THEN b[down] ELSE IF k = down THEN b[up] ELSE b[k]
    BY <1>1, <1>3, <1>4, <1>8 DEF move
  <2> HIDE DEF c
  <2>4. \A k \in lo .. up : c[k] <= pivot
    <3> TAKE k \in lo .. up
    <3>1. k \in 0 .. n - 1 /\ k # down BY <1>3, <1>4, <1>8
    <3>2. CASE k = up BY <1>4, <2>3, <3>1, <3>2
    <3>3. CASE k # up
      <4>1. k \in lo .. up - 1 /\ c[k] = b[k] BY <1>3, <2>3, <3>1, <3>3
      <4> QED BY <1>6, <4>1
    <3> QED BY <3>2, <3>3
  <2>5. \A k \in down .. hi : c[k] >= pivot
    <3> TAKE k \in down .. hi
    <3>1. k \in 0 .. n - 1 /\ k # up BY <1>3, <1>4, <1>8
    <3>2. CASE k = down BY <1>3, <2>3, <3>1, <3>2
    <3>3. CASE k # down
      <4>1. k \in down + 1 .. hi /\ c[k] = b[k] BY <1>4, <2>3, <3>1, <3>3
      <4> QED BY <1>7, <4>1
    <3> QED BY <3>2, <3>3
  <2>6. c[hi - 1] = pivot
    <3>1. hi - 1 \in 0 .. n - 1 /\ hi - 1 # up /\ hi - 1 # down BY <1>3, <1>4, <1>8
    <3> QED BY <2>3, <3>1
  <2>7. up \in Int /\ down \in Int /\ lo <= up /\ down <= hi - 1 BY <1>3, <1>4
  <2>8. Partitioning(a, n, lo, hi, pivot, c, up, down) BY <1>8, <2>1, <2>2, <2>4, <2>5, <2>6, <2>7
  <2> HIDE DEF Partitioning
  <2>9. ScanPair(a, n, lo, hi, pivot, b, i, j, up, down) BY <1>3, <1>4, <1>8, <2>8 DEF c, ScanPair, up, down
  <2> QED BY <1>3, <1>4, <2>9, Zenon
<1>9. CASE ~ (up < down)
  <2>1. up \in lo + 1 .. hi - 1 BY <1>3, <1>5
  <2>2. \A k \in up .. hi : b[k] >= pivot
    <3> TAKE k \in up .. hi
    <3>1. CASE k = up BY <1>3, <3>1
    <3>2. CASE k # up
      <4>1. k \in down + 1 .. hi BY <1>3, <1>4, <1>9, <3>2
      <4> QED BY <1>7, <4>1
    <3> QED BY <3>1, <3>2
  <2>3. Partitioned(a, n, lo, hi, pivot, b, up) BY <1>6, <2>1, <2>2 DEF Partitioned
  <2> HIDE DEF Partitioning
  <2>4. ScanPair(a, n, lo, hi, pivot, b, i, j, up, down) BY <1>3, <1>4, <1>9, <2>3 DEF ScanPair, up, down
  <2> QED BY <1>3, <1>4, <2>4, Zenon
<1> QED BY <1>8, <1>9

LEMMA PartitionDivides ==
    ASSUME NEW n \in Nat, NEW a \in [0 .. n - 1 -> Int], NEW lo \in 0 .. n, NEW hi \in -1 .. n - 1,
           hi - lo >= 2, a[lo] <= a[hi - 1], a[hi - 1] <= a[hi]
    PROVE  \E b, i : /\ Partition(a, lo, hi - 1, a[hi - 1]) = <<b, i>>
                     /\ Partitioned(a, n, lo, hi, a[hi - 1], b, i)
<1> DEFINE pivot == a[hi - 1]
           D == Like(a) \X Int \X Int
           S == PartitionLoop(a, pivot)
           m == [s \in D |-> IF s[2] < s[3] THEN s[3] - s[2] ELSE 0]
           Good(s) == Partitioning(a, n, lo, hi, pivot, s[1], s[2], s[3]) =>
                         \E b, i : S[s] = <<b, i>> /\ Partitioned(a, n, lo, hi, pivot, b, i)
           Q == {s \in D : Good(s)}
<1>0. pivot \in Int OBVIOUS
<1>1. \A s \in D : S[s] = PartitionStep(pivot, s, S) BY <1>0, PartitionUnfolds
<1>2. a \in Like(a) BY DEF Like, Range
<1>3. Partitioning(a, n, lo, hi, pivot, a, lo, hi - 1)
  <2>1. Rearranges(a, a, n, lo, hi) BY RearrangesItself
  <2>2. lo \in Int /\ hi - 1 \in Int /\ lo <= lo /\ lo < hi - 1 /\ hi - 1 <= hi - 1 OBVIOUS
  <2>3. \A k \in lo .. lo : a[k] <= pivot OBVIOUS
  <2>4. \A k \in hi - 1 .. hi : a[k] >= pivot OBVIOUS
  <2> QED BY <1>2, <2>1, <2>2, <2>3, <2>4 DEF Partitioning
<1>4. Partition(a, lo, hi - 1, pivot) = S[<<a, lo, hi - 1>>] BY DEF Partition
<1> HIDE DEF S, pivot
<1>5. ASSUME NEW s \in D, \A q \in D : m[q] < m[s] => q \in Q,
             Partitioning(a, n, lo, hi, pivot, s[1], s[2], s[3])
      PROVE  \E b, i : S[s] = <<b, i>> /\ Partitioned(a, n, lo, hi, pivot, b, i)
  <2>1. PICK b \in Like(a), i \in Int, j \in Int : s = <<b, i, j>> OBVIOUS
  <2>2. Partitioning(a, n, lo, hi, pivot, b, i, j) BY <1>5, <2>1
  <2>3. i < j BY <2>2 DEF Partitioning
  <2>4. PICK up \in 0 .. n - 1, down \in 0 .. n - 1 : ScanPair(a, n, lo, hi, pivot, b, i, j, up, down)
    BY <1>0, <2>2, PartitionTurn, Zenon
  <2>5. up # OutOfRange /\ down # OutOfRange BY DEF OutOfRange
  <2> DEFINE q == <<move(b, up, down), up, down>>
  <2>6. S[s] = IF up < down THEN S[q] ELSE <<b, up>>
    BY <1>1, <2>1, <2>4, <2>5 DEF PartitionStep, ScanPair
  <2>7. CASE up < down
    <3>1. q \in D
      <4>1. move(b, up, down) \in Like(a) BY LikeArrays, Zenon
      <4>2. up \in Int /\ down \in Int OBVIOUS
      <4> QED BY <4>1, <4>2, Zenon
    <3>2. m[q] < m[s]
      <4>1. q[2] = up /\ q[3] = down /\ s[2] = i /\ s[3] = j BY <2>1
      <4> HIDE DEF q, D
      <4>2. m[q] = down - up BY <2>7, <3>1, <4>1
      <4>3. m[s] = j - i BY <2>3, <4>1
      <4> QED BY <2>4, <4>2, <4>3 DEF ScanPair
    <3>3. Good(q) BY <1>5, <3>1, <3>2
    <3>4. q[1] = move(b, up, down) /\ q[2] = up /\ q[3] = down OBVIOUS
    <3> HIDE DEF q
    <3>5. Partitioning(a, n, lo, hi, pivot, q[1], q[2], q[3]) BY <2>4, <2>7, <3>4 DEF ScanPair
    <3> QED BY <2>6, <2>7, <3>3, <3>5
  <2>8. CASE ~ (up < down)
    <3>1. S[s] = <<b, up>> /\ Partitioned(a, n, lo, hi, pivot, b, up) BY <2>4, <2>6, <2>8 DEF ScanPair
    <3> QED BY <3>1, Zenon
  <2> QED BY <2>7, <2>8
<1>6. Q = D
  <2>1. m \in [D -> Nat] OBVIOUS
  <2> HIDE DEF D, m
  <2>2. Inductive(D, m, Q) BY <1>5, <2>1 DEF Inductive
  <2> HIDE DEF Q
  <2> QED BY <2>2, MeasureInduction, Zenon
<1> DEFINE s0 == <<a, lo, hi - 1>>
<1>7. s0 \in D /\ s0[1] = a /\ s0[2] = lo /\ s0[3] = hi - 1 BY <1>2
<1>8. Good(s0) BY <1>6, <1>7
<1> HIDE DEF s0
<1>9. Partitioning(a, n, lo, hi, pivot, s0[1], s0[2], s0[3]) BY <1>3, <1>7
<1>10. PICK b, i : S[s0] = <<b, i>> /\ Partitioned(a, n, lo, hi, pivot, b, i) BY <1>8, <1>9
<1>11. Partition(a, lo, hi - 1, pivot) = <<b, i>> BY <1>4, <1>10 DEF s0
<1> QED BY <1>10, <1>11, Zenon DEF pivot

-----------------------------------------------------------------------------
(* Quick sort: the pivot and the recursion *)

\* Swap the elements at i and j if they are in the wrong order.
Ordered(b, i, j) == IF b[i] > b[j] THEN move(b, i, j) ELSE b
PutInOrder(r, b, n, lo, hi, i, j) ==
    /\ Rearranges(r, b, n, lo, hi) /\ r \in [0 .. n - 1 -> Int]
    /\ r[i] <= b[i] /\ r[i] <= b[j] /\ r[j] >= b[i] /\ r[j] >= b[j]
    /\ \A k \in 0 .. n - 1 : k # i /\ k # j => r[k] = b[k]

LEMMA OrderedIs ==
    ASSUME NEW n \in Nat, NEW b \in [0 .. n - 1 -> Int], NEW lo \in Int, NEW hi \in Int,
           NEW i \in 0 .. n - 1, NEW j \in 0 .. n - 1, lo <= i, i <= hi, lo <= j, j <= hi, i # j
    PROVE  PutInOrder(Ordered(b, i, j), b, n, lo, hi, i, j)
<1> USE DEF PutInOrder
<1>1. CASE b[i] > b[j]
  <2>1. Ordered(b, i, j) = move(b, i, j) BY <1>1 DEF Ordered
  <2>2. Rearranges(move(b, i, j), b, n, lo, hi) BY RearrangesMove, Zenon
  <2>3. \A k \in 0 .. n - 1 : move(b, i, j)[k] = IF k = j THEN b[i] ELSE IF k = i THEN b[j] ELSE b[k]
    BY DEF move
  <2>4. move(b, i, j) \in [0 .. n - 1 -> Int] BY DEF move
  <2> QED BY <1>1, <2>1, <2>2, <2>3, <2>4
<1>2. CASE ~ (b[i] > b[j])
  <2>1. Ordered(b, i, j) = b BY <1>2 DEF Ordered
  <2>2. Rearranges(b, b, n, lo, hi) BY RearrangesItself
  <2> QED BY <1>2, <2>1, <2>2
<1> QED BY <1>1, <1>2

LEMMA PivotChosen ==
    ASSUME NEW n \in Nat, NEW a \in [0 .. n - 1 -> Int], NEW lo \in 0 .. n, NEW hi \in -1 .. n - 1,
           hi - lo >= 2
    PROVE  /\ Rearranges(choosePivot(a, lo, hi), a, n, lo, hi)
           /\ choosePivot(a, lo, hi)[lo] <= choosePivot(a, lo, hi)[hi - 1]
           /\ choosePivot(a, lo, hi)[hi - 1] <= choosePivot(a, lo, hi)[hi]
<1> DEFINE center == (lo + hi) \div 2
           a1 == Ordered(a, lo, center)
           a2 == Ordered(a1, lo, hi)
           a3 == Ordered(a2, center, hi)
           c == move(a3, center, hi - 1)
<1>1. center \in 0 .. n - 1 /\ lo < center /\ center < hi OBVIOUS
<1>2. choosePivot(a, lo, hi) = c
  <2>1. a[lo] \in Int /\ a[center] \in Int BY <1>1
  <2>2. a[center] < a[lo] <=> a[lo] > a[center] BY <2>1
  <2> QED BY <2>2, Zenon DEF choosePivot, Ordered
<1> HIDE DEF center, a1, a2, a3, c
<1>3. lo \in Int /\ hi \in Int /\ lo \in 0 .. n - 1 /\ hi \in 0 .. n - 1 /\ hi - 1 \in 0 .. n - 1
  BY <1>1
<1>4. /\ Rearranges(a1, a, n, lo, hi) /\ a1 \in [0 .. n - 1 -> Int]
      /\ a1[lo] <= a[lo] /\ a1[lo] <= a[center] /\ a1[center] >= a[lo] /\ a1[center] >= a[center]
      /\ \A k \in 0 .. n - 1 : k # lo /\ k # center => a1[k] = a[k]
  <2>1. lo <= lo /\ lo <= hi /\ lo <= center /\ center <= hi /\ lo # center BY <1>1
  <2>2. PutInOrder(a1, a, n, lo, hi, lo, center) BY <1>1, <1>3, <2>1, OrderedIs, Zenon DEF a1
  <2> QED BY <2>2 DEF PutInOrder
<1>5. /\ Rearranges(a2, a1, n, lo, hi) /\ a2 \in [0 .. n - 1 -> Int]
      /\ a2[lo] <= a1[lo] /\ a2[lo] <= a1[hi] /\ a2[hi] >= a1[lo] /\ a2[hi] >= a1[hi]
      /\ \A k \in 0 .. n - 1 : k # lo /\ k # hi => a2[k] = a1[k]
  <2>1. lo <= lo /\ lo <= hi /\ hi <= hi /\ lo # hi BY <1>1
  <2>2. PutInOrder(a2, a1, n, lo, hi, lo, hi) BY <1>3, <1>4, <2>1, OrderedIs, Zenon DEF a2
  <2> QED BY <2>2 DEF PutInOrder
<1>6. /\ Rearranges(a3, a2, n, lo, hi) /\ a3 \in [0 .. n - 1 -> Int]
      /\ a3[center] <= a2[center] /\ a3[center] <= a2[hi] /\ a3[hi] >= a2[center] /\ a3[hi] >= a2[hi]
      /\ \A k \in 0 .. n - 1 : k # center /\ k # hi => a3[k] = a2[k]
  <2>1. lo <= center /\ center <= hi /\ lo <= hi /\ hi <= hi /\ center # hi BY <1>1
  <2>2. PutInOrder(a3, a2, n, lo, hi, center, hi) BY <1>1, <1>3, <1>5, <2>1, OrderedIs, Zenon DEF a3
  <2> QED BY <2>2 DEF PutInOrder
<1>7. a3[lo] <= a3[center] /\ a3[center] <= a3[hi]
  <2>1. a1[lo] <= a1[center] BY <1>1, <1>3, <1>4
  <2>2. a2[lo] <= a2[center] /\ a2[lo] <= a2[hi] BY <1>1, <1>3, <1>4, <1>5, <2>1
  <2>3. a3[lo] = a2[lo] BY <1>1, <1>3, <1>6
  <2>4. a3[center] = a2[center] \/ a3[center] = a2[hi] BY <1>1, <1>3, <1>5 DEF a3, Ordered, move
  <2>5. a3[lo] <= a3[center] BY <2>2, <2>3, <2>4
  <2>6. a3[center] <= a3[hi] BY <1>1, <1>3, <1>5, <1>6
  <2> QED BY <2>5, <2>6
<1>8. /\ Rearranges(c, a3, n, lo, hi)
      /\ \A k \in 0 .. n - 1 : c[k] = IF k = hi - 1 THEN a3[center] ELSE IF k = center THEN a3[hi - 1] ELSE a3[k]
  <2>1. lo <= center /\ center <= hi /\ lo <= hi - 1 /\ hi - 1 <= hi BY <1>1, <1>3
  <2>2. Rearranges(c, a3, n, lo, hi) BY <1>1, <1>3, <1>6, <2>1, RearrangesMove, Zenon DEF c
  <2> QED BY <1>1, <1>3, <1>6, <2>2 DEF c, move
<1>9. Rearranges(c, a, n, lo, hi)
  <2>1. Rearranges(a2, a, n, lo, hi) BY <1>3, <1>4, <1>5, RearrangesTwice
  <2>2. Rearranges(a3, a, n, lo, hi) BY <1>3, <1>6, <2>1, RearrangesTwice
  <2> QED BY <1>3, <1>8, <2>2, RearrangesTwice
<1>10. c[lo] = a3[lo] /\ c[hi - 1] = a3[center] /\ c[hi] = a3[hi] BY <1>1, <1>3, <1>8
<1> QED BY <1>2, <1>7, <1>9, <1>10

\* The array with the pivot in place at i: nothing above it before, nothing below after.
Placed(b, n, lo, hi, placed, i) ==
    /\ Rearranges(placed, b, n, lo, hi) /\ i \in lo + 1 .. hi - 1
    /\ \A k \in lo .. i - 1 : placed[k] <= placed[i]
    /\ \A k \in i + 1 .. hi : placed[k] >= placed[i]

\* What quickSort does before its recursive calls.
Split(b, lo, hi) ==
    LET chosen == choosePivot(b, lo, hi) IN Partition(chosen, lo, hi - 1, chosen[hi - 1])

LEMMA PivotPlaced ==
    ASSUME NEW n \in Nat, NEW b \in [0 .. n - 1 -> Int], NEW lo \in 0 .. n, NEW hi \in -1 .. n - 1,
           hi - lo >= 2
    PROVE  Placed(b, n, lo, hi, move(Split(b, lo, hi)[1], Split(b, lo, hi)[2], hi - 1), Split(b, lo, hi)[2])
<1> DEFINE c == choosePivot(b, lo, hi)
           pivot == c[hi - 1]
<1>1. Rearranges(c, b, n, lo, hi) /\ c[lo] <= c[hi - 1] /\ c[hi - 1] <= c[hi] BY PivotChosen
<1>2. c \in [0 .. n - 1 -> Int] BY <1>1 DEF Rearranges
<1>3. Split(b, lo, hi) = Partition(c, lo, hi - 1, pivot) BY DEF Split
<1> HIDE DEF c
<1>4. PICK d, i : Partition(c, lo, hi - 1, pivot) = <<d, i>> /\ Partitioned(c, n, lo, hi, pivot, d, i)
  BY <1>1, <1>2, PartitionDivides
<1> DEFINE r == move(d, i, hi - 1)
<1>5. Split(b, lo, hi)[1] = d /\ Split(b, lo, hi)[2] = i BY <1>3, <1>4
<1>6. /\ Rearranges(d, c, n, lo, hi) /\ i \in lo + 1 .. hi - 1 /\ d[hi - 1] = pivot
      /\ \A k \in lo .. i - 1 : d[k] <= pivot
      /\ \A k \in i .. hi : d[k] >= pivot
  BY <1>4 DEF Partitioned
<1>7. d \in [0 .. n - 1 -> Int] /\ i \in 0 .. n - 1 /\ hi - 1 \in 0 .. n - 1 /\ lo \in Int /\ hi \in Int
  BY <1>6 DEF Rearranges
<1>8. Rearranges(r, b, n, lo, hi)
  <2>1. lo <= i /\ i <= hi /\ lo <= hi - 1 /\ hi - 1 <= hi BY <1>6
  <2>2. Rearranges(r, d, n, lo, hi) BY <1>7, <2>1, RearrangesMove, Zenon
  <2>3. Rearranges(d, b, n, lo, hi) BY <1>1, <1>6, <1>7, RearrangesTwice
  <2> HIDE DEF r
  <2> QED BY <1>7, <2>2, <2>3, RearrangesTwice
<1>9. \A k \in 0 .. n - 1 : r[k] = IF k = hi - 1 THEN d[i] ELSE IF k = i THEN d[hi - 1] ELSE d[k]
  BY <1>7 DEF move
<1> HIDE DEF r, pivot
<1>10. r[i] = pivot BY <1>6, <1>7, <1>9
<1>11. \A k \in lo .. i - 1 : r[k] <= r[i]
  <2> TAKE k \in lo .. i - 1
  <2>1. k \in 0 .. n - 1 /\ k # i /\ k # hi - 1 BY <1>6, <1>7
  <2>2. r[k] = d[k] BY <1>9, <2>1
  <2> QED BY <1>6, <1>10, <2>2
<1>12. \A k \in i + 1 .. hi : r[k] >= r[i]
  <2> TAKE k \in i + 1 .. hi
  <2>1. k \in 0 .. n - 1 /\ k # i /\ k \in i .. hi /\ i \in i .. hi BY <1>6, <1>7
  <2>2. r[k] = d[k] \/ r[k] = d[i] BY <1>9, <2>1
  <2> QED BY <1>6, <1>10, <2>1, <2>2
<1>13. Placed(b, n, lo, hi, r, i) BY <1>6, <1>8, <1>11, <1>12 DEF Placed
<1> QED BY <1>5, <1>13 DEF r

\* One call of quickSort, its recursive calls answered by f.
SortStep(cutoff, s, f) ==
    LET b == s[1]
        index1 == s[2]
        index2 == s[3]
    IN  IF index2 - index1 >= cutoff
        THEN LET chosen == choosePivot(b, index1, index2)
                 split == Partition(chosen, index1, index2 - 1, chosen[index2 - 1])
                 i == split[2]
                 placed == move(split[1], i, index2 - 1)
             IN  f[<<f[<<placed, index1, i - 1>>], i + 1, index2>>]
        ELSE insertionSort(b, index1, index2)

LEMMA SortRangesUnfold ==
    ASSUME NEW n \in Nat, NEW a \in [0 .. n - 1 -> Int], NEW cutoff \in Nat, cutoff >= 2
    PROVE  \A s \in Like(a) \X (0 .. n) \X (-1 .. n - 1) :
              SortRanges(a, cutoff)[s] = SortStep(cutoff, s, SortRanges(a, cutoff))
<1> DEFINE L == Like(a)
           Lo == 0 .. n
           Hi == -1 .. n - 1
           D == L \X Lo \X Hi
           m == [s \in D |-> IF s[2] <= s[3] THEN s[3] - s[2] + 1 ELSE 0]
           G == [s \in D |-> [f \in [D -> L] |-> SortStep(cutoff, s, f)]]
<1>1. a \in L BY DEF Like, Range
<1>2. \A b \in L : b \in [0 .. n - 1 -> Int] BY LikeArrays, Zenon
<1>3. \A b \in L : \A r : \A lo, hi \in Int : Rearranges(r, b, n, lo, hi) => r \in L
  BY LikeArrays, Zenon
<1> HIDE DEF L
<1>4. m \in [D -> Nat] OBVIOUS
<1>5. ASSUME NEW s \in D, NEW f \in [D -> L], NEW g \in [D -> L]
      PROVE  /\ SortStep(cutoff, s, f) \in L
             /\ (\A q \in D : m[q] < m[s] => f[q] = g[q]) => SortStep(cutoff, s, f) = SortStep(cutoff, s, g)
  <2>1. PICK b \in L, lo \in Lo, hi \in Hi : s = <<b, lo, hi>> OBVIOUS
  <2>2. b \in [0 .. n - 1 -> Int] BY <1>2
  <2>3. CASE hi - lo >= cutoff
    <3> DEFINE i == Split(b, lo, hi)[2]
               placed == move(Split(b, lo, hi)[1], i, hi - 1)
               q == <<placed, lo, i - 1>>
               p(x) == <<x, i + 1, hi>>
    <3>1. \A e : SortStep(cutoff, s, e) = e[p(e[q])] BY <2>1, <2>3, Zenon DEF SortStep, Split
    <3>2. Placed(b, n, lo, hi, placed, i)
      <4>1. hi - lo >= 2 BY <2>3
      <4> QED BY <2>2, <4>1, PivotPlaced
    <3> HIDE DEF placed, i
    <3>3. i \in lo + 1 .. hi - 1 BY <3>2 DEF Placed
    <3>4. placed \in L
      <4>1. lo \in Int /\ hi \in Int OBVIOUS
      <4> QED BY <1>3, <3>2, <4>1 DEF Placed
    <3>5. lo \in Lo /\ i - 1 \in Hi /\ i + 1 \in Lo /\ hi \in Hi BY <3>3
    <3>6. q \in D BY <3>4, <3>5
    <3>7. \A x \in L : p(x) \in D BY <3>5
    <3>8. m[s] = hi - lo + 1
      <4>1. s[2] = lo /\ s[3] = hi /\ lo <= hi BY <2>1, <2>3
      <4> HIDE DEF D
      <4> QED BY <4>1
    <3>9. m[q] < m[s]
      <4>1. q[2] = lo /\ q[3] = i - 1 OBVIOUS
      <4> HIDE DEF D, q
      <4>2. m[q] = (i - 1) - lo + 1 BY <3>3, <3>6, <4>1
      <4> QED BY <3>3, <3>8, <4>2
    <3>10. \A x \in L : m[p(x)] < m[s]
      <4> TAKE x \in L
      <4>1. p(x)[2] = i + 1 /\ p(x)[3] = hi OBVIOUS
      <4>2. p(x) \in D BY <3>7
      <4> HIDE DEF D, p
      <4>3. m[p(x)] = hi - (i + 1) + 1 \/ m[p(x)] = 0 BY <4>1, <4>2
      <4> QED BY <3>3, <3>8, <4>3
    <3> HIDE DEF D, m, p, q
    <3>11. f[q] \in L /\ g[q] \in L BY <3>6
    <3>12. f[p(f[q])] \in L BY <3>7, <3>11
    <3>13. ASSUME \A t \in D : m[t] < m[s] => f[t] = g[t] PROVE f[p(f[q])] = g[p(g[q])]
      <4>1. f[q] = g[q] BY <3>6, <3>9, <3>13
      <4>2. f[p(f[q])] = g[p(f[q])] BY <3>7, <3>10, <3>11, <3>13
      <4> QED BY <4>1, <4>2
    <3> QED BY <3>1, <3>12, <3>13
  <2>4. CASE ~ (hi - lo >= cutoff)
    <3>1. \A e : SortStep(cutoff, s, e) = insertionSort(b, lo, hi) BY <2>1, <2>4 DEF SortStep
    <3>2. Rearranges(insertionSort(b, lo, hi), b, n, 0, n - 1) BY <2>2, InsertionSortRange
    <3>3. 0 \in Int /\ n - 1 \in Int OBVIOUS
    <3>4. insertionSort(b, lo, hi) \in L BY <1>3, <3>2, <3>3
    <3> QED BY <3>1, <3>4
  <2> QED BY <2>3, <2>4
<1>6. WellDefined(D, L, m, G)
  <2> HIDE DEF D, m
  <2>1. G \in [D -> [[D -> L] -> L]] BY <1>5
  <2>2. Descends(D, L, m, G) BY <1>5 DEF Descends
  <2> QED BY <1>1, <1>4, <2>1, <2>2 DEF WellDefined
<1>7. PICK f : Solves(D, L, G, f)
  <2> HIDE DEF D, m, G
  <2> QED BY <1>6, RecursionExists, Zenon
<1>8. f = [s \in D |-> SortStep(cutoff, s, f)]
  <2> HIDE DEF D
  <2> QED BY <1>7 DEF Solves
<1>9. Size(a) = n BY SizeIs
<1> DEFINE S == SortRanges(a, cutoff)
           E == Like(a) \X (0 .. Size(a)) \X (-1 .. Size(a) - 1)
<1>10. D = E BY <1>9, Zenon DEF L
<1>11. f = [s \in E |-> SortStep(cutoff, s, f)]
  <2> HIDE DEF D, E
  <2> QED BY <1>8, <1>10, Zenon
<1>12. S = [s \in E |-> SortStep(cutoff, s, S)]
  BY <1>11, Zenon DEF SortRanges, SortStep
<1> HIDE DEF S, E
<1>13. \A s \in D : S[s] = SortStep(cutoff, s, S) BY <1>10, <1>12, Zenon
<1> QED BY <1>13 DEF S, L

\* Sorting the two sides of a pivot that is in place sorts the whole range.
LEMMA SidesSorted ==
    ASSUME NEW n \in Nat, NEW b, NEW lo \in 0 .. n, NEW hi \in -1 .. n - 1,
           NEW placed, NEW i, Placed(b, n, lo, hi, placed, i),
           NEW c, Rearranges(c, placed, n, lo, i - 1), AscendingIn(c, lo, i - 1),
           NEW d, Rearranges(d, c, n, i + 1, hi), AscendingIn(d, i + 1, hi)
    PROVE  Rearranges(d, b, n, lo, hi) /\ AscendingIn(d, lo, hi)
<1>1. /\ Rearranges(placed, b, n, lo, hi) /\ i \in lo + 1 .. hi - 1
      /\ \A k \in lo .. i - 1 : placed[k] <= placed[i]
      /\ \A k \in i + 1 .. hi : placed[k] >= placed[i]
  BY DEF Placed
<1>2. lo \in 0 .. n /\ i - 1 \in -1 .. n - 1 /\ i + 1 \in 0 .. n /\ i \in 0 .. n - 1 BY <1>1
<1>3. placed \in [0 .. n - 1 -> Int] /\ c \in [0 .. n - 1 -> Int] /\ d \in [0 .. n - 1 -> Int]
  BY <1>1 DEF Rearranges
<1> DEFINE pivot == placed[i]
<1>4. pivot \in Int BY <1>2, <1>3
<1>5. \A k \in 0 .. n - 1 : ~ (lo <= k /\ k <= i - 1) => c[k] = placed[k] BY RearrangesInside
<1>6. \A k \in 0 .. n - 1 : ~ (i + 1 <= k /\ k <= hi) => d[k] = c[k] BY RearrangesInside
<1>7. \A k \in lo .. i - 1 : c[k] <= pivot BY <1>1, <1>2, RearrangesBelow, Zenon
<1>8. \A k \in i + 1 .. hi : c[k] >= pivot
  <2> TAKE k \in i + 1 .. hi
  <2>1. k \in 0 .. n - 1 /\ ~ (k <= i - 1) BY <1>1
  <2> QED BY <1>1, <1>5, <2>1
<1>9. \A k \in i + 1 .. hi : d[k] >= pivot BY <1>2, <1>8, RearrangesAbove, Zenon
<1>10. d[i] = pivot BY <1>2, <1>5, <1>6
<1>11. \A k \in lo .. i - 1 : d[k] = c[k]
  <2> TAKE k \in lo .. i - 1
  <2>1. k \in 0 .. n - 1 /\ ~ (i + 1 <= k) BY <1>1
  <2> QED BY <1>6, <2>1
<1>12. AscendingIn(d, lo, hi)
  <2> SUFFICES ASSUME NEW x \in lo .. hi, NEW y \in lo .. hi, x < y PROVE d[x] <= d[y]
    BY DEF AscendingIn
  <2> HIDE DEF pivot
  <2>0. d[x] \in Int /\ d[y] \in Int BY <1>3
  <2>1. CASE y < i
    <3>1. x \in lo .. i - 1 /\ y \in lo .. i - 1 BY <1>1, <2>1
    <3> QED BY <1>11, <3>1 DEF AscendingIn
  <2>2. CASE x > i
    <3>1. x \in i + 1 .. hi /\ y \in i + 1 .. hi BY <1>1, <2>2
    <3> QED BY <3>1 DEF AscendingIn
  <2>3. CASE x <= i /\ i <= y
    <3>1. d[x] <= pivot
      <4>1. CASE x = i BY <1>4, <1>10, <4>1
      <4>2. CASE x # i
        <5>1. x \in lo .. i - 1 BY <1>1, <2>3, <4>2
        <5> QED BY <1>7, <1>11, <5>1
      <4> QED BY <4>1, <4>2
    <3>2. d[y] >= pivot
      <4>1. CASE y = i BY <1>4, <1>10, <4>1
      <4>2. CASE y # i
        <5>1. y \in i + 1 .. hi BY <1>1, <2>3, <4>2
        <5> QED BY <1>9, <5>1
      <4> QED BY <4>1, <4>2
    <3> QED BY <1>4, <2>0, <3>1, <3>2
  <2> QED BY <1>1, <2>1, <2>2, <2>3
<1>13. Rearranges(d, b, n, lo, hi)
  <2>1. /\ lo \in Int /\ hi \in Int /\ i - 1 \in Int /\ i + 1 \in Int
        /\ lo <= lo /\ i - 1 <= hi /\ lo <= i + 1 /\ hi <= hi
    BY <1>1
  <2>2. Rearranges(c, placed, n, lo, hi) BY <2>1, RearrangesWider
  <2>3. Rearranges(d, c, n, lo, hi) BY <2>1, RearrangesWider
  <2>4. Rearranges(c, b, n, lo, hi) BY <1>1, <2>1, <2>2, RearrangesTwice
  <2> QED BY <2>1, <2>3, <2>4, RearrangesTwice
<1> QED BY <1>12, <1>13

\* quickSort of a range below which nothing is larger puts it in order, alone.
LEMMA SortRangesRight ==
    ASSUME NEW n \in Nat, NEW a \in [0 .. n - 1 -> Int], NEW cutoff \in Nat, cutoff >= 2,
           NEW b \in Like(a), NEW lo \in 0 .. n, NEW hi \in -1 .. n - 1, BoundedBelow(b, lo, lo, hi)
    PROVE  /\ Rearranges(SortRanges(a, cutoff)[<<b, lo, hi>>], b, n, lo, hi)
           /\ AscendingIn(SortRanges(a, cutoff)[<<b, lo, hi>>], lo, hi)
<1> DEFINE L == Like(a)
           D == L \X (0 .. n) \X (-1 .. n - 1)
           S == SortRanges(a, cutoff)
           m == [s \in D |-> IF s[2] <= s[3] THEN s[3] - s[2] + 1 ELSE 0]
           Right(s) == Rearranges(S[s], s[1], n, s[2], s[3]) /\ AscendingIn(S[s], s[2], s[3])
           Q == {s \in D : BoundedBelow(s[1], s[2], s[2], s[3]) => Right(s)}
<1>1. \A s \in D : S[s] = SortStep(cutoff, s, S) BY SortRangesUnfold
<1>2. \A x \in L : x \in [0 .. n - 1 -> Int] BY LikeArrays, Zenon
<1>3. \A x \in L : \A r : \A u, v \in Int : Rearranges(r, x, n, u, v) => r \in L BY LikeArrays, Zenon
<1> HIDE DEF L, S
<1>4. ASSUME NEW s \in D, \A q \in D : m[q] < m[s] => q \in Q, BoundedBelow(s[1], s[2], s[2], s[3])
      PROVE  Right(s)
  <2>1. PICK x \in L, u \in 0 .. n, v \in -1 .. n - 1 : s = <<x, u, v>> OBVIOUS
  <2>2. x \in [0 .. n - 1 -> Int] /\ BoundedBelow(x, u, u, v) /\ S[s] = SortStep(cutoff, s, S)
    BY <1>1, <1>2, <1>4, <2>1
  <2>3. SUFFICES Rearranges(S[s], x, n, u, v) /\ AscendingIn(S[s], u, v)
    BY <2>1
  <2>4. CASE v - u >= cutoff
    <3> DEFINE i == Split(x, u, v)[2]
               placed == move(Split(x, u, v)[1], i, v - 1)
               q == <<placed, u, i - 1>>
               c == S[q]
               p == <<c, i + 1, v>>
    <3>1. S[s] = S[p] BY <2>1, <2>2, <2>4, Zenon DEF SortStep, Split
    <3>2. Placed(x, n, u, v, placed, i)
      <4>1. v - u >= 2 BY <2>4
      <4> QED BY <2>2, <4>1, PivotPlaced
    <3> HIDE DEF placed, i, c
    <3>3. /\ Rearranges(placed, x, n, u, v) /\ i \in u + 1 .. v - 1
          /\ \A k \in i + 1 .. v : placed[k] >= placed[i]
      BY <3>2 DEF Placed
    <3>4. placed \in L /\ placed \in [0 .. n - 1 -> Int]
      <4>1. u \in Int /\ v \in Int OBVIOUS
      <4> QED BY <1>3, <3>3, <4>1 DEF Rearranges
    <3>5. m[s] = v - u + 1
      <4>1. s[2] = u /\ s[3] = v /\ u <= v BY <2>1, <2>4
      <4> HIDE DEF D
      <4>2. m[s] = IF s[2] <= s[3] THEN s[3] - s[2] + 1 ELSE 0 BY Zenon
      <4> QED BY <4>1, <4>2, Zenon
    <3>6. q \in D
      <4>1. u \in 0 .. n /\ i - 1 \in -1 .. n - 1 BY <3>3
      <4> QED BY <3>4, <4>1, Zenon
    <3>7. m[q] < m[s]
      <4>1. q[2] = u /\ q[3] = i - 1 OBVIOUS
      <4> HIDE DEF D, q
      <4>2. m[q] = IF q[2] <= q[3] THEN q[3] - q[2] + 1 ELSE 0 BY <3>6, Zenon
      <4> HIDE DEF m
      <4>3. u <= i - 1 /\ u \in Int /\ i - 1 \in Int BY <3>3
      <4>4. m[q] = (i - 1) - u + 1 BY <4>1, <4>2, <4>3, Zenon
      <4>5. (i - 1) - u + 1 < v - u + 1 BY <3>3
      <4> QED BY <3>5, <4>4, <4>5, Zenon
    <3>8. BoundedBelow(placed, u, u, i - 1)
      <4> SUFFICES ASSUME u > 0, NEW k \in u .. i - 1 PROVE placed[u - 1] <= placed[k]
        BY DEF BoundedBelow
      <4>1. u - 1 \in 0 .. n - 1 /\ ~ (u <= u - 1) /\ k \in u .. v BY <3>3
      <4>2. placed[u - 1] = x[u - 1] BY <3>3, <4>1, RearrangesInside
      <4>3. x[u - 1] \in Int /\ \A h \in u .. v : x[h] >= x[u - 1]
        BY <2>2, <4>1 DEF BoundedBelow
      <4>4. PICK w : w = x[u - 1] OBVIOUS
      <4>5. Rearranges(placed, x, n, u, v) BY <3>3
      <4>6. \A h \in u .. v : x[h] >= w BY <4>3, <4>4
      <4>7. \A h \in u .. v : placed[h] >= w BY <4>5, <4>6, RearrangesAbove, Zenon
      <4>8. placed[k] >= x[u - 1] /\ placed[k] \in Int BY <3>4, <4>1, <4>4, <4>7
      <4> QED BY <4>2, <4>3, <4>8
    <3>9. Rearranges(c, placed, n, u, i - 1) /\ AscendingIn(c, u, i - 1)
      <4>1. q \in Q
        <5> HIDE DEF m, q, D
        <5> QED BY <1>4, <3>6, <3>7
      <4>2. q[1] = placed /\ q[2] = u /\ q[3] = i - 1 OBVIOUS
      <4> HIDE DEF q
      <4> QED BY <3>8, <4>1, <4>2 DEF c
    <3>10. c \in L /\ c \in [0 .. n - 1 -> Int]
      <4>1. u \in Int /\ i - 1 \in Int BY <3>3
      <4> QED BY <1>3, <3>4, <3>9, <4>1 DEF Rearranges
    <3>11. p \in D
      <4>1. i + 1 \in 0 .. n BY <3>3
      <4> QED BY <3>10, <4>1, Zenon
    <3>12. m[p] < m[s]
      <4>1. p[2] = i + 1 /\ p[3] = v OBVIOUS
      <4> HIDE DEF D, p
      <4>2. m[p] = IF p[2] <= p[3] THEN p[3] - p[2] + 1 ELSE 0 BY <3>11, Zenon
      <4> HIDE DEF m
      <4>3. m[p] = v - (i + 1) + 1 \/ m[p] = 0 BY <4>1, <4>2, Zenon
      <4>4. v - (i + 1) + 1 < v - u + 1 /\ 0 < v - u + 1 BY <3>3
      <4> QED BY <3>5, <4>3, <4>4, Zenon
    <3>13. BoundedBelow(c, i + 1, i + 1, v)
      <4> SUFFICES ASSUME NEW k \in i + 1 .. v PROVE c[(i + 1) - 1] <= c[k]
        BY DEF BoundedBelow
      <4>1. i \in 0 .. n - 1 /\ ~ (i <= i - 1) /\ k \in 0 .. n - 1 /\ ~ (k <= i - 1) /\ (i + 1) - 1 = i
        BY <3>3
      <4>2. c[i] = placed[i] /\ c[k] = placed[k] BY <3>9, <4>1, RearrangesInside
      <4>3. placed[k] >= placed[i] /\ placed[k] \in Int /\ placed[i] \in Int BY <3>3, <3>4, <4>1
      <4> QED BY <4>1, <4>2, <4>3
    <3>14. Rearranges(S[p], c, n, i + 1, v) /\ AscendingIn(S[p], i + 1, v)
      <4>1. p \in Q
        <5> HIDE DEF m, p, D
        <5> QED BY <1>4, <3>11, <3>12
      <4>2. p[1] = c /\ p[2] = i + 1 /\ p[3] = v OBVIOUS
      <4> HIDE DEF p
      <4> QED BY <3>13, <4>1, <4>2
    <3> HIDE DEF p
    <3> QED BY <3>1, <3>2, <3>9, <3>14, SidesSorted, Zenon
  <2>5. CASE ~ (v - u >= cutoff)
    <3>1. S[s] = insertionSort(x, u, v) BY <2>1, <2>2, <2>5 DEF SortStep
    <3> QED BY <2>2, <3>1, InsertionSortRange
  <2> QED BY <2>4, <2>5
<1>5. Q = D
  <2>1. m \in [D -> Nat] OBVIOUS
  <2> HIDE DEF D, m
  <2>2. Inductive(D, m, Q) BY <1>4, <2>1 DEF Inductive
  <2> HIDE DEF Q
  <2> QED BY <2>2, MeasureInduction, Zenon
<1> DEFINE s0 == <<b, lo, hi>>
<1>6. s0 \in D /\ s0[1] = b /\ s0[2] = lo /\ s0[3] = hi BY DEF L
<1> HIDE DEF s0
<1>7. s0 \in Q BY <1>5, <1>6
<1> QED BY <1>6, <1>7 DEF s0, S

\* quickSort puts every array in order: its scans stop inside the range they divide, the
\* pivot ends in place and the ranges left to sort are smaller.
THEOREM QuickSortSorts ==
    ASSUME NEW n \in Nat, NEW a \in [0 .. n - 1 -> Int], NEW cutoff \in Nat, cutoff >= 2
    PROVE  SortedArray(quickSort(a, cutoff), a, n)
<1> DEFINE r == SortRanges(a, cutoff)[<<a, 0, n - 1>>]
<1>1. quickSort(a, cutoff) = r BY SizeIs DEF quickSort
<1>2. a \in Like(a) BY DEF Like, Range
<1>3. 0 \in 0 .. n /\ n - 1 \in -1 .. n - 1 /\ BoundedBelow(a, 0, 0, n - 1) BY DEF BoundedBelow
<1>4. Rearranges(r, a, n, 0, n - 1) /\ AscendingIn(r, 0, n - 1)
  BY <1>2, <1>3, SortRangesRight, Zenon
<1> HIDE DEF r
<1> QED BY <1>1, <1>4, SortedWhole
=============================================================================
