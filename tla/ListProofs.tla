----------------------------- MODULE ListProofs -----------------------------
(***************************************************************************)
(* Proofs about ArrayList for lists of any length and any sequence of calls.*)
(***************************************************************************)
EXTENDS ArrayList, SortProofs

LEMMA ElementArrays ==
    ASSUME NEW n \in Nat, NEW a \in [0 .. n - 1 -> Elements]
    PROVE  a \in [0 .. n - 1 -> Int] /\ Range(a) \subseteq Elements
<1>1. Elements \subseteq Int BY ListAssumption
<1>2. a \in [0 .. n - 1 -> Int] BY <1>1
<1>3. Range(a) \subseteq Elements BY DEF Range
<1> QED BY <1>2, <1>3

\* r is what one of the sorts returns for the n elements of a; r is a in order.
SortOf(r, a, n) == r \in {quickSort(a, Cutoff), insertionSort(a, 0, n - 1), mergeSort(a)}
InOrder(r, a, n) == r \in [0 .. n - 1 -> Elements] /\ Ascending(r) /\ Permutes(r, a)

\* Every sort returns the elements it was given in ascending order.
LEMMA SortsRight ==
    ASSUME NEW n \in Nat, NEW a \in [0 .. n - 1 -> Elements], NEW r, SortOf(r, a, n)
    PROVE  InOrder(r, a, n)
<1>1. a \in [0 .. n - 1 -> Int] /\ Range(a) \subseteq Elements BY ElementArrays
<1>2. SortedArray(quickSort(a, Cutoff), a, n) BY <1>1, CapacityAssumption, QuickSortSorts
<1>3. SortedArray(insertionSort(a, 0, n - 1), a, n) BY <1>1, InsertionSortSorts
<1>4. SortedArray(mergeSort(a), a, n) BY <1>1, MergeSortSorts
<1>5. SortedArray(r, a, n) BY <1>2, <1>3, <1>4 DEF SortOf
<1>6. r \in [0 .. n - 1 -> Int] /\ Ascending(r) /\ Permutes(r, a) BY <1>5 DEF SortedArray
<1>7. Range(r) = Range(a) BY <1>6 DEF Permutes
<1>8. \A i \in 0 .. n - 1 : r[i] \in Elements BY <1>1, <1>6, <1>7 DEF Range
<1> QED BY <1>6, <1>8 DEF InOrder

\* The search of a sorted array returns a number, an index of the element when the
\* element is there, and -1 or an index next to it when it is not.
LEMMA SearchRight ==
    ASSUME NEW n \in Nat, NEW a \in [0 .. n - 1 -> Elements], Ascending(a), NEW e \in Elements
    PROVE  /\ binarySearch(a, e, TRUE) \in Int
           /\ e \in Range(a) =>
                 binarySearch(a, e, TRUE) \in 0 .. n - 1 /\ a[binarySearch(a, e, TRUE)] = e
           /\ e \notin Range(a) => \/ binarySearch(a, e, TRUE) = -1
                                  \/ /\ binarySearch(a, e, TRUE) \in 0 .. n - 1
                                     /\ NextTo(a, n, binarySearch(a, e, TRUE), e)
<1>1. a \in [0 .. n - 1 -> Int] BY ElementArrays
<1>2. e \in Int BY ListAssumption
<1> QED BY <1>1, <1>2, SearchFindsElements, SearchEndsBeside

-----------------------------------------------------------------------------
(* Arrays without repetition *)

Once(a) == \A i, j \in DOMAIN a : a[i] = a[j] => i = j

\* b is a, of n elements, with e put in at p; with the element at p taken out.
PutIn(a, b, n, p, e) ==
    /\ b \in [0 .. n -> Elements]
    /\ \A i \in 0 .. n : b[i] = IF i < p THEN a[i] ELSE IF i = p THEN e ELSE a[i - 1]
TakenOut(a, b, n, p) ==
    /\ b \in [0 .. n - 2 -> Elements]
    /\ \A i \in 0 .. n - 2 : b[i] = IF i < p THEN a[i] ELSE a[i + 1]

LEMMA ArrayWith ==
    ASSUME NEW n \in Nat, NEW a \in [0 .. n - 1 -> Elements], Once(a), NEW e \in Elements, e \notin Range(a),
           NEW p \in 0 .. n,
           NEW b, PutIn(a, b, n, p, e)
    PROVE  Once(b) /\ Range(b) = Range(a) \cup {e}
<1> USE DEF PutIn
<1>1. b \in [0 .. n -> Elements] OBVIOUS
<1>2. \A i \in 0 .. n - 1 : a[i] # e /\ a[i] \in Range(a) BY DEF Range
<1>3. Once(b) BY <1>1, <1>2 DEF Once
<1>4. Range(b) \subseteq Range(a) \cup {e} BY <1>1, <1>2 DEF Range
<1>5. e \in Range(b)
  <2>1. b[p] = e BY <1>1
  <2> QED BY <1>1, <2>1 DEF Range
<1>6. Range(a) \subseteq Range(b)
  <2> SUFFICES ASSUME NEW i \in 0 .. n - 1 PROVE a[i] \in Range(b)
    BY DEF Range
  <2>1. CASE i < p
    <3>1. b[i] = a[i] /\ i \in DOMAIN b BY <1>1, <2>1
    <3> QED BY <3>1 DEF Range
  <2>2. CASE i >= p
    <3>1. i + 1 \in DOMAIN b /\ ~ (i + 1 < p) /\ i + 1 # p /\ (i + 1) - 1 = i BY <1>1, <2>2
    <3>2. b[i + 1] = a[i] BY <1>1, <3>1
    <3> QED BY <3>1, <3>2 DEF Range
  <2> QED BY <2>1, <2>2
<1> QED BY <1>1, <1>3, <1>4, <1>5, <1>6

LEMMA ArrayWithout ==
    ASSUME NEW n \in Nat, NEW a \in [0 .. n - 1 -> Elements], Once(a), NEW p \in 0 .. n - 1,
           NEW b, TakenOut(a, b, n, p)
    PROVE  Once(b) /\ Range(b) = Range(a) \ {a[p]}
<1> USE DEF TakenOut
<1>1. b \in [0 .. n - 2 -> Elements] /\ n - 1 \in Nat /\ (n - 1) - 1 = n - 2 OBVIOUS
<1>2. Once(b) BY <1>1 DEF Once
<1>3. Range(b) \subseteq Range(a) \ {a[p]}
  <2> SUFFICES ASSUME NEW i \in 0 .. n - 2 PROVE b[i] \in Range(a) \ {a[p]}
    BY <1>1 DEF Range
  <2>1. CASE i < p
    <3>1. b[i] = a[i] /\ i \in DOMAIN a /\ i # p BY <1>1, <2>1
    <3> QED BY <3>1 DEF Range, Once
  <2>2. CASE i >= p
    <3>1. b[i] = a[i + 1] /\ i + 1 \in DOMAIN a /\ i + 1 # p BY <1>1, <2>2
    <3> QED BY <3>1 DEF Range, Once
  <2> QED BY <2>1, <2>2
<1>4. Range(a) \ {a[p]} \subseteq Range(b)
  <2> SUFFICES ASSUME NEW i \in 0 .. n - 1, i # p PROVE a[i] \in Range(b)
    BY DEF Range
  <2>1. CASE i < p
    <3>1. b[i] = a[i] /\ i \in DOMAIN b BY <1>1, <2>1
    <3> QED BY <3>1 DEF Range
  <2>2. CASE i > p
    <3>1. i - 1 \in DOMAIN b /\ ~ (i - 1 < p) /\ (i - 1) + 1 = i BY <1>1, <2>2
    <3>2. b[i - 1] = a[i] BY <1>1, <3>1
    <3> QED BY <3>1, <3>2 DEF Range
  <2> QED BY <2>1, <2>2
<1> QED BY <1>1, <1>2, <1>3, <1>4

LEMMA WithoutAscends ==
    ASSUME NEW n \in Nat, NEW a \in [0 .. n - 1 -> Elements], Ascending(a), NEW p \in 0 .. n - 1,
           NEW b, TakenOut(a, b, n, p)
    PROVE  Ascending(b)
<1> USE ListAssumption DEF TakenOut
<1> SUFFICES ASSUME NEW i \in 0 .. n - 2, NEW j \in 0 .. n - 2, i < j PROVE b[i] <= b[j]
  BY DEF Ascending
<1>1. CASE j < p BY <1>1 DEF Ascending
<1>2. CASE ~ (j < p) /\ i < p BY <1>2 DEF Ascending
<1>3. CASE ~ (i < p)
  <2>1. i + 1 \in DOMAIN a /\ j + 1 \in DOMAIN a /\ i + 1 < j + 1 /\ ~ (j < p) BY <1>3
  <2> QED BY <1>3, <2>1 DEF Ascending
<1> QED BY <1>1, <1>2, <1>3

LEMMA ArrayMoved ==
    ASSUME NEW n \in Nat, NEW a \in [0 .. n - 1 -> Elements], Once(a),
           NEW i \in 0 .. n - 1, NEW j \in 0 .. n - 1
    PROVE  /\ move(a, i, j) \in [0 .. n - 1 -> Elements] /\ Once(move(a, i, j))
           /\ Range(move(a, i, j)) = Range(a)
<1> DEFINE b == move(a, i, j)
<1>1. b \in [0 .. n - 1 -> Elements] BY DEF move
<1>2. \A k \in 0 .. n - 1 : b[k] = IF k = j THEN a[i] ELSE IF k = i THEN a[j] ELSE a[k] BY DEF move
<1> HIDE DEF b
<1>3. Once(b) BY <1>1, <1>2 DEF Once
<1>4. Range(b) = Range(a)
  <2>1. Range(b) \subseteq Range(a) BY <1>1, <1>2 DEF Range
  <2>2. \A k \in 0 .. n - 1 : \E m \in 0 .. n - 1 : b[m] = a[k]
    <3> TAKE k \in 0 .. n - 1
    <3>1. CASE k = i BY <1>2, <3>1
    <3>2. CASE k = j /\ k # i BY <1>2, <3>2
    <3>3. CASE k # i /\ k # j BY <1>2, <3>3
    <3> QED BY <3>1, <3>2, <3>3
  <2>3. Range(a) \subseteq Range(b) BY <1>1, <2>2 DEF Range
  <2> QED BY <2>1, <2>3
<1> QED BY <1>1, <1>3, <1>4 DEF b

\* A permutation of an array without repetition is one, too.
LEMMA PermutedOnce ==
    ASSUME NEW n \in Nat, NEW a \in [0 .. n - 1 -> Elements], Once(a),
           NEW r \in [0 .. n - 1 -> Elements], Permutes(r, a)
    PROVE  Once(r) /\ Range(r) = Range(a)
<1>1. Range(r) = Range(a) BY DEF Permutes
<1>2. ASSUME NEW i \in 0 .. n - 1, NEW j \in 0 .. n - 1, r[i] = r[j] PROVE i = j
  <2> DEFINE v == r[i]
             Ir == {k \in DOMAIN r : r[k] = v}
             Ia == {k \in DOMAIN a : a[k] = v}
  <2>1. v \in Range(r) /\ v \in Range(a) BY <1>1 DEF Range
  <2>2. PICK k \in DOMAIN a : a[k] = v BY <2>1 DEF Range
  <2>3. Ia = {k} BY <2>2 DEF Once
  <2>4. Cardinality(Ia) = 1 BY <2>3, FS_Singleton
  <2>5. Cardinality(Ir) = Cardinality(Ia) BY <2>1 DEF Permutes, Count
  <2>6. IsFiniteSet(0 .. n - 1) BY FS_Interval
  <2>7. IsFiniteSet(Ir) BY <2>6, FS_Subset
  <2>8. \E x : Ir = {x} BY <2>4, <2>5, <2>7, FS_Singleton
  <2>9. i \in Ir /\ j \in Ir BY <1>2
  <2> QED BY <2>8, <2>9
<1> QED BY <1>1, <1>2 DEF Once

-----------------------------------------------------------------------------
(* The inductive invariant *)

\* The array may be one longer than its capacity, and a call reads one further.
ListInv ==
    /\ size \in Nat /\ array \in [0 .. size - 1 -> Elements]
    /\ Once(array)
    /\ sorted => Ascending(array)
    /\ size <= capacity + 1
    /\ touched <= capacity + 1
    /\ ListTypeOK

Ops == {"new", "add", "removeElement", "remove", "removeAll"}
CallMade ==
    \E op \in Ops, x \in Elements \cup {NoElement}, ans \in BOOLEAN, d \in Elements \cup {NoElement} :
        Returned(op, x, ans, d)

LEMMA EmptyArray ==
    ASSUME NEW a, a = [i \in {} |-> NoElement]
    PROVE  Size(a) = 0 /\ a \in [0 .. 0 - 1 -> Elements] /\ Once(a) /\ Ascending(a) /\ Range(a) = {}
<1>1. DOMAIN a = {} /\ 0 .. 0 - 1 = {} OBVIOUS
<1>2. Size(a) = 0 BY <1>1, FS_EmptySet DEF Size
<1>3. a \in [0 .. 0 - 1 -> Elements] BY <1>1
<1> QED BY <1>1, <1>2, <1>3 DEF Once, Ascending, Range

LEMMA InitListInv == Init => ListInv
<1> SUFFICES ASSUME Init PROVE ListInv
  OBVIOUS
<1>1. /\ Size(array) = 0 /\ array \in [0 .. 0 - 1 -> Elements] /\ Once(array) /\ Ascending(array)
  BY EmptyArray DEF Init
<1>2. size = 0 BY <1>1 DEF size
<1>3. ListTypeOK BY <1>1, <1>2, CapacityAssumption DEF Init, ListTypeOK
<1> QED BY <1>1, <1>2, <1>3, CapacityAssumption DEF Init, ListInv

\* What an action does to the array is in the lemmas above; this is the rest.
LEMMA KeepsListInv ==
    ASSUME ListInv, NEW n \in Nat, array' \in [0 .. n - 1 -> Elements], Once(array'),
           sorted' \in BOOLEAN, sorted' => Ascending(array'),
           capacity' \in Nat \ {0}, n <= capacity' + 1,
           touched' \in -1 .. capacity' + 1,
           call' = call \/ CallMade
    PROVE  ListInv' /\ size' = n
<1>1. size' = n
  <2>1. DOMAIN array' = 0 .. n - 1 OBVIOUS
  <2> QED BY <2>1, SizeIs DEF size
<1>2. call' \in [op : Ops, element : Elements \cup {NoElement}, answer : BOOLEAN,
                 returned : Elements \cup {NoElement}]
  BY DEF CallMade, Returned, ListInv, ListTypeOK, Ops
<1>3. \A c \in Nat \ {0} : \A t \in -1 .. c + 1 : t \in -1 .. 2 * c /\ t <= c + 1 OBVIOUS
<1>4. touched' \in -1 .. 2 * capacity' /\ touched' <= capacity' + 1 BY <1>3
<1>5. array' \in [0 .. size' - 1 -> Elements] /\ size' \in Nat /\ size' <= capacity' + 1 BY <1>1
<1>6. ListTypeOK' BY <1>2, <1>4, <1>5 DEF ListTypeOK, Ops
<1> QED BY <1>1, <1>4, <1>5, <1>6 DEF ListInv

LEMMA ListFacts ==
    ASSUME ListInv
    PROVE  /\ size \in Nat /\ array \in [0 .. size - 1 -> Elements] /\ Once(array)
           /\ capacity \in Nat \ {0} /\ size <= capacity + 1 /\ touched \in -1 .. capacity + 1
           /\ sorted \in BOOLEAN /\ (sorted => Ascending(array))
           /\ Elements \subseteq Nat /\ NoElement \notin Elements
<1>1. touched \in -1 .. capacity + 1
  <2>1. capacity \in Nat /\ touched \in -1 .. 2 * capacity /\ touched <= capacity + 1
    BY DEF ListInv, ListTypeOK
  <2> QED BY <2>1
<1> QED BY <1>1, ListAssumption DEF ListInv, ListTypeOK, NoElement

LEMMA AddKeeps ==
    ASSUME ListInv, NEW e \in Elements, add(e)
    PROVE  ListInv' /\ Range(array') = Range(array) \cup {e}
<1> USE ListFacts
<1>0. size \in Nat /\ array \in [0 .. size - 1 -> Elements] /\ Once(array) OBVIOUS
<1>1. PutIn(array, array', size, size, e) BY DEF PutIn, add
<1>2. /\ array' \in [0 .. size -> Elements] /\ Once(array') /\ Range(array') = Range(array) \cup {e}
  <2>1. size \in 0 .. size /\ e \notin Range(array) BY DEF add
  <2> HIDE ListFacts
  <2>2. array' \in [0 .. size -> Elements] BY <1>1 DEF PutIn
  <2>3. Once(array') /\ Range(array') = Range(array) \cup {e}
    <3>1. \A p \in 0 .. size : PutIn(array, array', size, p, e) =>
              Once(array') /\ Range(array') = Range(array) \cup {e}
      BY <1>0, <2>1, ArrayWith
    <3> QED BY <1>1, <2>1, <3>1
  <2> QED BY <2>2, <2>3
<1>3. size + 1 \in Nat /\ (size + 1) - 1 = size OBVIOUS
<1>4. capacity' \in Nat \ {0} /\ size + 1 <= capacity' + 1 /\ size \in -1 .. capacity' + 1
  BY DEF add, Grown
<1>5. CallMade
  BY DEF add, CallMade, Called, Ops
<1>6. sorted' = FALSE /\ touched' = size BY DEF add
<1>7. ListInv' BY <1>2, <1>3, <1>4, <1>5, <1>6, KeepsListInv
<1> QED BY <1>2, <1>7

\* What remove and a removeElement that found something have in common.
LEMMA WithoutKeeps ==
    ASSUME ListInv, NEW index \in 0 .. size - 1, array' = Without(index), touched' = size,
           UNCHANGED <<capacity, sorted>>,
           CallMade
    PROVE  ListInv' /\ Range(array') = Range(array) \ {array[index]}
<1> USE ListFacts
<1>0. size \in Nat /\ array \in [0 .. size - 1 -> Elements] /\ Once(array) OBVIOUS
<1>1. TakenOut(array, array', size, index) BY DEF TakenOut, Without
<1>2. /\ array' \in [0 .. (size - 1) - 1 -> Elements] /\ Once(array')
      /\ Range(array') = Range(array) \ {array[index]} /\ size - 1 \in Nat
  <2> HIDE ListFacts
  <2>1. array' \in [0 .. (size - 1) - 1 -> Elements] /\ size - 1 \in Nat
    <3>1. array' \in [0 .. size - 2 -> Elements] BY <1>1 DEF TakenOut
    <3>2. size - 1 \in Nat /\ (size - 1) - 1 = size - 2 BY <1>0
    <3> QED BY <3>1, <3>2
  <2>2. Once(array') /\ Range(array') = Range(array) \ {array[index]} BY <1>0, <1>1, ArrayWithout, ZenonT(60)
  <2> QED BY <2>1, <2>2
<1>3. sorted' => Ascending(array')
  <2> SUFFICES ASSUME sorted PROVE Ascending(array')
    OBVIOUS
  <2>1. Ascending(array) OBVIOUS
  <2> QED BY <1>0, <1>1, <2>1, WithoutAscends, Zenon
<1>4. size - 1 <= capacity' + 1 /\ touched' \in -1 .. capacity' + 1 /\ capacity' \in Nat \ {0} OBVIOUS
<1>5. sorted' \in BOOLEAN OBVIOUS
<1>6. ListInv' BY <1>2, <1>3, <1>4, <1>5, KeepsListInv
<1> QED BY <1>2, <1>6

LEMMA RemoveKeeps ==
    ASSUME ListInv, NEW index \in DOMAIN array, remove(index)
    PROVE  ListInv' /\ Range(array') = Range(array) \ {array[index]} /\ array[index] \in Elements
<1> USE ListFacts
<1>0. size \in Nat /\ array \in [0 .. size - 1 -> Elements] /\ Once(array) OBVIOUS
<1>1. index \in 0 .. size - 1 /\ array[index] \in Elements OBVIOUS
<1>2. CallMade
  <2>1. Behind(index) \subseteq Elements \cup {NoElement} BY <1>1 DEF Behind
  <2> QED BY <1>1, <2>1 DEF remove, CallMade, Ops
<1>3. array' = Without(index) /\ touched' = size /\ UNCHANGED <<capacity, sorted>> BY DEF remove
<1> QED BY <1>1, <1>2, <1>3, WithoutKeeps

\* The three ways a removal by value ends.
LEMMA RemoveElementKeeps ==
    ASSUME ListInv, NEW e \in Elements, removeElement(e)
    PROVE  /\ ListInv' /\ sorted' = sorted
           /\ \/ /\ Range(array') = Range(array) /\ Called("removeElement", e, FALSE)
                 /\ sorted => e \notin Range(array)
              \/ /\ \E d \in Range(array) : /\ Range(array') = Range(array) \ {d}
                                            /\ e \in Range(array) => d = e
                                            /\ e \notin Range(array) => Beside(d, e)
                 /\ Called("removeElement", e, TRUE) /\ sorted
<1> USE ListFacts
<1>0. size \in Nat /\ array \in [0 .. size - 1 -> Elements] /\ Once(array) OBVIOUS
<1> DEFINE index == binarySearch(array, e, sorted)
           found == index >= 0 /\ index < size
<1>1. sorted => /\ index \in Int
                /\ e \in Range(array) => index \in 0 .. size - 1 /\ array[index] = e
                /\ e \notin Range(array) => index = -1 \/ NextTo(array, size, index, e)
  <2> SUFFICES ASSUME sorted
               PROVE  /\ index \in Int
                      /\ e \in Range(array) => index \in 0 .. size - 1 /\ array[index] = e
                      /\ e \notin Range(array) => index = -1 \/ NextTo(array, size, index, e)
    OBVIOUS
  <2>1. Ascending(array) /\ index = binarySearch(array, e, TRUE) OBVIOUS
  <2> HIDE DEF index
  <2> HIDE ListFacts
  <2> QED BY <1>0, <2>1, SearchRight
<1>2. ~ sorted => index = -1 BY DEF binarySearch
<1>3. /\ array' = (IF found THEN Without(index) ELSE array)
      /\ touched' = (IF found THEN size ELSE -1)
      /\ Called("removeElement", e, found) /\ capacity' = capacity /\ sorted' = sorted
  BY DEF removeElement
<1> HIDE DEF index
<1>4. CallMade
  <2>1. found \in BOOLEAN /\ "removeElement" \in Ops BY DEF Ops
  <2> QED BY <1>3, <2>1 DEF CallMade, Called
<1>5. CASE found
  <2>1. sorted BY <1>2, <1>5
  <2>2. index \in 0 .. size - 1 BY <1>1, <1>5, <2>1
  <2>3. ListInv' /\ Range(array') = Range(array) \ {array[index]} BY <1>3, <1>4, <1>5, <2>2, WithoutKeeps
  <2>4. array[index] \in Range(array) BY <2>2 DEF Range
  <2>5. Called("removeElement", e, TRUE) BY <1>3, <1>5 DEF Called
  <2>6. e \notin Range(array) => Beside(array[index], e)
    <3>1. e \notin Range(array) => NextTo(array, size, index, e) BY <1>1, <2>1, <2>2
    <3> QED BY <3>1 DEF NextTo, Beside, Range
  <2> QED BY <1>1, <1>3, <2>1, <2>3, <2>4, <2>5, <2>6
<1>6. CASE ~ found
  <2>1. array' = array /\ touched' = -1 BY <1>3, <1>6
  <2>2. sorted => e \notin Range(array) BY <1>1, <1>6
  <2>3. Once(array') /\ (sorted' => Ascending(array')) BY <1>3, <2>1
  <2>4. touched' \in -1 .. capacity' + 1 BY <1>3, <2>1
  <2>5. ListInv' BY <1>3, <1>4, <2>1, <2>3, <2>4, KeepsListInv
  <2>6. Called("removeElement", e, FALSE) BY <1>3, <1>6 DEF Called
  <2> QED BY <1>3, <2>1, <2>2, <2>5, <2>6
<1> QED BY <1>5, <1>6

LEMMA RemoveAllKeeps ==
    ASSUME ListInv, NEW n \in Capacities \cup {capacity}, removeAll(n)
    PROVE  ListInv' /\ Range(array') = {}
<1> USE ListFacts
<1>0. size \in Nat /\ array \in [0 .. size - 1 -> Elements] /\ Once(array) OBVIOUS
<1>1. array' \in [0 .. 0 - 1 -> Elements] /\ Once(array') /\ Range(array') = {}
  BY EmptyArray DEF removeAll
<1>2. capacity' \in Nat \ {0} BY CapacityAssumption DEF removeAll
<1>3. 0 <= capacity' + 1 /\ touched' \in -1 .. capacity' + 1 /\ sorted' = FALSE BY <1>2 DEF removeAll
<1>4. CallMade
  BY DEF removeAll, CallMade, Called, Ops
<1>5. 0 \in Nat OBVIOUS
<1>6. ListInv' BY <1>1, <1>2, <1>3, <1>4, <1>5, KeepsListInv
<1> QED BY <1>1, <1>6

LEMMA MoveKeeps ==
    ASSUME ListInv, NEW i \in DOMAIN array, NEW j \in DOMAIN array, Move(i, j)
    PROVE  ListInv' /\ Range(array') = Range(array)
<1> USE ListFacts
<1>0. size \in Nat /\ array \in [0 .. size - 1 -> Elements] /\ Once(array) OBVIOUS
<1>1. i \in 0 .. size - 1 /\ j \in 0 .. size - 1 OBVIOUS
<1>2. array' \in [0 .. size - 1 -> Elements] /\ Once(array') /\ Range(array') = Range(array)
  <2>1. array' = move(array, i, j) BY DEF Move
  <2> HIDE ListFacts
  <2> QED BY <1>0, <1>1, <2>1, ArrayMoved
<1>3. /\ sorted' = FALSE /\ touched' = size - 1 /\ capacity' = capacity /\ call' = call BY DEF Move
<1>4. touched' \in -1 .. capacity' + 1 BY <1>3
<1>5. ListInv' BY <1>2, <1>3, <1>4, KeepsListInv
<1> QED BY <1>2, <1>5

LEMMA SortKeeps ==
    ASSUME ListInv, Sort
    PROVE  ListInv' /\ Range(array') = Range(array)
<1> USE ListFacts
<1>0. size \in Nat /\ array \in [0 .. size - 1 -> Elements] /\ Once(array) OBVIOUS
<1>1. array' \in {quickSort(array, Cutoff), insertionSort(array, 0, size - 1), mergeSort(array)}
  BY DEF Sort
<1>2. array' \in [0 .. size - 1 -> Elements] /\ Ascending(array') /\ Permutes(array', array)
  <2> HIDE ListFacts
  <2>1. SortOf(array', array, size) BY <1>1 DEF SortOf
  <2>2. InOrder(array', array, size) BY <1>0, <2>1, SortsRight
  <2> QED BY <2>2 DEF InOrder
<1>3. Once(array') /\ Range(array') = Range(array)
  <2> HIDE ListFacts
  <2> QED BY <1>0, <1>2, PermutedOnce
<1>4. /\ sorted' = TRUE /\ touched' = size - 1 /\ capacity' = capacity /\ call' = call BY DEF Sort
<1>5. touched' \in -1 .. capacity' + 1 BY <1>4
<1>6. ListInv' BY <1>2, <1>3, <1>4, <1>5, KeepsListInv
<1> QED BY <1>3, <1>6

-----------------------------------------------------------------------------
(* The invariant of every sequence of calls, and the collection it implements *)

LEMMA NextListInv ==
    ASSUME ListInv, [Next]_listVars
    PROVE  ListInv'
<1>1. CASE Sort BY <1>1, SortKeeps
<1>2. ASSUME NEW e \in Elements, add(e) PROVE ListInv' BY <1>2, AddKeeps
<1>3. ASSUME NEW e \in Elements, removeElement(e) PROVE ListInv' BY <1>3, RemoveElementKeeps
<1>5. ASSUME NEW i \in DOMAIN array, NEW j \in DOMAIN array, Move(i, j) PROVE ListInv' BY <1>5, MoveKeeps
<1>6. ASSUME NEW index \in DOMAIN array, remove(index) PROVE ListInv' BY <1>6, RemoveKeeps
<1>7. ASSUME NEW n \in Capacities \cup {capacity}, removeAll(n) PROVE ListInv' BY <1>7, RemoveAllKeeps
<1>8. CASE UNCHANGED listVars BY <1>8 DEF listVars, ListInv, ListTypeOK, size, Once, Ascending
<1> QED BY <1>1, <1>2, <1>3, <1>5, <1>6, <1>7, <1>8 DEF Next

\* The list keeps every element once, is sorted when it says so, and is never more than
\* one element longer than its capacity.
THEOREM ListInvariance ==
    Spec => []ListInv
<1>1. Init => ListInv BY InitListInv
<1>2. ListInv /\ [Next]_listVars => ListInv' BY NextListInv
<1> QED BY <1>1, <1>2, PTL DEF Spec

\* Elements, capacity and flag stay well-formed under every sequence of calls.
THEOREM ListTypeCorrect ==
    Spec => []ListTypeOK
<1>1. ListInv => ListTypeOK BY DEF ListInv
<1> QED BY <1>1, ListInvariance, PTL

\* The flag removeElement trusts tells the truth.
THEOREM FlagTellsTheTruth ==
    Spec => []SortedIsSorted
<1>1. ListInv => SortedIsSorted BY DEF ListInv, SortedIsSorted
<1> QED BY <1>1, ListInvariance, PTL

\* Where every capacity the list can have, by doubling, leaves two words in its block
\* (20, 40, 80, ... in blocks of 32, 64, 128, ...), no call leaves the block.
THEOREM AccessesInBlock ==
    ASSUME NEW Reachable \in SUBSET Nat,
           Capacities \cup {InitCapacity} \subseteq Reachable,
           \A c \in Reachable : 2 * c \in Reachable,
           \A c \in Reachable : BlockLen(c) \in Nat /\ c + 2 <= BlockLen(c)
    PROVE  Spec => []AccessInBlock
<1> DEFINE CapOK == capacity \in Reachable
<1>1. Init => CapOK BY DEF Init
<1>2. CapOK /\ [Next]_listVars => CapOK'
  BY DEF Next, listVars, Sort, add, Grown, removeElement, Move, remove, removeAll
<1>3. ListInv /\ CapOK => AccessInBlock
  <2> SUFFICES ASSUME ListInv, CapOK PROVE AccessInBlock
    OBVIOUS
  <2>1. touched \in -1 .. capacity + 1 BY ListFacts
  <2>2. BlockLen(capacity) \in Nat /\ capacity + 2 <= BlockLen(capacity) /\ capacity \in Nat OBVIOUS
  <2>3. touched < BlockLen(capacity) BY <2>1, <2>2
  <2> QED BY <2>3 DEF AccessInBlock
<1>4. Spec => []ListInv BY ListInvariance
<1> HIDE DEF CapOK
<1> QED BY <1>1, <1>2, <1>3, <1>4, PTL DEF Spec

\* Every call but the removal of an absent element is a step of the collection.
LEMMA StepsOfCollection ==
    ASSUME ListInv, [Next]_listVars
    PROVE  [(\E e \in Elements : AbsentCall(e)) \/ Collection!Next]_<<Range(array), sorted, call>>
<1> USE ListFacts
<1>1. CASE Sort
  <2>1. Range(array') = Range(array) BY <1>1, SortKeeps
  <2>2. call' = call /\ sorted' \in BOOLEAN BY <1>1 DEF Sort
  <2>3. Collection!Rearrange BY <2>1, <2>2 DEF Collection!Rearrange, Range
  <2> QED BY <2>3 DEF Collection!Next
<1>2. ASSUME NEW e \in Elements, add(e) PROVE Collection!Next
  <2>1. Range(array') = Range(array) \cup {e} BY <1>2, AddKeeps
  <2>2. sorted' = FALSE /\ Called("add", e, TRUE) BY <1>2 DEF add
  <2>3. Collection!Add(e) BY <2>1, <2>2 DEF Collection!Add, Collection!Call, Called, Returned, Range
  <2> QED BY <2>3 DEF Collection!Next
<1>3. ASSUME NEW e \in Elements, removeElement(e) PROVE AbsentCall(e) \/ Collection!Next
  <2>1. sorted' = sorted BY <1>3, RemoveElementKeeps
  <2>2. CASE /\ Range(array') = Range(array) /\ Called("removeElement", e, FALSE)
             /\ sorted => e \notin Range(array)
    <3>1. CASE sorted
      <4>1. Collection!RemoveAbsent(e)
        BY <2>1, <2>2, <3>1 DEF Collection!RemoveAbsent, Collection!Call, Called, Returned, Range
      <4> QED BY <4>1 DEF Collection!Next
    <3>2. CASE ~ sorted
      <4>1. Collection!NotSearched(e)
        BY <2>1, <2>2, <3>2 DEF Collection!NotSearched, Collection!Call, Called, Returned, Range
      <4> QED BY <4>1 DEF Collection!Next
    <3> QED BY <3>1, <3>2
  <2>3. CASE /\ \E d \in Range(array) : /\ Range(array') = Range(array) \ {d}
                                        /\ e \in Range(array) => d = e
                                        /\ e \notin Range(array) => Beside(d, e)
             /\ Called("removeElement", e, TRUE) /\ sorted
    <3>1. PICK d \in Range(array) : /\ Range(array') = Range(array) \ {d}
                                    /\ e \in Range(array) => d = e
      BY <2>3
    <3>2. CASE e \in Range(array)
      <4>1. Collection!RemovePresent(e)
        BY <2>1, <2>3, <3>1, <3>2 DEF Collection!RemovePresent, Collection!Call, Called, Returned, Range
      <4> QED BY <4>1 DEF Collection!Next
    <3>3. CASE e \notin Range(array) BY <1>3, <2>3, <3>3 DEF AbsentCall
    <3> QED BY <3>2, <3>3
  <2> QED BY <1>3, <2>2, <2>3, RemoveElementKeeps
<1>4. ASSUME NEW i \in DOMAIN array, NEW j \in DOMAIN array, Move(i, j) PROVE Collection!Next
  <2>1. Range(array') = Range(array) BY <1>4, MoveKeeps
  <2>2. call' = call /\ sorted' \in BOOLEAN BY <1>4 DEF Move
  <2>3. Collection!Rearrange BY <2>1, <2>2 DEF Collection!Rearrange, Range
  <2> QED BY <2>3 DEF Collection!Next
<1>5. ASSUME NEW index \in DOMAIN array, remove(index) PROVE Collection!Next
  <2>1. Range(array') = Range(array) \ {array[index]} /\ array[index] \in Elements BY <1>5, RemoveKeeps
  <2>2. PICK e \in Elements : e = array[index] BY <2>1
  <2>3. Behind(index) \subseteq Elements \cup {NoElement} BY DEF Behind
  <2>4. PICK d \in Elements \cup {NoElement} : Returned("remove", e, TRUE, d)
    BY <1>5, <2>2, <2>3 DEF remove
  <2>5. e \in Range(array) /\ sorted' = sorted BY <1>5, <2>2 DEF Range, remove
  <2>6. Collection!RemoveAt(e)
    BY <2>1, <2>2, <2>4, <2>5 DEF Collection!RemoveAt, Returned, Range
  <2> QED BY <2>6 DEF Collection!Next
<1>6. ASSUME NEW n \in Capacities \cup {capacity}, removeAll(n) PROVE Collection!Next
  <2>1. Range(array') = {} BY <1>6, RemoveAllKeeps
  <2>2. sorted' = FALSE /\ Called("removeAll", NoElement, TRUE) BY <1>6 DEF removeAll
  <2>3. Collection!RemoveAll BY <2>1, <2>2 DEF Collection!RemoveAll, Collection!Call, Called, Returned, Range
  <2> QED BY <2>3 DEF Collection!Next
<1>7. CASE UNCHANGED listVars BY <1>7 DEF listVars, Range
<1> QED BY <1>1, <1>2, <1>3, <1>4, <1>5, <1>6, <1>7 DEF Next

\* The array with its flag is the collection the header promises, in every call but the
\* removal of an absent element: it takes out and puts in exactly the element it says, and
\* answers truthfully.
THEOREM ListImplementsCollection ==
    Spec => ImplementsCollection
<1>1. Init => Collection!Init
  <2> SUFFICES ASSUME Init PROVE Collection!Init
    OBVIOUS
  <2>1. Range(array) = {} BY EmptyArray DEF Init
  <2> QED BY <2>1 DEF Init, Collection!Init
<1>2. ListInv /\ [Next]_listVars =>
          [(\E e \in Elements : AbsentCall(e)) \/ Collection!Next]_<<Range(array), sorted, call>>
  BY StepsOfCollection
<1> QED BY <1>1, <1>2, ListInvariance, PTL DEF Spec, ImplementsCollection

\* The removal of an absent element, from a list of any length: nothing goes and the answer
\* is false, or an element next to it in order goes and the answer is true.
THEOREM AbsentRemovals ==
    Spec => AbsentRemoval
<1> DEFINE Outcome(e) ==
        \/ Range(array') = Range(array) /\ ~ call'.answer
        \/ /\ call'.answer
           /\ \E d \in Range(array) : Beside(d, e) /\ Range(array') = Range(array) \ {d}
<1>1. ListInv => \A e \in Elements : AbsentCall(e) => Outcome(e)
  <2> SUFFICES ASSUME ListInv, NEW e \in Elements, AbsentCall(e) PROVE Outcome(e)
    OBVIOUS
  <2>1. removeElement(e) /\ e \notin Range(array) BY DEF AbsentCall
  <2>2. CASE Range(array') = Range(array) /\ Called("removeElement", e, FALSE)
    BY <2>2 DEF Called, Returned, Range
  <2>3. CASE /\ \E d \in Range(array) : Range(array') = Range(array) \ {d} /\ Beside(d, e)
             /\ Called("removeElement", e, TRUE)
    BY <2>3 DEF Called, Returned, Range
  <2> QED BY <2>1, <2>2, <2>3, RemoveElementKeeps
<1>2. ListInv /\ [Next]_listVars => [\A e \in Elements : AbsentCall(e) => Outcome(e)]_listVars
  BY <1>1
<1> HIDE DEF Outcome
<1>3. Spec => [][\A e \in Elements : AbsentCall(e) => Outcome(e)]_listVars
  BY <1>2, ListInvariance, PTL DEF Spec
<1> QED BY <1>3 DEF AbsentRemoval, Outcome

=============================================================================
