------------------------------ MODULE ListSort ------------------------------
(***************************************************************************)
(* The sorting and searching algorithms of ArrayList (List.h) as operators *)
(* on arrays, functions with domain 0 .. n - 1.  The range below which     *)
(* quickSort hands over to insertionSort is a parameter (10 in the code).  *)
(***************************************************************************)
EXTENDS Integers, Sequences, FiniteSets, FiniteSetsExt, Functions

OutOfRange == -2

\* move(i, j), its index check left to the callers, which pass valid ones.
move(a, i, j) == [a EXCEPT ![i] = a[j], ![j] = a[i]]

\* Order leftmost, center and rightmost, then put the center, the pivot, at
\* index2 - 1.
choosePivot(a, index1, index2) ==
    LET center == (index1 + index2) \div 2
        a1 == IF a[center] < a[index1] THEN move(a, index1, center) ELSE a
        a2 == IF a1[index1] > a1[index2] THEN move(a1, index1, index2) ELSE a1
        a3 == IF a2[center] > a2[index2] THEN move(a2, center, index2) ELSE a2
    IN  move(a3, center, index2 - 1)

\* while (array[++i] < pivot);   while (array[--j] > pivot);
ScanUp(a, i, pivot) ==
    LET stop == {k \in DOMAIN a : k > i /\ a[k] >= pivot}
    IN  IF stop = {} THEN OutOfRange ELSE Min(stop)
ScanDown(a, j, pivot) ==
    LET stop == {k \in DOMAIN a : k < j /\ a[k] <= pivot}
    IN  IF stop = {} THEN OutOfRange ELSE Max(stop)

\* Arrays of the size of a with elements of a: what the loops below work on.
Like(a) == [DOMAIN a -> Range(a)]

\* The loop of quickSort, from any array and any i and j on: the array and the final i.
PartitionLoop(a, pivot) ==
    LET loop[s \in Like(a) \X Int \X Int] ==
            LET b == s[1]
                up == ScanUp(b, s[2], pivot)
                down == ScanDown(b, s[3], pivot)
            IN  IF up = OutOfRange \/ down = OutOfRange THEN <<b, OutOfRange>>
                ELSE IF up < down THEN loop[<<move(b, up, down), up, down>>]
                ELSE <<b, up>>
    IN  loop
Partition(a, i, j, pivot) == PartitionLoop(a, pivot)[<<a, i, j>>]

\* The inner loop of insertionSort: element goes up to the first one, seen from j
\* downwards, that is not larger, and those it passes move up by one.
Insert(a, j, element) ==
    LET k == Max({0} \cup {i \in 1 .. j : a[i - 1] <= element})
    IN  [i \in DOMAIN a |-> IF i = k THEN element
                            ELSE IF k < i /\ i <= j THEN a[i - 1] ELSE a[i]]

\* The outer loop of insertionSort: the array after the turn for i.
Insertions(a, index1, index2) ==
    LET after[i \in index1 - 1 .. index2] ==
            IF i < index1 THEN a ELSE LET b == after[i - 1] IN Insert(b, i, b[i])
    IN  after

\* Mutant: the last element is left where it is.
BugInsertionSort(a, index1, index2) ==
    IF index1 < index2 THEN Insertions(a, index1, index2)[index2 - 1] ELSE a

\* insertionSort(index1, index2), called with 0 <= index1 and index2 < size.
insertionSort(a, index1, index2) ==
    IF index1 < index2 THEN Insertions(a, index1, index2)[index2] ELSE a

Size(a) == Cardinality(DOMAIN a)

\* quickSort(index1, index2) of any array with the elements of a.
SortRanges(a, cutoff) ==
    LET sort[s \in Like(a) \X (0 .. Size(a)) \X (-1 .. Size(a) - 1)] ==
            LET b == s[1]
                index1 == s[2]
                index2 == s[3]
            IN  IF index2 - index1 >= cutoff
                THEN LET chosen == choosePivot(b, index1, index2)
                         split == Partition(chosen, index1, index2 - 1, chosen[index2 - 1])
                         i == split[2]
                         placed == move(split[1], i, index2 - 1)
                     IN  sort[<<sort[<<placed, index1, i - 1>>], i + 1, index2>>]
                ELSE insertionSort(b, index1, index2)
    IN  sort

\* quickSort()
quickSort(a, cutoff) == SortRanges(a, cutoff)[<<a, 0, Size(a) - 1>>]

\* mergeSort: the next element comes from the first half.
FromFirst(array1, array2, j, k) ==
    j < Size(array1) /\ (k = Size(array2) \/ array1[j] <= array2[k])

\* The merge loop: j, the elements taken from the first half, before each turn.
Taken(array1, array2) ==
    LET j[i \in 0 .. Size(array1) + Size(array2)] ==
            IF i = 0 THEN 0
            ELSE LET k == j[i - 1]
                 IN  IF FromFirst(array1, array2, k, (i - 1) - k) THEN k + 1 ELSE k
    IN  j

Merge(array1, array2) ==
    [i \in 0 .. Size(array1) + Size(array2) - 1 |->
        LET j == Taken(array1, array2)[i]
        IN  IF FromFirst(array1, array2, j, i - j) THEN array1[j] ELSE array2[i - j]]

\* The parts of a: where they begin and how many elements they have.
Parts(a) == {r \in (0 .. Size(a)) \X (0 .. Size(a)) : r[1] + r[2] <= Size(a)}

\* mergeSort(array + first, ..., n): the n elements of a from first on, in order.
SortedParts(a) ==
    LET sort[r \in Parts(a)] ==
            LET first == r[1]
                n == r[2]
                size1 == n \div 2
            IN  IF n > 1
                THEN Merge(sort[<<first, size1>>], sort[<<first + size1, n - size1>>])
                ELSE [i \in 0 .. n - 1 |-> a[first + i]]
    IN  sort

mergeSort(a) == SortedParts(a)[<<0, Size(a)>>]

\* The recursive search between index1 and index2: a range of one element is
\* returned without a comparison.
SearchRanges(a, element) ==
    LET search[r \in Int \X Int] ==
            LET index1 == r[1]
                index2 == r[2]
                pivot == (index1 + index2) \div 2
            IN  IF index1 < index2
                THEN IF element < a[pivot] THEN search[<<index1, pivot - 1>>]
                     ELSE IF element > a[pivot] THEN search[<<pivot + 1, index2>>]
                     ELSE pivot
                ELSE IF index1 = index2 THEN index1 ELSE -1
    IN  search

\* binarySearch(element): only a list marked sorted is searched.
binarySearch(a, element, sorted) ==
    IF sorted THEN SearchRanges(a, element)[<<0, Size(a) - 1>>] ELSE -1

-----------------------------------------------------------------------------
(* Reference definitions *)

Ascending(a) == \A i, j \in DOMAIN a : i < j => a[i] <= a[j]
Count(a, v) == Cardinality({i \in DOMAIN a : a[i] = v})
Permutes(a, b) == Range(a) = Range(b) /\ \A v \in Range(a) : Count(a, v) = Count(b, v)

=============================================================================
