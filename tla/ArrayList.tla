------------------------------ MODULE ArrayList ------------------------------
(***************************************************************************)
(* ArrayList<T> (List.h) as the kernel uses it for the running queues, the *)
(* sleeping queue and the circle list: an array that doubles when it is    *)
(* full, a flag that says whether it is sorted, removal by binary search.  *)
(* Elements are pointers, here numbers; an element is added at most once.  *)
(***************************************************************************)
EXTENDS ListSort

CONSTANTS
    Elements,       \* a set of numbers: the pointers that are queued
    InitCapacity,   \* capacity of a new list (20)
    MinBlock,       \* words in the smallest block of the allocator (64 bytes: 8)
    Capacities,     \* capacities removeAll is called with
    Cutoff          \* between quickSort and insertionSort (10)

ASSUME ListAssumption == Elements \subseteq Nat \ {0} /\ IsFiniteSet(Elements)
ASSUME CapacityAssumption ==
    /\ InitCapacity \in Nat \ {0} /\ MinBlock \in Nat \ {0}
    /\ Capacities \subseteq Nat \ {0}
    /\ Cutoff \in Nat /\ Cutoff >= 2   \* quickSort partitions three elements at least

VARIABLES
    array,      \* the elements in use, array[0 .. size - 1]
    capacity,
    sorted,
    touched,    \* the highest index the last call read or wrote
    call        \* the last call, its answer, and the element a returned pointer leads to

listVars == <<array, capacity, sorted, touched, call>>

NoElement == 0
size == Size(array)

\* Mutant: an allocator that does not round up.
BugBlockLen(n) == n

\* Words of the block the allocator returns for new T[n]: a power of two.
BlockLen(n) == Min({MinBlock * 2^k : k \in {j \in 0 .. n : MinBlock * 2^j >= n}})

ListTypeOK ==
    /\ array \in [0 .. size - 1 -> Elements]
    /\ capacity \in Nat \ {0}
    /\ sorted \in BOOLEAN
    /\ touched \in -1 .. 2 * capacity
    /\ call \in [op : {"new", "add", "removeElement", "remove", "removeAll"},
                 element : Elements \cup {NoElement}, answer : BOOLEAN,
                 returned : Elements \cup {NoElement}]

\* The constructor leaves sorted uninitialised.
Init ==
    /\ array = [i \in {} |-> NoElement]
    /\ capacity = InitCapacity
    /\ sorted \in BOOLEAN
    /\ touched = -1
    /\ call = [op |-> "new", element |-> NoElement, answer |-> TRUE, returned |-> NoElement]

Returned(op, e, answer, returned) ==
    call' = [op |-> op, element |-> e, answer |-> answer, returned |-> returned]
Called(op, e, answer) == Returned(op, e, answer, NoElement)

\* The capacity after the test at the head of add, reallocate included.
Grown == IF size - 1 = capacity THEN 2 * capacity ELSE capacity

\* Mutant: add forgets that the list is no longer sorted.
BugAdd(e) ==
    /\ e \notin Range(array)
    /\ capacity' = Grown
    /\ array' = [i \in 0 .. size |-> IF i = size THEN e ELSE array[i]]
    /\ touched' = size
    /\ Called("add", e, TRUE)
    /\ UNCHANGED sorted

add(e) ==
    /\ e \notin Range(array)
    /\ capacity' = Grown
    /\ array' = [i \in 0 .. size |-> IF i = size THEN e ELSE array[i]]
    /\ touched' = size
    /\ sorted' = FALSE
    /\ Called("add", e, TRUE)

\* Mutant: the wrong neighbour of the element is overwritten.
BugWithout(index) == [i \in 0 .. size - 2 |-> IF i + 1 < index THEN array[i] ELSE array[i + 1]]

\* Mutant: size is not decremented.
BugWithoutShrink(index) ==
    [i \in 0 .. size - 1 |-> IF i < index THEN array[i]
                             ELSE IF i = size - 1 THEN NoElement ELSE array[i + 1]]

\* The array once remove has moved everything above index down.
Without(index) == [i \in 0 .. size - 2 |-> IF i < index THEN array[i] ELSE array[i + 1]]

\* Where the pointer remove returns leads: the place is the removed element's, and what
\* is there now came from above: from the word beyond the list, an older element or
\* never written, when the removed element was the last.
Behind(index) ==
    IF index < size - 1 THEN {array[index + 1]} ELSE Elements \cup {NoElement}

\* remove(index); the last element it moves down is array[size].
remove(index) ==
    /\ index \in 0 .. size - 1
    /\ array' = Without(index)
    /\ touched' = size
    /\ \E d \in Behind(index) : Returned("remove", array[index], TRUE, d)
    /\ UNCHANGED <<capacity, sorted>>

\* removeElement(e): a list that is not marked sorted is not searched, and the search
\* for an absent element may end at another one.
removeElement(e) ==
    LET index == binarySearch(array, e, sorted)
        found == index >= 0 /\ index < size
    IN  /\ array' = IF found THEN Without(index) ELSE array
        /\ touched' = IF found THEN size ELSE -1
        /\ Called("removeElement", e, found)
        /\ UNCHANGED <<capacity, sorted>>

\* removeAll(), and removeAll(newCapacity): a new array.
removeAll(newCapacity) ==
    /\ array' = [i \in {} |-> NoElement]
    /\ capacity' = newCapacity
    /\ sorted' = FALSE
    /\ touched' = -1
    /\ Called("removeAll", NoElement, TRUE)

\* move(i, j)
Move(i, j) ==
    /\ array' = move(array, i, j)
    /\ sorted' = FALSE
    /\ touched' = size - 1
    /\ UNCHANGED <<capacity, call>>

\* quickSort(), insertionSort() or mergeSort(); the last one needs two elements, as it
\* replaces the array of a shorter list by an array of one.
Sort ==
    /\ array' \in {quickSort(array, Cutoff), insertionSort(array, 0, size - 1)}
                  \cup (IF size > 1 THEN {mergeSort(array)} ELSE {})
    /\ sorted' = TRUE
    /\ touched' = size - 1
    /\ UNCHANGED <<capacity, call>>

Next ==
    \/ Sort
    \/ \E e \in Elements : add(e) \/ removeElement(e)
    \/ \E i, j \in DOMAIN array : Move(i, j)
    \/ \E index \in DOMAIN array : remove(index)
    \/ \E n \in Capacities \cup {capacity} : removeAll(n)

Spec == Init /\ [][Next]_listVars

-----------------------------------------------------------------------------
(* Properties *)

\* A list marked sorted is sorted: the flag survives removals, is dropped by add,
\* and removeElement, which trusts it, searches a sorted array.
SortedIsSorted == sorted => Ascending(array)

\* add lets the list grow one element beyond its capacity before it reallocates,
\* and remove reads one element further: both stay inside the block the buddy
\* allocator rounds the array up to.
AccessInBlock == touched < BlockLen(capacity)

\* removeElement of an element that is not there, on a list that is searched.
AbsentCall(e) == sorted /\ e \notin Range(array) /\ removeElement(e)

\* Except in those calls, the list implements the collection its header promises and the
\* wake-up loops and the SLEEP handler rely on.
Collection == INSTANCE TaskSet WITH elems <- Range(array), searchable <- sorted, call <- call
ImplementsCollection ==
    /\ Collection!Init
    /\ [][(\E e \in Elements : AbsentCall(e)) \/ Collection!Next]_<<Range(array), sorted, call>>

\* No element of the list lies between d and e.
Beside(d, e) == \A x \in Range(array) : ~ (d < x /\ x < e) /\ ~ (e < x /\ x < d)

\* In those calls the search does not compare the last element it is left with: the list
\* either stays, and the answer is false, as the header says, or it loses another element,
\* one that is next to the absent one in order, and the answer is true.
AbsentRemoval ==
    [][\A e \in Elements : AbsentCall(e) =>
           \/ Range(array') = Range(array) /\ ~ call'.answer
           \/ /\ call'.answer
              /\ \E d \in Range(array) : Beside(d, e) /\ Range(array') = Range(array) \ {d}]_listVars

=============================================================================
