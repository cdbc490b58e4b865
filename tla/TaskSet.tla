------------------------------- MODULE TaskSet -------------------------------
(* The collection List.h promises: elements are added, and removed by value or *)
(* by position, with an answer.  Removal by value works only while the          *)
(* collection is searchable.                                                    *)
EXTENDS Naturals

CONSTANTS Elements, NoElement

VARIABLES
    elems,        \* the elements in the collection
    searchable,   \* it has been sorted
    call          \* the last call: operation, element, answer and what is returned

Call(op, e, answer) ==
    call' = [op |-> op, element |-> e, answer |-> answer, returned |-> NoElement]

Init ==
    /\ elems = {}
    /\ searchable \in BOOLEAN
    /\ call = [op |-> "new", element |-> NoElement, answer |-> TRUE, returned |-> NoElement]

Add(e) ==
    /\ elems' = elems \cup {e}
    /\ searchable' = FALSE
    /\ Call("add", e, TRUE)

\* A present element goes and the answer is true.
RemovePresent(e) ==
    /\ searchable /\ e \in elems
    /\ elems' = elems \ {e}
    /\ Call("removeElement", e, TRUE)
    /\ UNCHANGED searchable

\* An absent one leaves the collection as it is, and the answer is false.
RemoveAbsent(e) ==
    /\ searchable /\ e \notin elems
    /\ Call("removeElement", e, FALSE)
    /\ UNCHANGED <<elems, searchable>>

NotSearched(e) ==
    /\ ~ searchable
    /\ Call("removeElement", e, FALSE)
    /\ UNCHANGED <<elems, searchable>>

\* The element the caller read with get() at the position it then removes.  What the
\* returned pointer leads to is left open: no caller looks.
RemoveAt(e) ==
    /\ e \in elems
    /\ elems' = elems \ {e}
    /\ \E r \in Elements \cup {NoElement} :
           call' = [op |-> "remove", element |-> e, answer |-> TRUE, returned |-> r]
    /\ UNCHANGED searchable

RemoveAll ==
    /\ elems' = {}
    /\ searchable' = FALSE
    /\ Call("removeAll", NoElement, TRUE)

\* Sorting, or exchanging two elements.
Rearrange ==
    /\ searchable' \in BOOLEAN
    /\ UNCHANGED <<elems, call>>

Next ==
    \/ RemoveAll \/ Rearrange
    \/ \E e \in Elements : \/ Add(e) \/ RemovePresent(e) \/ RemoveAbsent(e) \/ NotSearched(e)
                            \/ RemoveAt(e)

Spec == Init /\ [][Next]_<<elems, searchable, call>>

=============================================================================
