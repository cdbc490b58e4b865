----------------------------- MODULE AbstractHeap -----------------------------
(* What the kernel expects of its allocator: a set of disjoint blocks inside   *)
(* the arena.  A request is answered with a new block, or refused; free gives  *)
(* exactly one block back; realloc moves one block, and keeps it when it is    *)
(* refused; ranges are reserved and released as blocks of their own; the arena *)
(* is only ever resized to a size that holds every block.                      *)
EXTENDS Integers

CONSTANTS Null

VARIABLES
    memory,   \* size of the arena
    blocks,   \* blocks handed out, [addr, size]
    answer    \* address returned by the last call, or Null

Disjoint(b, d) == b.addr + b.size <= d.addr \/ d.addr + d.size <= b.addr
FreeSpot(b, others) ==
    /\ b.addr >= 0 /\ b.addr + b.size <= memory
    /\ \A d \in others : Disjoint(b, d)

Block(a, n) == [addr |-> a, size |-> n]
Between(b, a, n) == a <= b.addr /\ b.addr + b.size <= a + n

Init == memory \in Nat /\ blocks = {} /\ answer = Null

Refuse == answer' = Null /\ UNCHANGED <<memory, blocks>>

Allocate ==
    \E a \in 0 .. memory, n \in 1 .. memory :
        /\ FreeSpot(Block(a, n), blocks)
        /\ blocks' = blocks \cup {Block(a, n)}
        /\ answer' = a
        /\ UNCHANGED memory

Free == \E b \in blocks : blocks' = blocks \ {b} /\ answer' = Null /\ UNCHANGED memory

Move ==
    \E b \in blocks, a \in 0 .. memory, n \in 1 .. memory :
        /\ FreeSpot(Block(a, n), blocks \ {b})
        /\ blocks' = (blocks \ {b}) \cup {Block(a, n)}
        /\ answer' = a
        /\ UNCHANGED memory

\* New blocks in one range, all of it theirs afterwards.
Reserve ==
    \E a \in 0 .. memory, n \in 1 .. memory :
        LET added == {b \in blocks' : b \notin blocks}
        IN  /\ blocks \subseteq blocks'
            /\ \A b \in added : FreeSpot(b, blocks' \ {b}) /\ Between(b, a, n)
            /\ \A x \in a .. a + n - 1 : \E b \in added : b.addr <= x /\ x < b.addr + b.size
            /\ answer' = Null
            /\ UNCHANGED memory

\* All blocks of one range.
Release ==
    \E a \in 0 .. memory, n \in 1 .. memory :
        /\ blocks' = {b \in blocks : ~Between(b, a, n)}
        /\ answer' = Null
        /\ UNCHANGED memory

Resize ==
    /\ memory' \in Nat
    /\ \A b \in blocks : b.addr + b.size <= memory'
    /\ answer' = Null
    /\ UNCHANGED blocks

Next == Refuse \/ Allocate \/ Free \/ Move \/ Reserve \/ Release \/ Resize

heapVars == <<memory, blocks, answer>>
Spec == Init /\ [][Next]_heapVars

-----------------------------------------------------------------------------

\* Every block lies in the arena and no two overlap: what is in use of one block is
\* never part of another.
Separate ==
    /\ \A b \in blocks : b.addr >= 0 /\ b.addr + b.size <= memory
    /\ \A b, d \in blocks : b # d => Disjoint(b, d)

\* The address a call returns is that of a block in use.
HandedOut == answer # Null => \E b \in blocks : b.addr = answer

=============================================================================
