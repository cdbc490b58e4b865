-------------------------------- MODULE Buddy --------------------------------
(***************************************************************************)
(* The buddy allocator behind the kernel heap (Buddy.cpp): the operations   *)
(* of BuddyAlloc.h on the tree of BuddyTree.  Sizes and addresses are in    *)
(* bytes from the start of the arena; a slot is BUDDY_ALLOC_ALIGN bytes.     *)
(***************************************************************************)
EXTENDS BuddyTree

CONSTANTS
    BUDDY_ALLOC_ALIGN,
    MaxSlots,    \* slots of the largest arena
    InitSlots,   \* slots of the arenas the runs start from
    SizeBits,    \* width of size_t
    Downsizing,  \* how the caller makes the arena smaller: "careful", "fitting" or "any"
    Null

ASSUME AlignAssumption == \E k \in 1 .. 6 : BUDDY_ALLOC_ALIGN = pow2[k]
ASSUME DownsizingAssumption == Downsizing \in {"careful", "fitting", "any"}
ASSUME SlotsAssumption == InitSlots \subseteq 1 .. MaxSlots /\ MaxSlots <= pow2[MaxOrder - 1]
\* Sizes stay below the row of highest_bit_position that is left out.
ASSUME WidthAssumption == SizeBits \in Nat /\ MaxSlots \in Nat /\ MaxSlots * BUDDY_ALLOC_ALIGN <= pow2[30]

VARIABLES
    memory_size,  \* bytes of the arena
    left_bias,    \* BUDDY_LEFT_BIAS of buddy_flags
    tree,         \* [order, bits]
    blocks,       \* blocks handed out and not freed, [addr, size]
    answer        \* the address the last call returned, or Null

buddyVars == <<memory_size, left_bias, tree, blocks, answer>>

-----------------------------------------------------------------------------
(* Geometry *)

tree_order_for_memory(m) == highest_bit_position(ceiling_power_of_two(m \div BUDDY_ALLOC_ALIGN))
effective_memory_size(m) == ceiling_power_of_two(m)

\* buddy->virtual_slots: the slots between memory_size and the next power of two.
VirtualSlots(m) == (effective_memory_size(m) - m) \div BUDDY_ALLOC_ALIGN

size_for_depth(m, d) == effective_memory_size(m) \div pow2[(IF d = 0 THEN 1 ELSE d) - 1]
address_for_position(pos) == size_for_depth(memory_size, Depth[pos]) * tree_index(pos)
deepest_position_for_offset(offset) == leftmost_child(tree.order) + offset \div BUDDY_ALLOC_ALIGN

\* depth_for_size: the while loop, from depth d and effective size eff on.
DepthLoop(requested) ==
    LET loop[s \in Nat \X Nat] ==
            IF (s[1] \div requested) \div 2 # 0 THEN loop[<<s[1] \div 2, s[2] + 1>>] ELSE s[2]
    IN  loop

\* Mutant: the division is rounded up, a block may be too small.
BugDepthForSize(requested) ==
    LET n == Max({requested, BUDDY_ALLOC_ALIGN})
    IN  DepthLoop(n)[<<effective_memory_size(memory_size) + n - 1, 1>>]

depth_for_size(requested) ==
    DepthLoop(Max({requested, BUDDY_ALLOC_ALIGN}))[<<effective_memory_size(memory_size), 1>>]

-----------------------------------------------------------------------------
(* Virtual slots *)

\* A position and bytes to go below it, in whole slots.
Remaining(m) ==
    {s \in Positions(tree_order_for_memory(m)) \X Nat :
        s[2] <= size_for_depth(m, Depth[s[1]]) /\ s[2] % BUDDY_ALLOC_ALIGN = 0}

\* The positions toggle_virtual_slots marks or releases, in order: from the right,
\* descending from pos with delta bytes to go.
VirtualFrom(m) ==
    LET from[s \in Remaining(m)] ==
            LET pos == s[1]
                delta == s[2]
                here == size_for_depth(m, Depth[pos])
            IN  IF delta = 0 THEN << >>
                ELSE IF delta = here THEN <<pos>>
                ELSE IF delta <= here \div 2 THEN from[<<right_child(pos), delta>>]
                ELSE <<right_child(pos)>> \o from[<<left_child(pos), delta - here \div 2>>]
    IN  from

VirtualPositions(m) ==
    IF effective_memory_size(m) = m THEN << >>
    ELSE VirtualFrom(m)[<<right_child(1), effective_memory_size(m) - m>>]

\* The tree after the positions were marked or released, one after the other.
Toggled(t, positions, state) ==
    LET toggled[i \in 0 .. Len(positions)] ==
            IF i = 0 THEN t
            ELSE IF state THEN tree_mark(toggled[i - 1], positions[i])
            ELSE tree_release(toggled[i - 1], positions[i])
    IN  toggled[Len(positions)]

toggle_virtual_slots(t, m, state) == Toggled(t, VirtualPositions(m), state)

\* Mutant: the size is rounded up to whole slots.
BugTrimDown(m) == m + (BUDDY_ALLOC_ALIGN - (m % BUDDY_ALLOC_ALIGN))

\* An arena is trimmed down to whole slots.
TrimDown(m) == m - (m % BUDDY_ALLOC_ALIGN)

\* buddy_init
Init ==
    /\ \E m \in {n * BUDDY_ALLOC_ALIGN + 1 : n \in InitSlots} :
         /\ memory_size = TrimDown(m)
         /\ tree = toggle_virtual_slots(tree_init(tree_order_for_memory(TrimDown(m))), TrimDown(m), TRUE)
    /\ left_bias = FALSE
    /\ blocks = {}
    /\ answer = Null

-----------------------------------------------------------------------------
(* Allocation *)

Handed(pos) ==
    [addr |-> address_for_position(pos), size |-> size_for_depth(memory_size, Depth[pos])]

\* Where malloc and realloc put a request, in tree t.
Place(t, requested) ==
    IF requested > memory_size THEN INVALID_POS
    ELSE tree_find_free(t, depth_for_size(requested), left_bias)

Refused == answer' = Null /\ UNCHANGED <<memory_size, left_bias, tree, blocks>>

malloc(requested) ==
    LET pos == Place(tree, IF requested = 0 THEN 1 ELSE requested)
    IN  IF pos = INVALID_POS THEN Refused
        ELSE /\ tree' = tree_mark(tree, pos)
             /\ blocks' = blocks \cup {Handed(pos)}
             /\ answer' = address_for_position(pos)
             /\ UNCHANGED <<memory_size, left_bias>>

\* members_count * member_size in a size_t, Null when the division shows overflow.
Product(members_count, member_size) ==
    LET total == (members_count * member_size) % pow2[SizeBits]
    IN  IF total \div members_count # member_size THEN Null ELSE total

\* buddy_calloc; the zeroing of the block is left out.
calloc(members_count, member_size) ==
    LET zero == members_count = 0 \/ member_size = 0
        total == IF zero THEN 1 ELSE Product(members_count, member_size)
    IN  IF total = Null THEN Refused ELSE malloc(total)

\* position_for_address: up from the slot to the first position in use.
UsedAbove[pos \in Nat] ==
    IF tree_valid(tree, pos) /\ tree_status(tree, pos) = 0 THEN UsedAbove[parent(pos)] ELSE pos
position_for_address(addr) == UsedAbove[deepest_position_for_offset(addr)]

\* buddy_free of a pointer that was handed out and not freed.
free(b) ==
    /\ tree' = tree_release(tree, position_for_address(b.addr))
    /\ blocks' = blocks \ {b}
    /\ answer' = Null
    /\ UNCHANGED <<memory_size, left_bias>>

\* buddy_safe_free: only when the size belongs to the size class of the block.
safe_free(b, requested) ==
    LET span == size_for_depth(memory_size, Depth[position_for_address(b.addr)])
        n == Max({requested, BUDDY_ALLOC_ALIGN})
    IN  IF n > span \/ n <= span \div 2 THEN Refused ELSE free(b)

\* buddy_realloc of such a pointer: release, search, and mark the new position or,
\* when there is none, the old one again.
realloc(b, requested) ==
    LET origin == position_for_address(b.addr)
        released == tree_release(tree, origin)
        pos == Place(released, requested)
    IN  IF requested = 0 THEN free(b)
        ELSE IF requested > memory_size THEN Refused
        ELSE /\ IF pos = INVALID_POS
                THEN /\ tree' = tree_mark(released, origin)
                     /\ answer' = Null
                     /\ UNCHANGED blocks
                ELSE /\ tree' = tree_mark(released, pos)
                     /\ blocks' = (blocks \ {b}) \cup {Handed(pos)}
                     /\ answer' = address_for_position(pos)
             /\ UNCHANGED <<memory_size, left_bias>>

\* Mutant: the larger of the two blocks is copied.
BugCopyLength(origin, pos) == size_for_depth(memory_size, Min({Depth[origin], Depth[pos]}))

\* Bytes buddy_realloc copies from origin to pos.
CopyLength(origin, pos) == size_for_depth(memory_size, Max({Depth[origin], Depth[pos]}))

reallocarray(b, members_count, member_size) ==
    IF members_count = 0 \/ member_size = 0 THEN free(b)
    ELSE LET total == Product(members_count, member_size)
         IN  IF total = Null THEN Refused ELSE realloc(b, total)

set_left_bias ==
    left_bias' = TRUE /\ answer' = Null /\ UNCHANGED <<memory_size, tree, blocks>>
set_optimal_fit ==
    left_bias' = FALSE /\ answer' = Null /\ UNCHANGED <<memory_size, tree, blocks>>

-----------------------------------------------------------------------------
(* Ranges *)

Bytes(b) == b.addr .. b.addr + b.size - 1
Slot(addr) == [addr |-> addr, size |-> BUDDY_ALLOC_ALIGN]

\* The slots toggle_range_reservation visits: one at a time, until requested is used up.
RangeSlots(addr, requested) ==
    {addr + i * BUDDY_ALLOC_ALIGN : i \in 0 .. (requested - 1) \div BUDDY_ALLOC_ALIGN}

toggle_range_reservation(addr, requested, state) ==
    LET first == deepest_position_for_offset(addr)
        last == first + (requested - 1) \div BUDDY_ALLOC_ALIGN
    IN  Toggled(tree, [i \in 1 .. last - first + 1 |-> first + i - 1], state)

\* reserve_range of slots nobody has, and unsafe_release_range of reserved ones: "can
\* mess up other allocations" otherwise.
reserve_range(addr, requested) ==
    /\ addr + requested <= memory_size
    /\ \A a \in RangeSlots(addr, requested), b \in blocks : Bytes(Slot(a)) \cap Bytes(b) = {}
    /\ tree' = toggle_range_reservation(addr, requested, TRUE)
    /\ blocks' = blocks \cup {Slot(a) : a \in RangeSlots(addr, requested)}
    /\ answer' = Null
    /\ UNCHANGED <<memory_size, left_bias>>

unsafe_release_range(addr, requested) ==
    /\ {Slot(a) : a \in RangeSlots(addr, requested)} \subseteq blocks
    /\ tree' = toggle_range_reservation(addr, requested, FALSE)
    /\ blocks' = blocks \ {Slot(a) : a \in RangeSlots(addr, requested)}
    /\ answer' = Null
    /\ UNCHANGED <<memory_size, left_bias>>

-----------------------------------------------------------------------------
(* Resizing *)

\* buddy_is_free: from pos on, the largest position inside the queried range, then
\* the one to its right.
Climb(range) ==
    LET climb[pos \in Nat] ==
            IF interval_contains(range, tree_interval(tree, parent(pos)))
            THEN climb[parent(pos)] ELSE pos
    IN  climb

FreeFrom(range) ==
    LET free_from[pos \in Nat] ==
            IF ~(tree_valid(tree, pos) /\ pos < range.to) THEN TRUE
            ELSE LET top == Climb(range)[pos]
                 IN  /\ tree_is_free(tree, top)
                     /\ free_from[right_adjacent(tree_interval(tree, top).to)]
    IN  free_from

is_free(from) ==
    LET tail == Max({VirtualSlots(memory_size), 1}) * BUDDY_ALLOC_ALIGN
        to == effective_memory_size(memory_size) - tail
        range == [from |-> deepest_position_for_offset(from), to |-> deepest_position_for_offset(to)]
    IN  FreeFrom(range)[range.from]

can_shrink == is_free(memory_size \div 2)
is_empty == is_free(0)

\* The tree after buddy_resize_standard to new bytes.
Resized(new) ==
    LET released == toggle_virtual_slots(tree, memory_size, FALSE)
    IN  toggle_virtual_slots(tree_resize(released, tree_order_for_memory(new)), new, TRUE)

\* buddy_resize of an arena that is not embedded.
resize(new_memory_size) ==
    LET new == TrimDown(new_memory_size)
    IN  IF new_memory_size = memory_size \/ ~is_free(new) THEN Refused
        ELSE /\ tree' = Resized(new)
             /\ memory_size' = new
             /\ answer' = Null
             /\ UNCHANGED <<left_bias, blocks>>

\* The resizes a caller asks for.  Careful ones go up, or down inside the same order
\* when there are virtual slots; fitting ones leave every block inside the arena.
Asked(new) ==
    \/ Downsizing = "any"
    \/ new >= memory_size
    \/ VirtualSlots(memory_size) # 0 /\ tree_order_for_memory(new) = tree.order
    \/ Downsizing = "fitting" /\ \A b \in blocks : b.addr + b.size <= new

-----------------------------------------------------------------------------
(* Walks *)

\* buddy_arena_free_size: the walk adds up the topmost free positions and skips what
\* is below them and below fully used ones.
FreeWalk[s \in Nat \X Nat] ==
    LET pos == s[1]
        result == s[2]
        status == tree_status(tree, pos)
        full == status = tree.order - Depth[pos] + 1
    IN  IF pos = INVALID_POS THEN result
        ELSE FreeWalk[<<tree_walk(tree, pos, full \/ status = 0),
                        IF status = 0 THEN result + size_for_depth(memory_size, Depth[pos]) ELSE result>>]
arena_free_size == FreeWalk[<<1, 0>>]

\* buddy_walk with a function that returns NULL: the blocks it is called with.  It
\* stops at the first one that reaches beyond the arena.
Visits == Nat \X Seq([addr : Nat, size : Nat])
BlockWalk[s \in Visits] ==
    LET pos == s[1]
        seen == s[2]
        status == tree_status(tree, pos)
        full == status = tree.order - Depth[pos] + 1
        split == tree_valid(tree, left_child(pos)) /\ tree_status(tree, left_child(pos)) # 0
        b == Handed(pos)
    IN  IF pos = INVALID_POS THEN seen
        ELSE IF status = 0 THEN BlockWalk[<<tree_walk(tree, pos, TRUE), seen>>]
        ELSE IF ~full \/ split THEN BlockWalk[<<tree_walk(tree, pos, FALSE), seen>>]
        ELSE IF b.addr + b.size > memory_size THEN seen
        ELSE BlockWalk[<<tree_walk(tree, pos, FALSE), Append(seen, b)>>]
walk == BlockWalk[<<1, << >> >>]

-----------------------------------------------------------------------------

\* Sizes and counts a caller asks for: up to one byte more than there is, and
\* products that do not fit a size_t.
Requests == 0 .. memory_size + 1
Counts == {0, 1, 3, pow2[SizeBits] - 1}

Calls ==
    \/ \E requested \in Requests : malloc(requested)
    \/ \E m, n \in Counts : calloc(m, n)
    \/ \E b \in blocks : free(b)
    \/ \E b \in blocks, requested \in Requests : safe_free(b, requested) \/ realloc(b, requested)
    \/ \E b \in blocks, m, n \in Counts : reallocarray(b, m, n)
    \/ set_left_bias
    \/ set_optimal_fit
    \/ \E n \in 1 .. MaxSlots, requested \in Requests \ {0} :
         \/ reserve_range((n - 1) * BUDDY_ALLOC_ALIGN, requested)
         \/ unsafe_release_range((n - 1) * BUDDY_ALLOC_ALIGN, requested)

Resizes ==
    \E n \in 1 .. MaxSlots : Asked(n * BUDDY_ALLOC_ALIGN) /\ resize(n * BUDDY_ALLOC_ALIGN)

Next == Calls \/ Resizes

Spec == Init /\ [][Next]_buddyVars

\* An arena that is never resized, as the kernel's: KernelHeapAllocator calls init,
\* malloc and free only.
FixedSpec == Init /\ [][Calls]_buddyVars

-----------------------------------------------------------------------------
(* Properties *)

BuddyTypeOK ==
    /\ memory_size \in {n * BUDDY_ALLOC_ALIGN : n \in 1 .. MaxSlots}
    /\ left_bias \in BOOLEAN
    /\ tree.order = tree_order_for_memory(memory_size)
    /\ tree.bits \subseteq 0 .. SizeForOrder[tree.order][0] - 1
    /\ blocks \subseteq [addr : 0 .. memory_size - 1, size : 1 .. memory_size]
    /\ answer \in 0 .. memory_size - 1 \cup {Null}

\* Bytes in use: blocks handed out, and the virtual slots beyond the arena.
Used == (UNION {Bytes(b) : b \in blocks}) \cup memory_size .. effective_memory_size(memory_size) - 1
BytesOf(pos) == Bytes(Handed(pos))
InsideBlock(pos) == \E b \in blocks : BytesOf(pos) \subseteq Bytes(b) /\ BytesOf(pos) # Bytes(b)
Virtual(pos) == address_for_position(pos) >= memory_size

\* Levels from pos down to its largest free position (its height if there is none).
LevelsToFree(pos) ==
    LET free_below == {q \in Positions(tree.order) : /\ BytesOf(q) \subseteq BytesOf(pos)
                                                    /\ BytesOf(q) \cap Used = {}}
    IN  IF free_below = {} THEN local_offset(tree, pos)
        ELSE Min({Depth[q] : q \in free_below}) - Depth[pos]

\* Every status in the tree is exact, although update_parent_chain stops at the
\* first ancestor that does not change, a release clears one bit of a status, and
\* growing moves every row bit by bit: it tells how far down the largest free block
\* is.  Positions inside a block read 0.
StatusExact ==
    \A pos \in Positions(tree.order) :
        /\ ~InsideBlock(pos) /\ ~Virtual(pos) => tree_status(tree, pos) = LevelsToFree(pos)
        /\ InsideBlock(pos) => tree_status(tree, pos) = 0
        /\ ~check_invariant(tree, pos)

\* What is_empty and can_shrink answer, in arenas of n slots.  The header's "completely
\* empty" and "can be shrunk in half" are exactly what they answer when n is even, but:
\* can_shrink of two slots.  buddy_is_free tests the slots before `to' and those that share
\* a tested position with it.  An odd n above 1 has virtual slots, and the first of them,
\* which is marked, shares one with the last slot: the answer is always no, of an empty
\* arena too.  When the query starts at `to' itself nothing is tested, and the answer is
\* yes even while that slot is used: is_empty of one slot, can_shrink of one and two.
FreeQueriesExact ==
    LET n == memory_size \div BUDDY_ALLOC_ALIGN
    IN  /\ is_empty <=> n = 1 \/ (n % 2 = 0 /\ blocks = {})
        /\ can_shrink <=> \/ n <= 2
                          \/ n % 2 = 0 /\ \A b \in blocks : b.addr + b.size <= memory_size \div 2

\* What the queries answer after any calls.  The walk reports exactly the blocks handed
\* out, in address order and none of the virtual slots, the free size is what they leave
\* of the arena, and is_empty and can_shrink answer as above, in odd and in very small
\* arenas not what their names say.
QueriesExact ==
    /\ ToSet(walk) = blocks
    /\ \A i, j \in DOMAIN walk : i < j => walk[i].addr < walk[j].addr
    /\ arena_free_size = memory_size - FoldSet(LAMBDA b, sum : b.size + sum, 0, blocks)
    /\ FreeQueriesExact

\* No false refusal: a request is refused only when no free block of its size class
\* is left, however the arena is fragmented.
RefusedOnlyWhenFull ==
    \A requested \in 1 .. memory_size :
        Place(tree, requested) = INVALID_POS =>
            \A pos \in Positions(tree.order) :
                Depth[pos] = depth_for_size(requested) => BytesOf(pos) \cap Used # {}

\* A block is at least as large as the request, and less than twice as large when the
\* request is a slot or more; a product that does not fit a size_t is never allocated
\* short.
SizeClassFits ==
    /\ \A requested \in 1 .. memory_size :
         LET n == size_for_depth(memory_size, depth_for_size(requested))
         IN  n >= requested /\ (requested >= BUDDY_ALLOC_ALIGN => n < 2 * requested)
    /\ \A m, n \in Counts \ {0} : Product(m, n) \in {Null, m * n}

\* realloc keeps the contents: what it copies lies inside the old and the new block,
\* and its memmove, which always copies upwards, never reads a byte it has written.
ReallocKeepsContents ==
    \A b \in blocks, requested \in 1 .. memory_size :
        LET origin == position_for_address(b.addr)
            pos == Place(tree_release(tree, origin), requested)
            new == address_for_position(pos)
            n == CopyLength(origin, pos)
        IN  pos # INVALID_POS /\ pos # origin =>
              /\ n <= b.size /\ n <= size_for_depth(memory_size, Depth[pos])
              /\ new <= b.addr \/ new >= b.addr + n

\* The tree implements a set of disjoint blocks inside the arena: no two
\* allocations ever overlap, free, safe_free and realloc find the block of the
\* pointer they are given, resizing keeps every block, and none reaches into the
\* virtual slots.
Heap == INSTANCE AbstractHeap WITH memory <- memory_size
ImplementsHeap == Heap!Spec

\* Every block stays marked, and so is not handed out again, when the arena is made
\* smaller: "When downsizing the left subtree is picked", and buddy_is_free refuses
\* while the part that is cut off is in use.
BlocksKept == blocks \subseteq ToSet(walk)

=============================================================================
