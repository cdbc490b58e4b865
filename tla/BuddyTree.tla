------------------------------ MODULE BuddyTree ------------------------------
(***************************************************************************)
(* The tree of the buddy allocator (Buddy.cpp), down to its bits.  Every    *)
(* position has a status: 0 when it is free, its height when nothing below *)
(* it is left, otherwise the number of levels down to its largest free      *)
(* position.  A status is stored in unary, in as many bits as the position  *)
(* is high, row after row from the root; a tree is its order and the set of *)
(* its bits that are 1.                                                      *)
(***************************************************************************)
EXTENDS Integers, Sequences, FiniteSets, FiniteSetsExt, SequencesExt

CONSTANT MaxOrder   \* largest order of a tree

\* Positions stay below the row of highest_bit_position that is left out.
ASSUME OrderAssumption == MaxOrder \in Nat \ {0} /\ MaxOrder <= 32

-----------------------------------------------------------------------------
(* Bit arithmetic *)

\* 1ul << k
pow2[k \in Nat] == IF k = 0 THEN 1 ELSE 2 * pow2[k - 1]

\* The rows of the table of highest_bit_position: all_set and count.  The row for
\* 2^32 - 1 is left out, values here stay below it.
BitRows == << <<65535, 16>>, <<255, 8>>, <<15, 4>>, <<7, 2>>, <<3, 1>>, <<1, 1>> >>

\* A turn of its loop, on what is left of the value and the result.
BitRow(acc, all_set, count) ==
    IF acc[1] >= all_set THEN <<acc[1] \div pow2[count], acc[2] + count>> ELSE acc

highest_bit_position(value) ==
    LET row[i \in 0 .. 6] ==
            IF i = 0 THEN <<value, 0>> ELSE BitRow(row[i - 1], BitRows[i][1], BitRows[i][2])
    IN  row[6][1] + row[6][2]

ceiling_power_of_two(value) ==
    LET n == IF value = 0 THEN 1 ELSE value
    IN  pow2[highest_bit_position(n + n - 1) - 1]

-----------------------------------------------------------------------------
(* Positions *)

INVALID_POS == 0

Positions(o) == 1 .. pow2[o] - 1
tree_valid(t, pos) == pos \in Positions(t.order)

left_child(pos) == 2 * pos
right_child(pos) == 2 * pos + 1
parent(pos) == pos \div 2
sibling(pos) == IF pos % 2 = 0 THEN pos + 1 ELSE pos - 1
right_adjacent(pos) == IF \E k \in 1 .. MaxOrder : pos = pow2[k] - 1 THEN INVALID_POS ELSE pos + 1

\* The depth a position carries, and its index in its row.
Depth == [pos \in 0 .. pow2[MaxOrder] - 1 |-> highest_bit_position(pos)]
tree_index(pos) == pos - pow2[Depth[pos] - 1]
leftmost_child(o) == pow2[o - 1]

\* size_for_order: bits of the rows of a tree of order o that are higher than to.
size_for_order(o) ==
    LET size[to \in 0 .. o] == IF to = o THEN 0 ELSE size[to + 1] + (to + 1) * pow2[o - (to + 1)]
    IN  size

\* The table populate_size_for_order keeps behind the bits.
SizeForOrder == [o \in 1 .. MaxOrder |-> size_for_order(o)]

\* internal_position: height of a position and place of its first bit.
internal_position ==
    [o \in 1 .. MaxOrder |-> [pos \in Positions(o) |->
        LET height == o - Depth[pos] + 1
        IN  [local_offset |-> height,
             at |-> SizeForOrder[o][height] + height * tree_index(pos)]]]

-----------------------------------------------------------------------------
(* The bit set *)

bitset_set_range(bits, from, to) == bits \cup (from .. to)
bitset_clear_range(bits, from, to) == bits \ (from .. to)
bitset_count_range(bits, from, to) == Cardinality(bits \cap (from .. to))

\* Copies [from, to) down by bits; the range it clears afterwards starts at length.
bitset_shift_left(bits, from, to, by) ==
    LET copied == {at - by : at \in bits \cap (from .. to - 1)}
        length == to - from
    IN  bitset_clear_range((bits \ (from - by .. to - 1 - by)) \cup copied, length, length + by - 1)

\* Copies [from, to], the last bit included, up and clears what it came from.
bitset_shift_right(bits, from, to, by) ==
    LET copied == {at + by : at \in bits \cap (from .. to)}
    IN  bitset_clear_range((bits \ (from + by .. to + by)) \cup copied, from, from + by - 1)

\* read_from_internal_position: the first bit decides whether there is a status.
read_from(bits, p) ==
    IF p.at \notin bits THEN 0 ELSE bitset_count_range(bits, p.at, p.at + p.local_offset - 1)

\* Mutant: writing 0 clears the second bit of a status.
BugWriteTo(bits, p, value) ==
    IF value = 0 THEN bits \ {p.at + 1}
    ELSE bitset_set_range(bitset_clear_range(bits, p.at, p.at + p.local_offset - 1),
                          p.at, p.at + value - 1)

\* write_to_internal_position: writing 0 clears the first bit only.
write_to(bits, p, value) ==
    IF value = 0 THEN bits \ {p.at}
    ELSE bitset_set_range(bitset_clear_range(bits, p.at, p.at + p.local_offset - 1),
                          p.at, p.at + value - 1)

tree_status(t, pos) == read_from(t.bits, internal_position[t.order][pos])
local_offset(t, pos) == internal_position[t.order][pos].local_offset
SetStatus(t, pos, value) ==
    [t EXCEPT !.bits = write_to(@, internal_position[t.order][pos], value)]

tree_init(o) == [order |-> o, bits |-> {}]

-----------------------------------------------------------------------------
(* Marking and releasing *)

\* Mutant: a parent is as used as its more used child.
BugTargetParent(current, other) ==
    IF current = 0 /\ other = 0 THEN 0 ELSE Max({current, other}) + 1

\* The status of a parent, from those of its children.
TargetParent(current, other) ==
    IF current = 0 /\ other = 0 THEN 0 ELSE Min({current, other}) + 1

Trees == [order : 1 .. MaxOrder, bits : SUBSET Nat]

\* A position of a tree and its new status.
Changes == {s \in Trees \X Nat \X Nat : tree_valid(s[1], s[2])}

\* update_parent_chain: stops at the first ancestor that does not change.
update_parent_chain[s \in Changes] ==
    LET t == s[1]
        pos == s[2]
        target == TargetParent(s[3], tree_status(t, sibling(pos)))
    IN  IF pos = 1 THEN t
        ELSE IF target = tree_status(t, parent(pos)) THEN t
        ELSE update_parent_chain[<<SetStatus(t, parent(pos), target), parent(pos), target>>]

tree_mark(t, pos) ==
    update_parent_chain[<<SetStatus(t, pos, local_offset(t, pos)), pos, local_offset(t, pos)>>]

tree_release(t, pos) == update_parent_chain[<<SetStatus(t, pos, 0), pos, 0>>]

-----------------------------------------------------------------------------
(* Searching *)

\* Mutant: an optimal fit that forgets to look whether the left branch has room.
BugBranch(l, r, target_status, left_bias) == IF left_bias \/ l >= r THEN "left" ELSE "right"

\* The child find_free descends into: the one with room, or of two with room the
\* fuller one (the left one of equals, and always with left bias).
Branch(l, r, target_status, left_bias) ==
    CASE l > target_status -> "right"
      [] l <= target_status /\ r > target_status -> "left"
      [] OTHER -> IF left_bias \/ l >= r THEN "left" ELSE "right"

\* The loop of find_free from any position above the target depth on.
FindFrom(t, target_depth, left_bias) ==
    LET find[pos \in {p \in Positions(t.order) : Depth[p] <= target_depth}] ==
            LET target_status == target_depth - Depth[pos]
                to == Branch(tree_status(t, left_child(pos)), tree_status(t, right_child(pos)),
                             target_status - 1, left_bias)
            IN  IF target_status = 0 THEN IF tree_status(t, pos) = 0 THEN pos ELSE INVALID_POS
                ELSE IF tree_status(t, pos) > target_status THEN INVALID_POS
                ELSE find[IF to = "left" THEN left_child(pos) ELSE right_child(pos)]
    IN  find

tree_find_free(t, target_depth, left_bias) == FindFrom(t, target_depth, left_bias)[1]

\* tree_is_free: the first ancestor with a status decides.
FreeAbove(t) ==
    LET free[pos \in Nat] ==
            IF ~tree_valid(t, pos) THEN TRUE
            ELSE IF tree_status(t, pos) # 0 THEN tree_status(t, pos) # local_offset(t, pos)
            ELSE free[parent(pos)]
    IN  free
tree_is_free(t, pos) == tree_status(t, pos) = 0 /\ FreeAbove(t)[parent(pos)]

\* The deepest positions below a position.
tree_interval(t, pos) ==
    LET below == pow2[t.order - Depth[pos]]
    IN  [from |-> pos * below, to |-> pos * below + below - 1]
interval_contains(outer, inner) ==
    {inner.from, inner.to} \subseteq outer.from .. outer.to

\* tree_walk: the position after pos in a walk of the tree, or INVALID_POS at its
\* end; up says that the positions below pos are to be skipped.
WalkUp[pos \in Nat \ {0}] ==
    IF pos = 1 THEN INVALID_POS
    ELSE IF pos % 2 = 1 THEN WalkUp[parent(pos)] ELSE right_adjacent(pos)
tree_walk(t, pos, up) ==
    IF ~up /\ tree_valid(t, left_child(pos)) THEN left_child(pos) ELSE WalkUp[pos]

-----------------------------------------------------------------------------
(* Resizing *)

\* What is behind the bits of the tree is the table of SizeForOrder.
Trim(o, bits) == [order |-> o, bits |-> bits \cap (0 .. SizeForOrder[o][0] - 1)]

\* One order up: every row, the deepest first, becomes the left half of the row
\* below, then the status of the new root is computed.
GrowRow(bits, o, d) ==
    LET cur == internal_position[o][leftmost_child(d)]
        next == internal_position[o + 1][leftmost_child(d + 1)]
        half == next.local_offset * pow2[d - 1]
    IN  bitset_clear_range(
            bitset_shift_right(bits, cur.at, cur.at + cur.local_offset * pow2[d - 1], next.at - cur.at),
            next.at + half, next.at + 2 * half - 1)

\* Mutant: the rows are moved from the root down.
BugGrowOnce(t) ==
    LET grown[i \in 0 .. t.order] == IF i = 0 THEN t.bits ELSE GrowRow(grown[i - 1], t.order, i)
    IN  update_parent_chain[<<Trim(t.order + 1, grown[t.order]), right_child(1), 0>>]

GrowOnce(t) ==
    LET grown[i \in 0 .. t.order] ==
            IF i = 0 THEN t.bits ELSE GrowRow(grown[i - 1], t.order, t.order + 1 - i)
    IN  update_parent_chain[<<Trim(t.order + 1, grown[t.order]), right_child(1), 0>>]

tree_can_shrink(t) ==
    /\ tree_status(t, right_child(1)) = 0
    /\ tree_status(t, 1) # local_offset(t, 1)

\* One order down: the left half of every row, the second first, becomes the row above.
ShrinkRow(bits, o, d) ==
    LET cur == internal_position[o][leftmost_child(d)]
        next == internal_position[o - 1][leftmost_child(d - 1)]
    IN  bitset_shift_left(bits, cur.at, cur.at + (cur.local_offset * pow2[d - 1]) \div 2, cur.at - next.at)

ShrinkOnce(t) ==
    LET rows == [i \in 1 .. t.order - 1 |-> i + 1]
    IN  Trim(t.order - 1, FoldLeft(LAMBDA b, d : ShrinkRow(b, t.order, d), t.bits, rows))

tree_resize(tree, desired) ==
    LET resize[t \in Trees] ==
            IF t.order < desired THEN resize[GrowOnce(t)]
            ELSE IF t.order > desired /\ tree_can_shrink(t) THEN resize[ShrinkOnce(t)]
            ELSE t
    IN  resize[tree]

-----------------------------------------------------------------------------
(* check_invariant *)

\* buddy_tree_check_invariant: 1 when a position disagrees with its children.  The
\* loop walks the tree but looks at the position it was given every time.
check_invariant(t, pos) ==
    /\ tree_valid(t, left_child(pos))
    /\ LET l == tree_status(t, left_child(pos))
           r == tree_status(t, right_child(pos))
           here == tree_status(t, pos)
       IN  IF l # 0 \/ r # 0 THEN here # Min({l, r}) + 1
           ELSE here > 0 /\ here < local_offset(t, pos)

=============================================================================
