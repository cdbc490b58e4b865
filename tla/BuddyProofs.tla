----------------------------- MODULE BuddyProofs -----------------------------
(***************************************************************************)
(* Proofs about the buddy allocator for arenas and trees of any size.      *)
(*                                                                         *)
(*  - its arithmetic: powers of two, size classes, the depth of a position *)
(*    (SizeClassesFit);                                                    *)
(*  - its bits: the fields of two positions share none, so writing one     *)
(*    status changes no other (StatusWrites);                              *)
(*  - the tree: a Sound tree is one whose statuses follow from those below *)
(*    them; marking and releasing keep it so, although they stop at the    *)
(*    first ancestor that does not change (MarkExact, ReleaseExact), and   *)
(*    find_free finds what fits exactly when there is some (SearchExact);  *)
(*  - its geometry: a position covers Width slots from Lo on, and two of   *)
(*    them are apart unless one is above the other;                        *)
(*  - the heap: HeapInv says that the blocks handed out are the marked     *)
(*    positions inside the arena and that every slot beyond it is marked;  *)
(*    every call keeps it and takes a step that AbstractHeap allows        *)
(*    (FixedArenaImplementsHeap and the theorems after it);                *)
(*  - resizing: growing moves every row bit by bit and keeps what is       *)
(*    marked in place (GrowExact, ResizeGrows), is_free is right about the *)
(*    slots it looks at (FreeMeans), so careful callers keep HeapInv too   *)
(*    (ResizedArenaImplementsHeap and the theorems after it);              *)
(*  - what AbstractHeap promises the callers.                              *)
(*                                                                         *)
(* Induction and recursion are as in SortProofs.                           *)
(***************************************************************************)
EXTENDS Buddy, SortProofs

-----------------------------------------------------------------------------
(* Powers of two *)

LEMMA PowerUnfolds ==
    /\ pow2 = [k \in Nat |-> IF k = 0 THEN 1 ELSE 2 * pow2[k - 1]]
    /\ \A k \in Nat : pow2[k] \in Nat /\ pow2[k] >= 1
<1> DEFINE Step(k, f) == IF k = 0 THEN 1 ELSE 2 * f[k - 1]
           m == [k \in Nat |-> k]
           G == [k \in Nat |-> [f \in [Nat -> Nat] |-> Step(k, f)]]
<1>1. G \in [Nat -> [[Nat -> Nat] -> Nat]] OBVIOUS
<1>2. Descends(Nat, Nat, m, G)
  <2> SUFFICES ASSUME NEW k \in Nat, NEW f \in [Nat -> Nat], NEW g \in [Nat -> Nat],
                      \A j \in Nat : j < k => f[j] = g[j]
               PROVE  Step(k, f) = Step(k, g)
    BY DEF Descends
  <2>1. CASE k = 0 BY <2>1
  <2>2. CASE k # 0
    <3>1. k - 1 \in Nat /\ k - 1 < k BY <2>2
    <3> QED BY <3>1
  <2> QED BY <2>1, <2>2
<1>3. PICK f : Solves(Nat, Nat, G, f)
  <2>1. Nat # {} /\ m \in [Nat -> Nat] OBVIOUS
  <2>2. WellDefined(Nat, Nat, m, G) BY <1>1, <1>2, <2>1 DEF WellDefined
  <2> HIDE DEF m, G
  <2> QED BY <2>2, RecursionExists, Zenon
<1>4. f = [k \in Nat |-> Step(k, f)] BY <1>3 DEF Solves
<1>5. pow2 = [k \in Nat |-> IF k = 0 THEN 1 ELSE 2 * pow2[k - 1]] BY <1>4, Zenon DEF pow2
<1>6. pow2[0] = 1 /\ \A k \in Nat : pow2[k + 1] = 2 * pow2[k]
  <2>1. \A k \in Nat : pow2[k] = IF k = 0 THEN 1 ELSE 2 * pow2[k - 1] BY <1>5, Zenon
  <2>2. \A k \in Nat : k + 1 \in Nat /\ k + 1 # 0 /\ (k + 1) - 1 = k OBVIOUS
  <2> QED BY <2>1, <2>2
<1> DEFINE P == {k \in Nat : pow2[k] \in Nat /\ pow2[k] >= 1}
<1>7. P = Nat
  <2>1. 0 \in P /\ P \in SUBSET Nat BY <1>6
  <2>2. \A k \in P : k + 1 \in P BY <1>6
  <2> HIDE DEF P
  <2> QED BY <2>1, <2>2, NumbersUpwards
<1> QED BY <1>5, <1>7

LEMMA PowerIs ==
    /\ pow2[0] = 1
    /\ \A k \in Nat : /\ pow2[k] \in Nat /\ pow2[k] >= 1
                      /\ pow2[k + 1] = 2 * pow2[k]
<1>1. \A k \in Nat : pow2[k] = IF k = 0 THEN 1 ELSE 2 * pow2[k - 1] BY PowerUnfolds, Zenon
<1>2. \A k \in Nat : k + 1 \in Nat /\ k + 1 # 0 /\ (k + 1) - 1 = k OBVIOUS
<1> QED BY <1>1, <1>2, PowerUnfolds

LEMMA PowerSum ==
    ASSUME NEW j \in Nat, NEW k \in Nat
    PROVE  pow2[j + k] = pow2[j] * pow2[k]
<1> DEFINE P == {i \in Nat : pow2[j + i] = pow2[j] * pow2[i]}
<1>1. 0 \in P
  <2>1. j + 0 = j /\ pow2[j] \in Nat BY PowerIs
  <2> QED BY <2>1, PowerIs
<1>2. ASSUME NEW i \in P PROVE i + 1 \in P
  <2>1. j + (i + 1) = (j + i) + 1 /\ j + i \in Nat /\ i \in Nat /\ i + 1 \in Nat BY <1>2
  <2>2. pow2[(j + i) + 1] = 2 * pow2[j + i] /\ pow2[i + 1] = 2 * pow2[i] BY <2>1, PowerIs
  <2>3. PICK a \in Nat, b \in Nat : a = pow2[j] /\ b = pow2[i] BY <2>1, PowerIs
  <2>4. pow2[j + i] = a * b BY <1>2, <2>3
  <2>5. 2 * (a * b) = a * (2 * b) BY <2>3
  <2> QED BY <2>1, <2>2, <2>3, <2>4, <2>5
<1>3. P = Nat
  <2>1. P \in SUBSET Nat OBVIOUS
  <2> HIDE DEF P
  <2> QED BY <1>1, <1>2, <2>1, NumbersUpwards
<1> QED BY <1>3

LEMMA PowerTable ==
    pow2[1] = 2 /\ pow2[2] = 4 /\ pow2[3] = 8 /\ pow2[4] = 16 /\ pow2[8] = 256 /\ pow2[16] = 65536
<1>1. pow2[1] = 2
  <2>1. 0 \in Nat /\ 0 + 1 = 1 OBVIOUS
  <2> QED BY <2>1, PowerIs
<1>2. pow2[2] = 4
  <2>1. 1 \in Nat /\ 1 + 1 = 2 OBVIOUS
  <2> QED BY <1>1, <2>1, PowerIs
<1>3. pow2[3] = 8
  <2>1. 2 \in Nat /\ 2 + 1 = 3 OBVIOUS
  <2> QED BY <1>2, <2>1, PowerIs
<1>4. pow2[4] = 16
  <2>1. 3 \in Nat /\ 3 + 1 = 4 OBVIOUS
  <2> QED BY <1>3, <2>1, PowerIs
<1>5. pow2[8] = 256
  <2>1. 4 \in Nat /\ 4 + 4 = 8 OBVIOUS
  <2>2. pow2[4 + 4] = pow2[4] * pow2[4] BY <2>1, PowerSum, SMT
  <2> QED BY <1>4, <2>1, <2>2, SMT
<1>6. pow2[16] = 65536
  <2>1. 8 \in Nat /\ 8 + 8 = 16 OBVIOUS
  <2>2. pow2[8 + 8] = pow2[8] * pow2[8] BY <2>1, PowerSum, SMT
  <2> QED BY <1>5, <2>1, <2>2, SMT
<1> QED BY <1>1, <1>2, <1>3, <1>4, <1>5, <1>6, SMT

-----------------------------------------------------------------------------
(* Division and products *)

LEMMA Quotient ==
    ASSUME NEW u \in Nat, NEW c \in Nat, c >= 1
    PROVE  /\ u \div c \in Nat
           /\ c * (u \div c) <= u
           /\ u + 1 <= c * ((u \div c) + 1)
<1>1. PICK q \in Int, r \in Int : q = u \div c /\ r = (u % c) BY SMT
<1>2. u = c * q + r /\ 0 <= r /\ r < c BY <1>1, SMT
<1>3. q >= 0
  <2>1. CASE q < 0
    <3>1. c * q <= c * (0 - 1) BY <2>1, SMT
    <3> QED BY <1>2, <3>1, SMT
  <2> QED BY <2>1
<1>4. c * (q + 1) = c * q + c BY SMT
<1> QED BY <1>1, <1>2, <1>3, <1>4, SMT

LEMMA Division ==
    ASSUME NEW u \in Nat, NEW c \in Nat, c >= 1
    PROVE  \E r \in Nat, q \in Nat : r = (u % c) /\ u = c * q + r /\ r < c
<1>1. PICK q \in Nat : q = u \div c BY Quotient
<1>2. PICK r \in Int : r = (u % c) BY SMT
<1>3. u = c * q + r /\ 0 <= r /\ r < c BY <1>1, <1>2, SMT
<1>4. r \in Nat BY <1>3
<1> QED BY <1>2, <1>3, <1>4, Zenon

LEMMA TimesMonotone ==
    ASSUME NEW p \in Nat, NEW a \in Nat, NEW b \in Nat, a <= b
    PROVE  p * a <= p * b
BY SMT

LEMMA TimesSuccessor ==
    ASSUME NEW p \in Nat, NEW a \in Nat
    PROVE  p * (a + 1) = p * a + p
BY SMT

LEMMA TimesStrict ==
    ASSUME NEW p \in Nat, NEW a \in Nat, NEW b \in Nat, p * a < p * b
    PROVE  a < b
<1>1. CASE b <= a
  <2>1. p * b <= p * a BY <1>1, TimesMonotone
  <2>2. p * a \in Int /\ p * b \in Int OBVIOUS
  <2> QED BY <2>1, <2>2
<1> QED BY <1>1

LEMMA TimesSum ==
    ASSUME NEW p \in Nat, NEW a \in Nat, NEW b \in Nat
    PROVE  p * (a * b) = (p * a) * b
BY SMT

LEMMA QuotientBelow ==
    ASSUME NEW u \in Nat, NEW c \in Nat, NEW d \in Nat, c >= 1, u < c * d
    PROVE  u \div c < d
<1>1. PICK q \in Nat : q = u \div c BY Quotient
<1>2. c * q <= u BY <1>1, Quotient
<1>3. c * q < c * d
  <2>1. c * q \in Int /\ c * d \in Int OBVIOUS
  <2> QED BY <1>2, <2>1
<1>4. q < d BY <1>3, TimesStrict
<1> QED BY <1>1, <1>4

LEMMA ExactQuotient ==
    ASSUME NEW c \in Nat, NEW d \in Nat, c >= 1
    PROVE  (c * d) \div c = d
<1>1. PICK u \in Nat : u = c * d OBVIOUS
<1>2. PICK q \in Nat : q = u \div c BY Quotient
<1>3. c * q <= u /\ u + 1 <= c * (q + 1) BY <1>2, Quotient
<1>4. c * d < c * (q + 1) /\ c * q <= c * d
  <2>1. c * q \in Int /\ c * d \in Int /\ c * (q + 1) \in Int OBVIOUS
  <2> QED BY <1>1, <1>3, <2>1
<1>5. d < q + 1 BY <1>4, TimesStrict
<1>6. q <= d
  <2>1. CASE d < q
    <3>1. c * (d + 1) <= c * q BY <2>1, TimesMonotone
    <3>2. c * (d + 1) = c * d + c BY SMT
    <3> QED BY <1>4, <3>1, <3>2, SMT
  <2> QED BY <2>1
<1> QED BY <1>1, <1>2, <1>5, <1>6

-----------------------------------------------------------------------------
(* The position of the highest bit *)

\* What the loop of highest_bit_position keeps: u is v shifted right by s, and when
\* nothing is left of it the last bit to go was the highest one.
Shifted(v, acc) ==
    /\ acc = <<acc[1], acc[2]>> /\ acc[1] \in Nat /\ acc[2] \in Nat
    /\ pow2[acc[2]] * acc[1] <= v /\ v < pow2[acc[2]] * (acc[1] + 1)
    /\ acc[1] = 0 => acc[2] >= 1 /\ pow2[acc[2] - 1] <= v

LEMMA RowShifts ==
    ASSUME NEW v \in Nat, NEW acc, Shifted(v, acc),
           NEW all_set \in Nat, NEW count \in Nat, count >= 1, pow2[count] <= all_set + 1
    PROVE  /\ Shifted(v, BitRow(acc, all_set, count))
           /\ BitRow(acc, all_set, count)[1] = IF acc[1] >= all_set THEN acc[1] \div pow2[count] ELSE acc[1]
<1>1. CASE ~(acc[1] >= all_set)
  <2>1. BitRow(acc, all_set, count) = acc BY <1>1, Zenon DEF BitRow
  <2> QED BY <1>1, <2>1, Zenon
<1>2. CASE acc[1] >= all_set
  <2>1. PICK u \in Nat, s \in Nat : u = acc[1] /\ s = acc[2] BY DEF Shifted
  <2>2. PICK c \in Nat, h \in Nat : c = pow2[count] /\ h = pow2[count - 1] /\ h >= 1 /\ c = 2 * h
    <3>1. count - 1 \in Nat /\ (count - 1) + 1 = count OBVIOUS
    <3> QED BY <3>1, PowerIs
  <2>0. c >= 1 BY <2>2
  <2>3. PICK q \in Nat : q = u \div c BY <2>0, Quotient
  <2>4. c * q <= u /\ u + 1 <= c * (q + 1) BY <2>0, <2>3, Quotient, Zenon
  <2>5. PICK p \in Nat : p = pow2[s] BY PowerIs
  <2>6. p * u <= v /\ v < p * (u + 1) BY <2>1, <2>5 DEF Shifted
  <2>7. pow2[s + count] = p * c
    <3>1. pow2[s + count] = pow2[s] * pow2[count] BY PowerSum, Zenon
    <3> QED BY <2>2, <2>5, <3>1, Zenon
  <2>8. (p * c) * q <= v
    <3>1. p * (c * q) <= p * u BY <2>4, TimesMonotone
    <3>2. p * (c * q) = (p * c) * q BY TimesSum
    <3>3. p * u \in Int /\ (p * c) * q \in Int OBVIOUS
    <3> QED BY <2>6, <3>1, <3>2, <3>3
  <2>9. v < (p * c) * (q + 1)
    <3>1. p * (u + 1) <= p * (c * (q + 1)) BY <2>4, TimesMonotone
    <3>2. p * (c * (q + 1)) = (p * c) * (q + 1) BY TimesSum
    <3>3. p * (u + 1) \in Int /\ (p * c) * (q + 1) \in Int OBVIOUS
    <3> QED BY <2>6, <3>1, <3>2, <3>3
  <2>10. q = 0 => s + count >= 1 /\ pow2[(s + count) - 1] <= v
    <3> SUFFICES ASSUME q = 0 PROVE pow2[(s + count) - 1] <= v OBVIOUS
    <3>1. c * (q + 1) = c BY <2>2, SMT
    <3>2. h <= u BY <1>2, <2>1, <2>2, <2>4, <3>1, SMT
    <3>3. p * h <= p * u BY <3>2, TimesMonotone
    <3>4. pow2[s + (count - 1)] = p * h
      <4>1. count - 1 \in Nat OBVIOUS
      <4> QED BY <2>2, <2>5, <4>1, PowerSum
    <3>5. s + (count - 1) = (s + count) - 1 OBVIOUS
    <3>6. p * h \in Int /\ p * u \in Int OBVIOUS
    <3> QED BY <2>6, <3>3, <3>4, <3>5, <3>6
  <2>11. BitRow(acc, all_set, count) = <<q, s + count>> BY <1>2, <2>1, <2>2, <2>3 DEF BitRow
  <2>12. Shifted(v, <<q, s + count>>) BY <2>7, <2>8, <2>9, <2>10 DEF Shifted
  <2> QED BY <1>2, <2>1, <2>2, <2>3, <2>11, <2>12
<1> QED BY <1>1, <1>2

LEMMA FirstRow ==
    ASSUME NEW v \in Nat, NEW acc, Shifted(v, acc), acc[1] = v,
           NEW all_set \in Nat, NEW count \in Nat, count >= 1,
           pow2[count] = all_set + 1, v < pow2[count] * pow2[count]
    PROVE  Shifted(v, BitRow(acc, all_set, count)) /\ BitRow(acc, all_set, count)[1] <= all_set
<1>1. PICK w \in Nat : w = pow2[count] /\ w = all_set + 1 /\ w >= 1 /\ v < w * w BY PowerIs
<1>2. PICK row : row = BitRow(acc, all_set, count) OBVIOUS
<1>3. pow2[count] <= all_set + 1 BY <1>1
<1>4. /\ Shifted(v, row)
      /\ row[1] = IF v >= all_set THEN v \div w ELSE v
  <2>1. /\ Shifted(v, row)
        /\ row[1] = IF acc[1] >= all_set THEN acc[1] \div pow2[count] ELSE acc[1]
    BY <1>2, <1>3, RowShifts
  <2> QED BY <1>1, <2>1
<1>5. PICK x \in Nat : x = v \div w /\ x < w BY <1>1, QuotientBelow, Quotient
<1>6. row[1] <= all_set BY <1>1, <1>4, <1>5
<1> QED BY <1>2, <1>4, <1>6

\* The loop of highest_bit_position, by the number of rows it has passed.
BitLoop(value) ==
    LET row[i \in 0 .. 6] ==
            IF i = 0 THEN <<value, 0>> ELSE BitRow(row[i - 1], BitRows[i][1], BitRows[i][2])
    IN  row

LEMMA BitLoopUnfolds ==
    ASSUME NEW v \in Nat
    PROVE  /\ BitLoop(v)[0] = <<v, 0>>
           /\ \A i \in 1 .. 6 : BitLoop(v)[i] = BitRow(BitLoop(v)[i - 1], BitRows[i][1], BitRows[i][2])
<1> DEFINE D == 0 .. 6
           T == Nat \X Nat
           Go(x, i) == BitRow(x, BitRows[i][1], BitRows[i][2])
           Step(i, f) == IF i = 0 THEN <<v, 0>> ELSE Go(f[i - 1], i)
           m == [i \in D |-> i]
           G == [i \in D |-> [f \in [D -> T] |-> Step(i, f)]]
<1>1. ASSUME NEW i \in D, i # 0 PROVE i - 1 \in D /\ i - 1 < i BY <1>1
<1>2. ASSUME NEW i \in D, i # 0, NEW x \in T PROVE Go(x, i) \in T
  <2>1. BitRows[i][1] \in Nat /\ BitRows[i][2] \in Nat BY <1>2 DEF BitRows
  <2>2. PICK a \in Nat, c \in Nat : a = BitRows[i][1] /\ c = BitRows[i][2] BY <2>1
  <2>3. x[1] \in Nat /\ x[2] \in Nat /\ pow2[c] \in Nat /\ pow2[c] >= 1 BY <1>2, PowerIs
  <2>4. x[1] \div pow2[c] \in Nat BY <2>3
  <2>5. BitRow(x, a, c) \in T BY <1>2, <2>2, <2>3, <2>4 DEF BitRow
  <2> QED BY <2>2, <2>5
<1> HIDE DEF Go
<1>3. G \in [D -> [[D -> T] -> T]]
  <2> SUFFICES ASSUME NEW i \in D, NEW f \in [D -> T] PROVE Step(i, f) \in T OBVIOUS
  <2>1. CASE i = 0 BY <2>1
  <2>2. CASE i # 0
    <3>1. f[i - 1] \in T BY <1>1, <2>2
    <3> HIDE DEF T
    <3>2. Go(f[i - 1], i) \in T BY <1>2, <2>2, <3>1
    <3> QED BY <2>2, <3>2
  <2> QED BY <2>1, <2>2
<1>4. Descends(D, T, m, G)
  <2> SUFFICES ASSUME NEW i \in D, NEW f \in [D -> T], NEW g \in [D -> T],
                      \A j \in D : m[j] < m[i] => f[j] = g[j]
               PROVE  Step(i, f) = Step(i, g)
    BY DEF Descends
  <2>1. i # 0 => f[i - 1] = g[i - 1] BY <1>1
  <2> QED BY <2>1
<1>5. PICK f : Solves(D, T, G, f)
  <2>1. m \in [D -> Nat] OBVIOUS
  <2>2. <<0, 0>> \in T OBVIOUS
  <2>3. T # {} BY <2>2, Zenon
  <2>4. WellDefined(D, T, m, G) BY <1>3, <1>4, <2>1, <2>3 DEF WellDefined
  <2> HIDE DEF D, T, m, G
  <2> QED BY <2>4, RecursionExists, Zenon
<1>6. f = [i \in D |-> Step(i, f)] BY <1>5 DEF Solves
<1> DEFINE L == BitLoop(v)
           U(h) == h = [i \in D |-> Step(i, h)]
<1>7. L = CHOOSE h : U(h) BY Zenon DEF BitLoop, Go
<1>8. U(L) BY <1>6, <1>7, Zenon
<1> HIDE DEF L
<1>9. \A i \in D : L[i] = Step(i, L) BY <1>8, Zenon
<1>10. 0 \in D /\ \A i \in 1 .. 6 : i \in D /\ i # 0 OBVIOUS
<1> HIDE DEF D
<1> QED BY <1>9, <1>10, Zenon DEF L, Go

LEMMA HighestBit ==
    ASSUME NEW v \in Nat, v >= 1, v < pow2[32]
    PROVE  \E k \in Nat : highest_bit_position(v) = k + 1 /\ pow2[k] <= v /\ v < pow2[k + 1]
<1> DEFINE L == BitLoop(v)
<1>1. PICK a : a = <<v, 0>> /\ a = L[0] BY BitLoopUnfolds
<1>2. PICK b : b = BitRow(a, 65535, 16) /\ b = L[1] BY <1>1, BitLoopUnfolds DEF BitRows
<1>3. PICK c : c = BitRow(b, 255, 8) /\ c = L[2] BY <1>2, BitLoopUnfolds DEF BitRows
<1>4. PICK d : d = BitRow(c, 15, 4) /\ d = L[3] BY <1>3, BitLoopUnfolds DEF BitRows
<1>5. PICK e : e = BitRow(d, 7, 2) /\ e = L[4] BY <1>4, BitLoopUnfolds DEF BitRows
<1>6. PICK f : f = BitRow(e, 3, 1) /\ f = L[5] BY <1>5, BitLoopUnfolds DEF BitRows
<1>7. PICK g : g = BitRow(f, 1, 1) /\ g = L[6] BY <1>6, BitLoopUnfolds DEF BitRows
<1>8. highest_bit_position(v) = g[1] + g[2] BY <1>7, Zenon DEF highest_bit_position, BitLoop
<1> HIDE DEF L
<1>9. Shifted(v, a) /\ a[1] = v
  <2>1. pow2[0] * v = v /\ pow2[0] * (v + 1) = v + 1 BY PowerIs
  <2> QED BY <1>1, <2>1 DEF Shifted
<1>10. Shifted(v, b) /\ b[1] <= 65535
  <2>1. 65535 \in Nat /\ 16 \in Nat /\ 16 >= 1 /\ pow2[16] = 65535 + 1 BY PowerTable, SMT
  <2>2. v < pow2[16] * pow2[16]
    <3>1. PICK k \in Nat : k = 16 /\ k + k = 32 OBVIOUS
    <3>2. pow2[k + k] = pow2[k] * pow2[k] BY PowerSum, Zenon
    <3>3. pow2[32] = pow2[16] * pow2[16] BY <3>1, <3>2, Zenon
    <3> QED BY <3>3, Zenon
  <2> QED BY <1>2, <1>9, <2>1, <2>2, FirstRow, SMT
<1>11. Shifted(v, c) /\ c[1] <= 255
  <2>1. 255 \in Nat /\ 8 \in Nat /\ 8 >= 1 /\ pow2[8] <= 255 + 1 BY PowerTable
  <2>2. Shifted(v, c) /\ c[1] = (IF b[1] >= 255 THEN b[1] \div pow2[8] ELSE b[1])
    BY <1>3, <1>10, <2>1, RowShifts
  <2>3. b[1] \in Nat BY <1>10 DEF Shifted
  <2> HIDE DEF Shifted
  <2> QED BY <1>10, <2>2, <2>3, PowerTable, SMT
<1>12. Shifted(v, d) /\ d[1] <= 15
  <2>1. 15 \in Nat /\ 4 \in Nat /\ 4 >= 1 /\ pow2[4] <= 15 + 1 BY PowerTable
  <2>2. Shifted(v, d) /\ d[1] = (IF c[1] >= 15 THEN c[1] \div pow2[4] ELSE c[1])
    BY <1>4, <1>11, <2>1, RowShifts
  <2>3. c[1] \in Nat BY <1>11 DEF Shifted
  <2> QED BY <1>11, <2>2, <2>3, PowerTable, SMT
<1>13. Shifted(v, e) /\ e[1] <= 6
  <2>1. 7 \in Nat /\ 2 \in Nat /\ 2 >= 1 /\ pow2[2] <= 7 + 1 BY PowerTable
  <2>2. Shifted(v, e) /\ e[1] = (IF d[1] >= 7 THEN d[1] \div pow2[2] ELSE d[1])
    BY <1>5, <1>12, <2>1, RowShifts
  <2>3. d[1] \in Nat BY <1>12 DEF Shifted
  <2> QED BY <1>12, <2>2, <2>3, PowerTable, SMT
<1>14. Shifted(v, f) /\ f[1] <= 3
  <2>1. 3 \in Nat /\ 1 \in Nat /\ 1 >= 1 /\ pow2[1] <= 3 + 1 BY PowerTable
  <2>2. Shifted(v, f) /\ f[1] = (IF e[1] >= 3 THEN e[1] \div pow2[1] ELSE e[1])
    BY <1>6, <1>13, <2>1, RowShifts
  <2>3. e[1] \in Nat BY <1>13 DEF Shifted
  <2> QED BY <1>13, <2>2, <2>3, PowerTable, SMT
<1>15. Shifted(v, g) /\ g[1] <= 1
  <2>1. 1 \in Nat /\ 1 >= 1 /\ pow2[1] <= 1 + 1 BY PowerTable
  <2>2. Shifted(v, g) /\ g[1] = (IF f[1] >= 1 THEN f[1] \div pow2[1] ELSE f[1])
    BY <1>7, <1>14, <2>1, RowShifts
  <2>3. f[1] \in Nat BY <1>14 DEF Shifted
  <2> QED BY <1>14, <2>2, <2>3, PowerTable, SMT
<1>16. PICK u \in Nat, s \in Nat : u = g[1] /\ s = g[2] BY <1>15 DEF Shifted
<1>17. CASE u = 1
  <2>1. pow2[s] * 1 = pow2[s] /\ pow2[s] * (1 + 1) = pow2[s + 1] BY PowerIs
  <2>2. pow2[s] <= v /\ v < pow2[s + 1] BY <1>15, <1>16, <1>17, <2>1 DEF Shifted
  <2>3. u + s = s + 1 BY <1>17
  <2> QED BY <1>8, <1>16, <2>2, <2>3
<1>18. CASE u = 0
  <2>1. pow2[s] * (0 + 1) = pow2[s] BY PowerIs
  <2>2. s >= 1 /\ pow2[s - 1] <= v /\ v < pow2[s] BY <1>15, <1>16, <1>18, <2>1 DEF Shifted
  <2>3. s - 1 \in Nat /\ (s - 1) + 1 = s /\ u + s = (s - 1) + 1 BY <1>18, <2>2
  <2> QED BY <1>8, <1>16, <2>2, <2>3
<1> QED BY <1>15, <1>16, <1>17, <1>18

LEMMA CeilingPower ==
    ASSUME NEW m \in Nat, m >= 1, m <= pow2[30]
    PROVE  \E k \in Nat : ceiling_power_of_two(m) = pow2[k] /\ m <= pow2[k] /\ pow2[k] < 2 * m
<1>1. PICK v \in Nat : v = m + m - 1 /\ v >= 1 OBVIOUS
<1>2. v < pow2[32]
  <2>1. 30 \in Nat /\ 31 \in Nat /\ 30 + 1 = 31 /\ 31 + 1 = 32 OBVIOUS
  <2>2. pow2[31] = 2 * pow2[30] /\ pow2[32] = 2 * pow2[31] /\ pow2[30] \in Nat BY <2>1, PowerIs
  <2> QED BY <1>1, <2>2
<1>3. PICK k \in Nat : highest_bit_position(v) = k + 1 /\ pow2[k] <= v /\ v < pow2[k + 1]
  BY <1>1, <1>2, HighestBit
<1>4. (k + 1) - 1 = k OBVIOUS
<1>5. ceiling_power_of_two(m) = pow2[k]
  <2>1. m # 0 OBVIOUS
  <2> QED BY <1>1, <1>3, <1>4, <2>1, Zenon DEF ceiling_power_of_two
<1>6. pow2[k + 1] = 2 * pow2[k] /\ pow2[k] \in Nat BY PowerIs
<1>7. m <= pow2[k] /\ pow2[k] < 2 * m BY <1>1, <1>3, <1>6
<1> QED BY <1>5, <1>7

-----------------------------------------------------------------------------
(* Size classes *)

\* depth_for_size halves the size as long as half of it is enough.
LEMMA DepthLoopUnfolds ==
    ASSUME NEW n \in Nat, n >= 1
    PROVE  \A e \in Nat, d \in Nat :
             DepthLoop(n)[<<e, d>>] =
                 IF (e \div n) \div 2 # 0 THEN DepthLoop(n)[<<e \div 2, d + 1>>] ELSE d
<1> DEFINE D == Nat \X Nat
           m == [s \in D |-> s[1]]
           Step(s, f) == IF (s[1] \div n) \div 2 # 0 THEN f[<<s[1] \div 2, s[2] + 1>>] ELSE s[2]
           G == [s \in D |-> [f \in [D -> Nat] |-> Step(s, f)]]
<1>1. ASSUME NEW s \in D
      PROVE  /\ <<s[1] \div 2, s[2] + 1>> \in D
             /\ (s[1] \div n) \div 2 # 0 => s[1] \div 2 < s[1]
  <2>1. PICK e \in Nat, d \in Nat : s = <<e, d>> OBVIOUS
  <2>2. e \div 2 \in Nat /\ d + 1 \in Nat OBVIOUS
  <2>3. (e \div n) \div 2 # 0 => e \div 2 < e
    <3>1. CASE e = 0
      <4>1. PICK q \in Nat : q = 0 \div n BY Quotient
      <4>2. n * q <= 0 BY <4>1, Quotient, Zenon
      <4>3. q = 0 BY <4>2, SMT
      <4> QED BY <3>1, <4>1, <4>3
    <3>2. CASE e # 0 BY <3>2
    <3> QED BY <3>1, <3>2
  <2> QED BY <2>1, <2>2, <2>3
<1>2. G \in [D -> [[D -> Nat] -> Nat]]
  <2> SUFFICES ASSUME NEW s \in D, NEW f \in [D -> Nat] PROVE Step(s, f) \in Nat OBVIOUS
  <2>1. f[<<s[1] \div 2, s[2] + 1>>] \in Nat BY <1>1
  <2>2. s[2] \in Nat OBVIOUS
  <2> QED BY <2>1, <2>2
<1>3. Descends(D, Nat, m, G)
  <2> SUFFICES ASSUME NEW s \in D, NEW f \in [D -> Nat], NEW g \in [D -> Nat],
                      \A j \in D : m[j] < m[s] => f[j] = g[j]
               PROVE  Step(s, f) = Step(s, g)
    BY DEF Descends
  <2>1. CASE (s[1] \div n) \div 2 # 0
    <3>1. PICK j : j = <<s[1] \div 2, s[2] + 1>> OBVIOUS
    <3>2. j \in D /\ m[j] = s[1] \div 2 /\ m[s] = s[1] BY <1>1, <3>1
    <3>3. f[j] = g[j] BY <1>1, <2>1, <3>2
    <3> QED BY <2>1, <3>1, <3>3
  <2>2. CASE (s[1] \div n) \div 2 = 0 BY <2>2
  <2> QED BY <2>1, <2>2
<1>4. PICK f : Solves(D, Nat, G, f)
  <2>1. D # {} /\ m \in [D -> Nat]
    <3>1. <<0, 0>> \in D OBVIOUS
    <3> QED BY <3>1
  <2>2. WellDefined(D, Nat, m, G) BY <1>2, <1>3, <2>1 DEF WellDefined
  <2> HIDE DEF D, m, G
  <2> QED BY <2>2, RecursionExists, Zenon
<1>5. f = [s \in D |-> Step(s, f)] BY <1>4 DEF Solves
<1>6. DepthLoop(n) = [s \in D |-> Step(s, DepthLoop(n))] BY <1>5, Zenon DEF DepthLoop
<1>7. ASSUME NEW e \in Nat, NEW d \in Nat
      PROVE  DepthLoop(n)[<<e, d>>] =
                 IF (e \div n) \div 2 # 0 THEN DepthLoop(n)[<<e \div 2, d + 1>>] ELSE d
  <2>1. PICK s \in D : s = <<e, d>> OBVIOUS
  <2>2. s[1] = e /\ s[2] = d BY <2>1
  <2>3. DepthLoop(n)[s] = Step(s, DepthLoop(n)) BY <1>6, Zenon
  <2> QED BY <2>1, <2>2, <2>3
<1> QED BY <1>7

\* Half of a power of two is enough for n.
LEMMA HalfIsEnough ==
    ASSUME NEW n \in Nat, n >= 1, NEW e \in Nat
    PROVE  (e \div n) \div 2 # 0 <=> e >= 2 * n
<1>1. PICK q \in Nat : q = e \div n BY Quotient
<1>2. n * q <= e /\ e + 1 <= n * (q + 1) BY <1>1, Quotient, Zenon
<1>3. q \div 2 # 0 <=> q >= 2 OBVIOUS
<1>4. CASE q >= 2
  <2>1. n * 2 <= n * q BY <1>4, TimesMonotone
  <2> QED BY <1>1, <1>2, <1>3, <1>4, <2>1, SMT
<1>5. CASE q < 2
  <2>1. n * (q + 1) <= n * 2 BY <1>5, TimesMonotone
  <2> QED BY <1>1, <1>2, <1>3, <1>5, <2>1, SMT
<1> QED BY <1>4, <1>5

LEMMA DepthLoopRight ==
    ASSUME NEW n \in Nat, n >= 1, NEW j \in Nat, n <= pow2[j]
    PROVE  \A d \in Nat : \E q \in 0 .. j :
             DepthLoop(n)[<<pow2[j], d>>] = d + (j - q) /\ n <= pow2[q] /\ pow2[q] < 2 * n
<1> DEFINE Fits(i, d) == \E q \in 0 .. i :
             DepthLoop(n)[<<pow2[i], d>>] = d + (i - q) /\ n <= pow2[q] /\ pow2[q] < 2 * n
           P == {i \in Nat : n <= pow2[i] => \A d \in Nat : Fits(i, d)}
<1>1. ASSUME NEW i \in Nat, NEW d \in Nat, n <= pow2[i], pow2[i] < 2 * n PROVE Fits(i, d)
  <2>1. PICK e \in Nat : e = pow2[i] BY PowerIs
  <2>2. ~((e \div n) \div 2 # 0) BY <1>1, <2>1, HalfIsEnough
  <2>3. DepthLoop(n)[<<e, d>>] = d BY <2>2, DepthLoopUnfolds, Zenon
  <2>4. d = d + (i - i) /\ i \in 0 .. i OBVIOUS
  <2> QED BY <1>1, <2>1, <2>3, <2>4
<1>2. 0 \in P
  <2> SUFFICES ASSUME n <= pow2[0], NEW d \in Nat PROVE Fits(0, d) OBVIOUS
  <2>1. pow2[0] < 2 * n BY PowerIs
  <2> QED BY <1>1, <2>1
<1>3. ASSUME NEW i \in P PROVE i + 1 \in P
  <2> SUFFICES ASSUME n <= pow2[i + 1], NEW d \in Nat PROVE Fits(i + 1, d) BY <1>3
  <2>1. PICK h \in Nat, e \in Nat : h = pow2[i] /\ e = pow2[i + 1] /\ e = 2 * h BY <1>3, PowerIs
  <2>2. CASE e < 2 * n
    <3>1. i + 1 \in Nat /\ pow2[i + 1] < 2 * n BY <1>3, <2>1, <2>2
    <3> HIDE DEF Fits
    <3> QED BY <1>1, <3>1
  <2>3. CASE e >= 2 * n
    <3>1. n <= h BY <2>1, <2>3
    <3>2. Fits(i, d + 1) BY <1>3, <2>1, <3>1
    <3>3. (e \div n) \div 2 # 0 BY <2>3, HalfIsEnough
    <3>4. e \div 2 = h BY <2>1
    <3>5. DepthLoop(n)[<<e, d>>] = DepthLoop(n)[<<h, d + 1>>] BY <3>3, <3>4, DepthLoopUnfolds, Zenon
    <3>6. PICK q \in 0 .. i : DepthLoop(n)[<<h, d + 1>>] = (d + 1) + (i - q) /\ n <= pow2[q] /\ pow2[q] < 2 * n
      BY <2>1, <3>2
    <3>7. (d + 1) + (i - q) = d + ((i + 1) - q) /\ q \in 0 .. (i + 1) BY <1>3
    <3> QED BY <2>1, <3>5, <3>6, <3>7
  <2> QED BY <2>1, <2>2, <2>3
<1>4. P = Nat
  <2>1. P \in SUBSET Nat OBVIOUS
  <2> HIDE DEF P
  <2> QED BY <1>2, <1>3, <2>1, NumbersUpwards
<1>5. j \in P BY <1>4
<1> QED BY <1>5

\* The whole number of slots of an arena; what the operations keep of memory_size.
WholeSlots(m) == \E k \in 1 .. MaxSlots : m = k * BUDDY_ALLOC_ALIGN

LEMMA AlignIs == BUDDY_ALLOC_ALIGN \in Nat /\ BUDDY_ALLOC_ALIGN >= 2
<1>1. PICK k \in 1 .. 6 : BUDDY_ALLOC_ALIGN = pow2[k] BY AlignAssumption
<1>2. k - 1 \in Nat /\ (k - 1) + 1 = k OBVIOUS
<1>3. pow2[k] = 2 * pow2[k - 1] /\ pow2[k - 1] \in Nat /\ pow2[k - 1] >= 1 BY <1>2, PowerIs
<1> QED BY <1>1, <1>3

LEMMA WholeSlotsFit ==
    ASSUME NEW m, WholeSlots(m)
    PROVE  m \in Nat /\ m >= BUDDY_ALLOC_ALIGN /\ m <= pow2[30]
<1>1. PICK k \in 1 .. MaxSlots : m = k * BUDDY_ALLOC_ALIGN BY DEF WholeSlots
<1>2. PICK a \in Nat, s \in Nat, top \in Nat :
        a = BUDDY_ALLOC_ALIGN /\ s = MaxSlots /\ top = pow2[30] /\ s * a <= top
  <2>1. 30 \in Nat OBVIOUS
  <2> QED BY <2>1, AlignIs, WidthAssumption, PowerIs
<1>3. k \in Nat /\ 1 <= k /\ k <= s BY <1>1, <1>2
<1>4. a * 1 <= a * k /\ a * k <= a * s BY <1>3, TimesMonotone
<1>5. k * a = a * k /\ s * a = a * s /\ a * 1 = a BY <1>3, SMT
<1>6. a * k \in Nat /\ a * s \in Nat BY <1>3
<1> QED BY <1>1, <1>2, <1>4, <1>5, <1>6

LEMMA SizeClass ==
    ASSUME WholeSlots(memory_size), NEW requested \in 1 .. memory_size
    PROVE  LET n == size_for_depth(memory_size, depth_for_size(requested))
           IN  n >= requested /\ (requested >= BUDDY_ALLOC_ALIGN => n < 2 * requested)
<1>1. PICK m \in Nat, a \in Nat :
        m = memory_size /\ a = BUDDY_ALLOC_ALIGN /\ a >= 2 /\ m >= a /\ m <= pow2[30]
  BY AlignIs, WholeSlotsFit
<1>2. requested \in Nat /\ 1 <= requested /\ requested <= m BY <1>1
<1>3. PICK n \in Nat : /\ n = Max({requested, a}) /\ requested <= n /\ 1 <= n /\ n <= m
                       /\ requested >= a => n = requested
  <2> DEFINE S == {requested, a}
  <2>1. S \in SUBSET Int /\ S # {} /\ m \in Int /\ \A x \in S : x <= m BY <1>1, <1>2
  <2>2. Max(S) \in S /\ \A y \in S : y <= Max(S) BY <2>1, MaxOf
  <2> HIDE DEF Max
  <2> QED BY <1>1, <1>2, <2>2
<1>4. PICK j \in Nat : ceiling_power_of_two(m) = pow2[j] /\ m <= pow2[j]
  <2>1. m >= 1 BY <1>1
  <2> QED BY <1>1, <2>1, CeilingPower
<1>5. n <= pow2[j]
  <2>1. pow2[j] \in Nat BY PowerIs
  <2> QED BY <1>3, <1>4, <2>1
<1>6. 1 \in Nat OBVIOUS
<1>7. PICK q \in 0 .. j :
        DepthLoop(n)[<<pow2[j], 1>>] = 1 + (j - q) /\ n <= pow2[q] /\ pow2[q] < 2 * n
  BY <1>3, <1>5, <1>6, DepthLoopRight
<1>8. depth_for_size(requested) = 1 + (j - q)
  BY <1>1, <1>3, <1>4, <1>7, Zenon DEF depth_for_size, effective_memory_size
<1>9. 1 + (j - q) # 0 /\ (1 + (j - q)) - 1 = j - q /\ j - q \in Nat /\ q \in Nat /\ j = (j - q) + q OBVIOUS
<1>10. size_for_depth(memory_size, 1 + (j - q)) = pow2[j] \div pow2[j - q]
  BY <1>1, <1>4, <1>9, Zenon DEF size_for_depth, effective_memory_size
<1>11. pow2[j] \div pow2[j - q] = pow2[q]
  <2>1. PICK c \in Nat, d \in Nat : c = pow2[j - q] /\ d = pow2[q] /\ c >= 1 BY <1>9, PowerIs
  <2>2. pow2[(j - q) + q] = pow2[j - q] * pow2[q] BY <1>9, PowerSum, Zenon
  <2>3. pow2[j] = c * d BY <1>9, <2>1, <2>2, Zenon
  <2>4. (c * d) \div c = d BY <2>1, ExactQuotient
  <2> QED BY <2>1, <2>3, <2>4, Zenon
<1>12. PICK r \in Nat : r = size_for_depth(memory_size, depth_for_size(requested)) /\ n <= r /\ r < 2 * n
  BY <1>7, <1>8, <1>9, <1>10, <1>11, PowerIs, Zenon
<1>13. r >= requested /\ (requested >= a => r < 2 * requested) BY <1>2, <1>3, <1>12
<1> QED BY <1>1, <1>12, <1>13

LEMMA ProductRight ==
    ASSUME NEW m \in Nat, m >= 1, NEW n \in Nat
    PROVE  Product(m, n) \in {Null, m * n}
<1>1. PICK w \in Nat : w = pow2[SizeBits] /\ w >= 1 BY WidthAssumption, PowerIs
<1>2. PICK p \in Nat : p = m * n OBVIOUS
<1>3. PICK total \in Nat : total = (p % w) /\ total <= p
  <2>1. PICK r \in Nat, q \in Nat : r = (p % w) /\ p = w * q + r /\ r < w BY <1>1, Division, Zenon
  <2>2. w * q \in Nat OBVIOUS
  <2> QED BY <2>1, <2>2
<1>4. CASE total \div m = n
  <2>1. m * (total \div m) <= total BY Quotient
  <2>2. Product(m, n) = total BY <1>1, <1>2, <1>3, <1>4, Zenon DEF Product
  <2>3. p <= total BY <1>2, <1>4, <2>1, Zenon
  <2> QED BY <1>2, <1>3, <2>2, <2>3
<1>5. CASE total \div m # n BY <1>1, <1>2, <1>3, <1>5, Zenon DEF Product
<1> QED BY <1>4, <1>5

LEMMA ClassesRight == WholeSlots(memory_size) => SizeClassFits
<1> SUFFICES ASSUME WholeSlots(memory_size) PROVE SizeClassFits OBVIOUS
<1>1. \A requested \in 1 .. memory_size :
        LET n == size_for_depth(memory_size, depth_for_size(requested))
        IN  n >= requested /\ (requested >= BUDDY_ALLOC_ALIGN => n < 2 * requested)
  BY SizeClass, Zenon
<1>2. ASSUME NEW m \in Counts \ {0}, NEW n \in Counts \ {0} PROVE Product(m, n) \in {Null, m * n}
  <2>1. Counts \subseteq Nat BY WidthAssumption, PowerIs DEF Counts
  <2>2. m \in Nat /\ m >= 1 /\ n \in Nat BY <2>1
  <2> QED BY <2>2, ProductRight
<1> QED BY <1>1, <1>2, Zenon DEF SizeClassFits

LEMMA TrimmedSlots ==
    ASSUME NEW k \in 1 .. MaxSlots
    PROVE  /\ WholeSlots(TrimDown(k * BUDDY_ALLOC_ALIGN + 1))
           /\ WholeSlots(TrimDown(k * BUDDY_ALLOC_ALIGN))
<1>1. PICK a \in Nat : a = BUDDY_ALLOC_ALIGN /\ a >= 2 BY AlignIs
<1>2. k \in Nat BY WidthAssumption
<1>3. ((k * a) % a) = 0 /\ ((k * a + 1) % a) = 1
  <2>1. ASSUME NEW r \in Nat, r < a PROVE ((k * a + r) % a) = r
    <3>1. PICK u \in Nat : u = k * a + r BY <1>2
    <3>2. a >= 1 BY <1>1
    <3>3. PICK s \in Nat, q \in Nat : s = (u % a) /\ u = a * q + s /\ s < a BY <3>2, Division, Zenon
    <3>4. 0 <= s OBVIOUS
    <3>5. a * q + s = a * k + r /\ a * (q + 1) = a * q + a /\ a * (k + 1) = a * k + a
      BY <1>2, <3>1, <3>3, <3>4, SMT
    <3>6. a * q < a * (k + 1) /\ a * k < a * (q + 1) BY <1>2, <2>1, <3>3, <3>4, <3>5, SMT
    <3>7. q < k + 1 /\ k < q + 1 BY <1>2, <3>4, <3>6, TimesStrict
    <3>8. q = k BY <1>2, <3>4, <3>7
    <3> QED BY <3>1, <3>3, <3>5, <3>8, SMT
  <2>2. k * a + 0 = k * a /\ 0 \in Nat /\ 0 < a /\ 1 \in Nat /\ 1 < a BY <1>1, <1>2
  <2> QED BY <2>1, <2>2
<1>4. (k * a + 1) - 1 = k * a /\ k * a - 0 = k * a BY <1>2
<1>5. TrimDown(k * a + 1) = k * a /\ TrimDown(k * a) = k * a BY <1>1, <1>3, <1>4 DEF TrimDown
<1> QED BY <1>1, <1>5 DEF WholeSlots

LEMMA SizeKept ==
    ASSUME WholeSlots(memory_size), [Next]_buddyVars
    PROVE  WholeSlots(memory_size')
<1>1. ASSUME memory_size' = memory_size PROVE WholeSlots(memory_size') BY <1>1
<1>2. Refused => memory_size' = memory_size BY DEF Refused
<1>3. \A r : malloc(r) => memory_size' = memory_size BY <1>2 DEF malloc
<1>4. \A b : free(b) => memory_size' = memory_size BY DEF free
<1>5. \A b, r : realloc(b, r) => memory_size' = memory_size BY <1>2, <1>4 DEF realloc
<1>6. CASE \E r \in Requests : malloc(r) BY <1>1, <1>3, <1>6
<1>7. CASE \E m, n \in Counts : calloc(m, n) BY <1>1, <1>2, <1>3, <1>7 DEF calloc
<1>8. CASE \E b \in blocks : free(b) BY <1>1, <1>4, <1>8
<1>9. CASE \E b \in blocks, r \in Requests : safe_free(b, r) \/ realloc(b, r)
  BY <1>1, <1>2, <1>4, <1>5, <1>9 DEF safe_free
<1>10. CASE \E b \in blocks, m, n \in Counts : reallocarray(b, m, n)
  BY <1>1, <1>2, <1>4, <1>5, <1>10 DEF reallocarray
<1>11. CASE set_left_bias \/ set_optimal_fit BY <1>1, <1>11 DEF set_left_bias, set_optimal_fit
<1>12. CASE \E n \in 1 .. MaxSlots, r \in Requests \ {0} :
             \/ reserve_range((n - 1) * BUDDY_ALLOC_ALIGN, r)
             \/ unsafe_release_range((n - 1) * BUDDY_ALLOC_ALIGN, r)
  BY <1>1, <1>12 DEF reserve_range, unsafe_release_range
<1>13. CASE Resizes
  <2>1. PICK n \in 1 .. MaxSlots : resize(n * BUDDY_ALLOC_ALIGN) BY <1>13 DEF Resizes
  <2>2. memory_size' = memory_size \/ memory_size' = TrimDown(n * BUDDY_ALLOC_ALIGN)
    BY <1>2, <2>1, Zenon DEF resize
  <2> QED BY <1>1, <2>2, TrimmedSlots, Zenon
<1>14. CASE UNCHANGED buddyVars BY <1>1, <1>14 DEF buddyVars
<1> QED BY <1>6, <1>7, <1>8, <1>9, <1>10, <1>11, <1>12, <1>13, <1>14, Zenon DEF Next, Calls

\* Whatever is asked of the allocator, a block is at least as large as the request
\* and less than twice as large from a slot on, and no product that overflows a
\* size_t is allocated short: SizeClassFits, for every width, alignment and size of
\* the arena below the row of highest_bit_position that is left out.
THEOREM SizeClassesFit == Spec => []SizeClassFits
<1>1. Init => WholeSlots(memory_size)
  <2> SUFFICES ASSUME Init PROVE WholeSlots(memory_size) OBVIOUS
  <2>1. PICK n \in InitSlots : memory_size = TrimDown(n * BUDDY_ALLOC_ALIGN + 1)
    BY DEF Init
  <2>2. n \in 1 .. MaxSlots BY SlotsAssumption
  <2> QED BY <2>1, <2>2, TrimmedSlots, Zenon
<1>2. WholeSlots(memory_size) /\ [Next]_buddyVars => WholeSlots(memory_size)'
  <2> SUFFICES ASSUME WholeSlots(memory_size), [Next]_buddyVars PROVE WholeSlots(memory_size)' OBVIOUS
  <2>1. WholeSlots(memory_size') BY SizeKept
  <2> QED BY <2>1 DEF WholeSlots
<1>3. WholeSlots(memory_size) => SizeClassFits BY ClassesRight
<1> QED BY <1>1, <1>2, <1>3, PTL DEF Spec

-----------------------------------------------------------------------------
(* Depths of positions *)

LEMMA PowerGrows ==
    ASSUME NEW j \in Nat, NEW k \in Nat, j <= k
    PROVE  pow2[j] <= pow2[k]
<1>1. k - j \in Nat /\ j + (k - j) = k OBVIOUS
<1>2. pow2[j + (k - j)] = pow2[j] * pow2[k - j] BY <1>1, PowerSum, Zenon
<1>3. PICK a \in Nat, b \in Nat : a = pow2[j] /\ b = pow2[k - j] /\ 1 <= b BY <1>1, PowerIs
<1>4. a * 1 <= a * b BY <1>3, TimesMonotone
<1>5. a * 1 = a /\ a * b \in Nat OBVIOUS
<1> QED BY <1>1, <1>2, <1>3, <1>4, <1>5

\* The depth d of a position: its row holds pow2[d - 1] positions.
InRow(pos, d) == d \in Nat /\ d >= 1 /\ pow2[d - 1] <= pos /\ pos < pow2[d]

LEMMA RowUnique ==
    ASSUME NEW pos \in Nat, NEW d, NEW e, InRow(pos, d), InRow(pos, e)
    PROVE  d = e
<1>1. /\ d \in Nat /\ e \in Nat /\ d - 1 \in Nat /\ e - 1 \in Nat
      /\ pow2[d] \in Nat /\ pow2[e] \in Nat /\ pow2[d - 1] \in Nat /\ pow2[e - 1] \in Nat
      /\ pow2[d - 1] <= pos /\ pos < pow2[d] /\ pow2[e - 1] <= pos /\ pos < pow2[e]
  BY PowerIs DEF InRow
<1>2. CASE d < e
  <2>1. d <= e - 1 BY <1>1, <1>2
  <2>2. pow2[d] <= pow2[e - 1] BY <1>1, <2>1, PowerGrows
  <2> QED BY <1>1, <2>2
<1>3. CASE e < d
  <2>1. e <= d - 1 BY <1>1, <1>3
  <2>2. pow2[e] <= pow2[d - 1] BY <1>1, <2>1, PowerGrows
  <2> QED BY <1>1, <2>2
<1> QED BY <1>1, <1>2, <1>3

LEMMA PositionIs ==
    ASSUME NEW o \in 1 .. MaxOrder, NEW pos \in Positions(o)
    PROVE  pos \in Nat /\ pos >= 1 /\ pos < pow2[o]
<1>1. o \in Nat BY OrderAssumption
<1>2. pow2[o] \in Nat BY <1>1, PowerIs
<1> QED BY <1>2 DEF Positions

LEMMA DepthIs ==
    ASSUME NEW o \in 1 .. MaxOrder, NEW pos \in Positions(o)
    PROVE  InRow(pos, Depth[pos]) /\ Depth[pos] <= o
<1>1. pos \in Nat /\ pos >= 1 /\ pos < pow2[o] BY PositionIs
<1>2. PICK top \in Nat : top = 32 OBVIOUS
<1>3. o \in Nat /\ MaxOrder \in Nat /\ o <= MaxOrder /\ MaxOrder <= top BY <1>2, OrderAssumption
<1>4. pow2[o] <= pow2[MaxOrder] /\ pow2[MaxOrder] <= pow2[top] BY <1>3, PowerGrows
<1>5. pow2[o] \in Nat /\ pow2[MaxOrder] \in Nat /\ pow2[top] \in Nat BY <1>3, PowerIs
<1>6. pos < pow2[top] BY <1>1, <1>4, <1>5
<1>7. PICK k \in Nat : highest_bit_position(pos) = k + 1 /\ pow2[k] <= pos /\ pos < pow2[k + 1]
  BY <1>1, <1>2, <1>6, HighestBit
<1>8. Depth[pos] = k + 1
  <2>1. pos \in 0 .. pow2[MaxOrder] - 1 BY <1>1, <1>4, <1>5
  <2> QED BY <1>7, <2>1, Zenon DEF Depth
<1>9. InRow(pos, k + 1) BY <1>7 DEF InRow
<1>10. k + 1 <= o
  <2>1. CASE o <= k
    <3>1. pow2[o] <= pow2[k] BY <1>3, <2>1, PowerGrows
    <3>2. pow2[k] \in Nat BY PowerIs
    <3> QED BY <1>1, <1>5, <1>7, <3>1, <3>2
  <2> QED BY <1>3, <2>1
<1> QED BY <1>8, <1>9, <1>10

-----------------------------------------------------------------------------
(* The bits of the statuses do not overlap *)

LEMMA SizesUnfold ==
    ASSUME NEW o \in Nat
    PROVE  \A to \in 0 .. o :
             /\ size_for_order(o)[to] \in Nat
             /\ size_for_order(o)[to] =
                  IF to = o THEN 0 ELSE size_for_order(o)[to + 1] + (to + 1) * pow2[o - (to + 1)]
<1> DEFINE D == 0 .. o
           m == [to \in D |-> o - to]
           Step(to, f) == IF to = o THEN 0 ELSE f[to + 1] + (to + 1) * pow2[o - (to + 1)]
           G == [to \in D |-> [f \in [D -> Nat] |-> Step(to, f)]]
<1>1. ASSUME NEW to \in D, to # o
      PROVE  to + 1 \in D /\ o - (to + 1) \in Nat /\ (to + 1) * pow2[o - (to + 1)] \in Nat
  <2>1. to + 1 \in D /\ o - (to + 1) \in Nat /\ to + 1 \in Nat BY <1>1
  <2>2. pow2[o - (to + 1)] \in Nat BY <2>1, PowerIs
  <2> QED BY <2>1, <2>2
<1>2. G \in [D -> [[D -> Nat] -> Nat]]
  <2> SUFFICES ASSUME NEW to \in D, NEW f \in [D -> Nat] PROVE Step(to, f) \in Nat OBVIOUS
  <2>1. CASE to = o BY <2>1
  <2>2. CASE to # o
    <3>1. f[to + 1] \in Nat BY <1>1, <2>2
    <3> QED BY <1>1, <2>2, <3>1
  <2> QED BY <2>1, <2>2
<1>3. Descends(D, Nat, m, G)
  <2> SUFFICES ASSUME NEW to \in D, NEW f \in [D -> Nat], NEW g \in [D -> Nat],
                      \A j \in D : m[j] < m[to] => f[j] = g[j]
               PROVE  Step(to, f) = Step(to, g)
    BY DEF Descends
  <2>1. CASE to = o BY <2>1
  <2>2. CASE to # o
    <3>1. to + 1 \in D /\ m[to + 1] < m[to] BY <1>1, <2>2
    <3>2. f[to + 1] = g[to + 1] BY <3>1
    <3> QED BY <2>2, <3>2
  <2> QED BY <2>1, <2>2
<1>4. PICK f : Solves(D, Nat, G, f)
  <2>1. D # {} /\ m \in [D -> Nat]
    <3>1. 0 \in D OBVIOUS
    <3>2. \A to \in D : o - to \in Nat OBVIOUS
    <3> QED BY <3>1, <3>2
  <2>2. WellDefined(D, Nat, m, G) BY <1>2, <1>3, <2>1 DEF WellDefined
  <2> HIDE DEF D, m, G
  <2> QED BY <2>2, RecursionExists, Zenon
<1>5. f \in [D -> Nat] /\ f = [to \in D |-> Step(to, f)] BY <1>4 DEF Solves
<1>6. size_for_order(o) = [to \in D |-> Step(to, size_for_order(o))] BY <1>5, Zenon DEF size_for_order
<1> DEFINE S == size_for_order(o)
           P == {k \in Nat : k <= o => S[o - k] \in Nat}
<1>7. \A to \in D : S[to] = Step(to, S) BY <1>6, Zenon
<1>8. P = Nat
  <2> HIDE DEF S
  <2>1. 0 \in P
    <3>1. o \in D /\ o - 0 = o OBVIOUS
    <3>2. S[o] = 0 BY <1>7, <3>1
    <3> QED BY <3>1, <3>2
  <2>2. ASSUME NEW k \in P PROVE k + 1 \in P
    <3> SUFFICES ASSUME k + 1 <= o PROVE S[o - (k + 1)] \in Nat BY <2>2
    <3>1. PICK to \in D : to = o - (k + 1) /\ to # o /\ to + 1 = o - k BY <2>2
    <3>2. S[to] = S[to + 1] + (to + 1) * pow2[o - (to + 1)] BY <1>7, <3>1
    <3>3. S[to + 1] \in Nat BY <2>2, <3>1
    <3>4. (to + 1) * pow2[o - (to + 1)] \in Nat BY <1>1, <3>1
    <3> QED BY <3>1, <3>2, <3>3, <3>4
  <2>3. P \in SUBSET Nat OBVIOUS
  <2> HIDE DEF P
  <2> QED BY <2>1, <2>2, <2>3, NumbersUpwards
<1>9. ASSUME NEW to \in D PROVE S[to] \in Nat
  <2> HIDE DEF S
  <2>1. o - to \in Nat /\ o - to <= o /\ o - (o - to) = to OBVIOUS
  <2>2. \A k \in Nat : k <= o => S[o - k] \in Nat BY <1>8
  <2> QED BY <2>1, <2>2
<1> QED BY <1>7, <1>9

\* A row of higher positions ends before the rows of lower ones begin.
LEMMA RowsDescend ==
    ASSUME NEW o \in Nat, NEW a \in 0 .. o, NEW b \in 0 .. o, a <= b
    PROVE  size_for_order(o)[b] <= size_for_order(o)[a]
<1> DEFINE S == size_for_order(o)
           P == {k \in Nat : a + k <= o => S[a + k] <= S[a]}
<1>1. \A to \in 0 .. o : S[to] \in Nat BY SizesUnfold
<1>2. \A to \in 0 .. o : to # o => S[to] = S[to + 1] + (to + 1) * pow2[o - (to + 1)]
  BY SizesUnfold
<1> HIDE DEF S
<1>3. P = Nat
  <2>1. 0 \in P BY <1>1
  <2>2. ASSUME NEW k \in P PROVE k + 1 \in P
    <3> SUFFICES ASSUME a + (k + 1) <= o PROVE S[a + (k + 1)] <= S[a] BY <2>2
    <3>1. PICK to \in 0 .. o : to = a + k /\ to # o /\ to + 1 = a + (k + 1) BY <2>2
    <3>2. o - (to + 1) \in Nat /\ to + 1 \in Nat /\ to + 1 \in 0 .. o BY <2>2, <3>1
    <3>3. PICK p \in Nat : p = (to + 1) * pow2[o - (to + 1)]
      <4>1. pow2[o - (to + 1)] \in Nat BY <3>2, PowerIs
      <4> QED BY <3>2, <4>1
    <3>4. S[to] = S[to + 1] + p BY <1>2, <3>1, <3>3
    <3>5. S[to] <= S[a] BY <2>2, <3>1
    <3> QED BY <1>1, <3>1, <3>2, <3>4, <3>5
  <2>3. P \in SUBSET Nat OBVIOUS
  <2> HIDE DEF P
  <2> QED BY <2>1, <2>2, <2>3, NumbersUpwards
<1>4. b - a \in Nat /\ a + (b - a) = b /\ b <= o OBVIOUS
<1>5. S[b] <= S[a]
  <2>1. \A k \in Nat : a + k <= o => S[a + k] <= S[a] BY <1>3
  <2>2. a + (b - a) <= o => S[a + (b - a)] <= S[a] BY <1>4, <2>1
  <2> QED BY <1>4, <2>2
<1> QED BY <1>5 DEF S

\* A status has h bits from at on.
LEMMA FieldIs ==
    ASSUME NEW o \in 1 .. MaxOrder, NEW pos \in Positions(o), NEW d, d = Depth[pos]
    PROVE  /\ o \in Nat /\ d \in Nat /\ 1 <= d /\ d <= o /\ pos \in Nat
           /\ pos - pow2[d - 1] \in Nat /\ pos - pow2[d - 1] < pow2[d - 1]
           /\ internal_position[o][pos].local_offset = o - d + 1
           /\ internal_position[o][pos].at =
                size_for_order(o)[o - d + 1] + (o - d + 1) * (pos - pow2[d - 1])
<1>1. InRow(pos, d) /\ d <= o BY DepthIs
<1>2. o \in Nat /\ pos \in Nat /\ d \in Nat /\ 1 <= d BY <1>1, PositionIs, OrderAssumption DEF InRow
<1>3. d - 1 \in Nat /\ (d - 1) + 1 = d BY <1>2
<1>4. pow2[d] = 2 * pow2[d - 1] /\ pow2[d - 1] \in Nat BY <1>3, PowerIs
<1>5. pos - pow2[d - 1] \in Nat /\ pos - pow2[d - 1] < pow2[d - 1] BY <1>1, <1>2, <1>4 DEF InRow
<1>6. internal_position[o][pos] =
        [local_offset |-> o - d + 1,
         at |-> SizeForOrder[o][o - d + 1] + (o - d + 1) * tree_index(pos)]
  BY Zenon DEF internal_position
<1>7. SizeForOrder[o] = size_for_order(o) BY Zenon DEF SizeForOrder
<1>8. tree_index(pos) = pos - pow2[d - 1] BY Zenon DEF tree_index
<1> QED BY <1>1, <1>2, <1>5, <1>6, <1>7, <1>8

\* Where a status lies in its row.
LEMMA FieldInRow ==
    ASSUME NEW o \in 1 .. MaxOrder, NEW pos \in Positions(o), NEW h,
           h = internal_position[o][pos].local_offset
    PROVE  /\ o \in Nat /\ h \in 1 .. o /\ internal_position[o][pos].at \in Nat
           /\ size_for_order(o)[h] <= internal_position[o][pos].at
           /\ internal_position[o][pos].at + h <= size_for_order(o)[h - 1]
<1>1. PICK d : d = Depth[pos] OBVIOUS
<1>2. /\ o \in Nat /\ d \in Nat /\ 1 <= d /\ d <= o
      /\ pos - pow2[d - 1] \in Nat /\ pos - pow2[d - 1] < pow2[d - 1]
      /\ h = o - d + 1
      /\ internal_position[o][pos].at =
           size_for_order(o)[o - d + 1] + (o - d + 1) * (pos - pow2[d - 1])
  BY <1>1, FieldIs
<1>3. PICK i \in Nat : i = pos - pow2[d - 1] BY <1>2
<1>4. h \in 1 .. o /\ h \in Nat /\ h - 1 \in 0 .. o /\ h \in 0 .. o /\ h - 1 # o /\ (h - 1) + 1 = h /\ o - h = d - 1
  BY <1>2
<1>5. PICK p \in Nat : p = pow2[d - 1] /\ i + 1 <= p
  <2>1. d - 1 \in Nat BY <1>2
  <2>2. pow2[d - 1] \in Nat BY <2>1, PowerIs
  <2> QED BY <1>2, <1>3, <2>2
<1>6. PICK s \in Nat : s = size_for_order(o)[h] BY <1>2, <1>4, SizesUnfold
<1>7. size_for_order(o)[h - 1] = s + h * p
  <2>1. size_for_order(o)[h - 1] = size_for_order(o)[(h - 1) + 1] + ((h - 1) + 1) * pow2[o - ((h - 1) + 1)]
    BY <1>2, <1>4, SizesUnfold
  <2> QED BY <1>4, <1>5, <1>6, <2>1
<1>8. internal_position[o][pos].at = s + h * i BY <1>2, <1>3, <1>6
<1>9. h * (i + 1) <= h * p BY <1>4, <1>5, TimesMonotone
<1>10. h * (i + 1) = h * i + h BY <1>4, TimesSuccessor
<1>11. h * i \in Nat /\ h * p \in Nat BY <1>4
<1> QED BY <1>2, <1>4, <1>6, <1>7, <1>8, <1>9, <1>10, <1>11

LEMMA FieldsApart ==
    ASSUME NEW o \in 1 .. MaxOrder, NEW pos \in Positions(o), NEW q \in Positions(o), pos # q,
           NEW x, x = internal_position[o][pos], NEW y, y = internal_position[o][q]
    PROVE  x.at + x.local_offset <= y.at \/ y.at + y.local_offset <= x.at
<1>1. PICK d, e : d = Depth[pos] /\ e = Depth[q] OBVIOUS
<1>2. PICK h, g : h = x.local_offset /\ g = y.local_offset OBVIOUS
<1>3. /\ o \in Nat /\ h \in 1 .. o /\ x.at \in Nat
      /\ size_for_order(o)[h] <= x.at /\ x.at + h <= size_for_order(o)[h - 1]
  BY <1>2, FieldInRow
<1>4. /\ g \in 1 .. o /\ y.at \in Nat
      /\ size_for_order(o)[g] <= y.at /\ y.at + g <= size_for_order(o)[g - 1]
  BY <1>2, FieldInRow
<1>5. CASE h < g
  <2>1. h \in 0 .. o /\ g - 1 \in 0 .. o /\ h <= g - 1 BY <1>3, <1>4, <1>5
  <2>2. size_for_order(o)[g - 1] <= size_for_order(o)[h] BY <1>3, <2>1, RowsDescend
  <2>3. size_for_order(o)[g - 1] \in Nat /\ size_for_order(o)[h] \in Nat BY <1>3, <2>1, SizesUnfold
  <2> QED BY <1>2, <1>3, <1>4, <2>2, <2>3
<1>6. CASE g < h
  <2>1. g \in 0 .. o /\ h - 1 \in 0 .. o /\ g <= h - 1 BY <1>3, <1>4, <1>6
  <2>2. size_for_order(o)[h - 1] <= size_for_order(o)[g] BY <1>3, <2>1, RowsDescend
  <2>3. size_for_order(o)[h - 1] \in Nat /\ size_for_order(o)[g] \in Nat BY <1>3, <2>1, SizesUnfold
  <2> QED BY <1>2, <1>3, <1>4, <2>2, <2>3
<1>7. CASE h = g
  <2>1. /\ d \in Nat /\ 1 <= d /\ d <= o /\ pos \in Nat /\ pos - pow2[d - 1] \in Nat
        /\ h = o - d + 1 /\ x.at = size_for_order(o)[o - d + 1] + (o - d + 1) * (pos - pow2[d - 1])
    BY <1>1, <1>2, FieldIs
  <2>2. /\ e \in Nat /\ 1 <= e /\ e <= o /\ q \in Nat /\ q - pow2[e - 1] \in Nat
        /\ g = o - e + 1 /\ y.at = size_for_order(o)[o - e + 1] + (o - e + 1) * (q - pow2[e - 1])
    BY <1>1, <1>2, FieldIs
  <2>3. d = e
    <3>1. o \in Nat /\ d \in Nat /\ e \in Nat /\ o - d + 1 = o - e + 1 BY <1>3, <1>7, <2>1, <2>2, Zenon
    <3> QED BY <3>1
  <2>4. PICK i \in Nat, j \in Nat : i = pos - pow2[d - 1] /\ j = q - pow2[d - 1] BY <2>1, <2>2, <2>3
  <2>5. i # j
    <3>1. d - 1 \in Nat BY <2>1
    <3>2. pow2[d - 1] \in Nat BY <3>1, PowerIs
    <3> QED BY <2>1, <2>2, <2>4, <3>2
  <2>6. PICK s \in Nat : s = size_for_order(o)[h]
    <3>1. h \in 0 .. o BY <1>3
    <3> QED BY <1>3, <3>1, SizesUnfold
  <2>7. h \in Nat /\ x.at = s + h * i /\ y.at = s + h * j BY <1>3, <2>1, <2>2, <2>3, <2>4, <2>6
  <2>8. h * (i + 1) = h * i + h /\ h * (j + 1) = h * j + h BY <2>7, SMT
  <2>9. CASE i < j
    <3>1. h * (i + 1) <= h * j BY <2>7, <2>9, TimesMonotone
    <3>2. h * i \in Nat /\ h * j \in Nat BY <2>7
    <3> QED BY <1>2, <2>7, <2>8, <3>1, <3>2
  <2>10. CASE j < i
    <3>1. h * (j + 1) <= h * i BY <2>7, <2>10, TimesMonotone
    <3>2. h * i \in Nat /\ h * j \in Nat BY <2>7
    <3> QED BY <1>2, <1>7, <2>7, <2>8, <3>1, <3>2
  <2> QED BY <2>5, <2>9, <2>10
<1> QED BY <1>3, <1>4, <1>5, <1>6, <1>7

LEMMA ReadInField ==
    ASSUME NEW bits, NEW x, x.at \in Nat, x.local_offset \in Nat
    PROVE  read_from(bits, x) \in 0 .. x.local_offset
<1>1. PICK a \in Nat, h \in Nat : a = x.at /\ h = x.local_offset OBVIOUS
<1> DEFINE I == a .. a + h - 1
<1>2. IsFiniteSet(I) /\ Cardinality(I) = h
  <2>1. a \in Int /\ a + h - 1 \in Int OBVIOUS
  <2>2. IsFiniteSet(I) /\ Cardinality(I) = IF a > a + h - 1 THEN 0 ELSE (a + h - 1) - a + 1
    BY <2>1, FS_Interval
  <2> QED BY <2>2
<1>3. bits \cap I \in SUBSET I OBVIOUS
<1> HIDE DEF I
<1>4. Cardinality(bits \cap I) <= h /\ IsFiniteSet(bits \cap I) BY <1>2, <1>3, FS_Subset
<1>5. Cardinality(bits \cap I) \in Nat BY <1>4, FS_CardinalityType
<1>6. read_from(bits, x) = 0 \/ read_from(bits, x) = Cardinality(bits \cap I)
  BY <1>1, Zenon DEF read_from, bitset_count_range, I
<1> QED BY <1>1, <1>4, <1>5, <1>6

\* A status is read back as it was written, although writing 0 clears one bit only.
LEMMA WrittenReadsBack ==
    ASSUME NEW bits, NEW x, x.at \in Nat, x.local_offset \in Nat, x.local_offset >= 1,
           NEW value \in 0 .. x.local_offset
    PROVE  read_from(write_to(bits, x, value), x) = value
<1>1. PICK a \in Nat, h \in Nat : a = x.at /\ h = x.local_offset OBVIOUS
<1>2. PICK w : w = write_to(bits, x, value) OBVIOUS
<1>3. CASE value = 0
  <2>1. a \notin w BY <1>1, <1>2, <1>3 DEF write_to
  <2> QED BY <1>1, <1>2, <1>3, <2>1 DEF read_from
<1>4. CASE value # 0
  <2> DEFINE I == a .. a + h - 1
             V == a .. a + value - 1
  <2>1. w = (bits \ I) \cup V
    BY <1>1, <1>2, <1>4, Zenon DEF write_to, bitset_set_range, bitset_clear_range
  <2>2. value \in Nat /\ value >= 1 /\ value <= h BY <1>1, <1>4
  <2>3. V \subseteq I /\ a \in V BY <2>2
  <2>4. IsFiniteSet(V) /\ Cardinality(V) = value
    <3>1. a \in Int /\ a + value - 1 \in Int BY <2>2
    <3>2. IsFiniteSet(V) /\ Cardinality(V) = IF a > a + value - 1 THEN 0 ELSE (a + value - 1) - a + 1
      BY <3>1, FS_Interval
    <3> QED BY <2>2, <3>2
  <2> HIDE DEF I, V
  <2>5. w \cap I = V /\ a \in w BY <2>1, <2>3
  <2>6. read_from(w, x) = Cardinality(w \cap I)
    BY <1>1, <2>5, Zenon DEF read_from, bitset_count_range, I
  <2> QED BY <1>2, <2>4, <2>5, <2>6
<1> QED BY <1>3, <1>4

LEMMA OtherFieldsKept ==
    ASSUME NEW bits, NEW x, x.at \in Nat, x.local_offset \in Nat, x.local_offset >= 1,
           NEW value \in 0 .. x.local_offset,
           NEW y, y.at \in Nat, y.local_offset \in Nat, y.local_offset >= 1,
           x.at + x.local_offset <= y.at \/ y.at + y.local_offset <= x.at
    PROVE  read_from(write_to(bits, x, value), y) = read_from(bits, y)
<1>1. PICK a \in Nat, h \in Nat : a = x.at /\ h = x.local_offset OBVIOUS
<1>2. PICK b \in Nat, g \in Nat : b = y.at /\ g = y.local_offset /\ g >= 1 OBVIOUS
<1>3. PICK w : w = write_to(bits, x, value) OBVIOUS
<1> DEFINE I == a .. a + h - 1
           J == b .. b + g - 1
<1>4. I \cap J = {} /\ b \in J BY <1>1, <1>2
<1>5. w \cap J = bits \cap J
  <2>1. CASE value = 0
    <3>1. w = bits \ {a} /\ a \in I BY <1>1, <1>3, <2>1 DEF write_to
    <3> HIDE DEF I, J
    <3> QED BY <1>4, <3>1
  <2>2. CASE value # 0
    <3> DEFINE V == a .. a + value - 1
    <3>1. w = (bits \ I) \cup V
      BY <1>1, <1>3, <2>2, Zenon DEF write_to, bitset_set_range, bitset_clear_range
    <3>2. V \subseteq I BY <1>1
    <3> HIDE DEF I, J, V
    <3> QED BY <1>4, <3>1, <3>2
  <2> QED BY <2>1, <2>2
<1>6. b \in w <=> b \in bits
  <2> HIDE DEF I, J
  <2> QED BY <1>4, <1>5
<1>7. bitset_count_range(w, b, b + g - 1) = bitset_count_range(bits, b, b + g - 1)
  BY <1>5, Zenon DEF bitset_count_range
<1>8. read_from(w, y) = read_from(bits, y) BY <1>2, <1>6, <1>7, Zenon DEF read_from
<1> QED BY <1>3, <1>8

LEMMA WriteInNat ==
    ASSUME NEW bits \in SUBSET Nat, NEW x, x.at \in Nat, x.local_offset \in Nat,
           NEW value \in 0 .. x.local_offset
    PROVE  write_to(bits, x, value) \in SUBSET Nat
<1>1. PICK a \in Nat, h \in Nat : a = x.at /\ h = x.local_offset OBVIOUS
<1>2. PICK w : w = write_to(bits, x, value) OBVIOUS
<1>3. w = bits \ {a} \/ w = (bits \ (a .. a + h - 1)) \cup (a .. a + value - 1)
  BY <1>1, <1>2, Zenon DEF write_to, bitset_set_range, bitset_clear_range
<1>4. (a .. a + value - 1) \in SUBSET Nat OBVIOUS
<1> QED BY <1>2, <1>3, <1>4

\* The packed statuses are as good as an array of numbers: for a tree of any order,
\* a status that is written is the one read afterwards, and no other status changes.
\* Each takes as many bits as its position is high, writing 0 clears only the first
\* of them and reading counts them, so one overlap of two statuses or one leftover
\* bit would show here.
THEOREM StatusWrites ==
    ASSUME NEW t \in Trees, NEW pos \in Positions(t.order), NEW value \in 0 .. local_offset(t, pos)
    PROVE  /\ SetStatus(t, pos, value) \in Trees
           /\ SetStatus(t, pos, value).order = t.order
           /\ tree_status(SetStatus(t, pos, value), pos) = value
           /\ \A q \in Positions(t.order) : q # pos =>
                tree_status(SetStatus(t, pos, value), q) = tree_status(t, q)
<1>1. PICK o : o = t.order OBVIOUS
<1>2. o \in 1 .. MaxOrder /\ t.bits \in SUBSET Nat BY <1>1 DEF Trees
<1>3. PICK x : x = internal_position[o][pos] OBVIOUS
<1>4. x.at \in Nat /\ x.local_offset \in Nat /\ x.local_offset >= 1 BY <1>1, <1>2, <1>3, FieldInRow
<1>5. value \in 0 .. x.local_offset BY <1>1, <1>3 DEF local_offset
<1>6. PICK w : w = write_to(t.bits, x, value) OBVIOUS
<1>7. PICK n : n = SetStatus(t, pos, value) OBVIOUS
<1>8. n = [order |-> o, bits |-> w]
  BY <1>1, <1>3, <1>6, <1>7 DEF SetStatus, Trees
<1>9. w \in SUBSET Nat BY <1>2, <1>4, <1>5, <1>6, WriteInNat
<1>10. n \in Trees /\ n.order = o BY <1>2, <1>8, <1>9 DEF Trees
<1>11. tree_status(n, pos) = value
  <2>1. read_from(w, x) = value BY <1>4, <1>5, <1>6, WrittenReadsBack
  <2> QED BY <1>3, <1>8, <2>1 DEF tree_status
<1>12. ASSUME NEW q \in Positions(o), q # pos PROVE tree_status(n, q) = tree_status(t, q)
  <2>1. PICK y : y = internal_position[o][q] OBVIOUS
  <2>2. y.at \in Nat /\ y.local_offset \in Nat /\ y.local_offset >= 1 BY <1>2, <2>1, FieldInRow
  <2>3. x.at + x.local_offset <= y.at \/ y.at + y.local_offset <= x.at
    BY <1>1, <1>2, <1>3, <1>12, <2>1, FieldsApart
  <2>4. read_from(w, y) = read_from(t.bits, y)
    BY <1>4, <1>5, <1>6, <2>2, <2>3, OtherFieldsKept
  <2> QED BY <1>1, <1>8, <2>1, <2>4 DEF tree_status
<1> QED BY <1>1, <1>7, <1>10, <1>11, <1>12

-----------------------------------------------------------------------------
(* The shape of the tree *)

LEMMA StatusRange ==
    ASSUME NEW t \in Trees, NEW pos \in Positions(t.order)
    PROVE  /\ tree_status(t, pos) \in Nat /\ tree_status(t, pos) <= local_offset(t, pos)
           /\ local_offset(t, pos) = t.order - Depth[pos] + 1
           /\ local_offset(t, pos) \in Nat /\ local_offset(t, pos) >= 1
           /\ t.order \in Nat /\ t.order \in 1 .. MaxOrder
<1>1. PICK o : o = t.order OBVIOUS
<1>2. o \in 1 .. MaxOrder BY <1>1 DEF Trees
<1>3. PICK x : x = internal_position[o][pos] OBVIOUS
<1>4. x.at \in Nat /\ x.local_offset \in Nat /\ x.local_offset >= 1 /\ o \in Nat
  BY <1>1, <1>2, <1>3, FieldInRow
<1>5. read_from(t.bits, x) \in 0 .. x.local_offset BY <1>4, ReadInField
<1>6. x.local_offset = o - Depth[pos] + 1 BY <1>1, <1>2, <1>3, FieldIs
<1>7. tree_status(t, pos) = read_from(t.bits, x) /\ local_offset(t, pos) = x.local_offset
  BY <1>1, <1>3 DEF tree_status, local_offset
<1> QED BY <1>1, <1>2, <1>4, <1>5, <1>6, <1>7

LEMMA RootIs ==
    ASSUME NEW o \in 1 .. MaxOrder
    PROVE  1 \in Positions(o) /\ Depth[1] = 1
<1>1. o \in Nat /\ 1 <= o BY OrderAssumption
<1>2. pow2[1] <= pow2[o] /\ pow2[o] \in Nat BY <1>1, PowerGrows, PowerIs
<1>3. 1 \in Positions(o) BY <1>2, PowerTable DEF Positions
<1>4. InRow(1, 1) BY PowerIs, PowerTable DEF InRow
<1>5. InRow(1, Depth[1]) BY <1>3, DepthIs
<1> QED BY <1>3, <1>4, <1>5, RowUnique

\* The two positions below one that is not in the deepest row.
LEMMA ChildrenAre ==
    ASSUME NEW o \in 1 .. MaxOrder, NEW pos \in Positions(o), NEW c \in {2 * pos, 2 * pos + 1}
    PROVE  /\ c \in Positions(o) <=> Depth[pos] < o
           /\ c \in Positions(o) => Depth[c] = Depth[pos] + 1
<1>1. PICK d : d = Depth[pos] OBVIOUS
<1>2. InRow(pos, d) /\ d <= o /\ o \in Nat /\ pos \in Nat BY <1>1, DepthIs, PositionIs, OrderAssumption
<1>3. /\ d \in Nat /\ d >= 1 /\ d - 1 \in Nat /\ (d - 1) + 1 = d /\ (d + 1) - 1 = d /\ d + 1 \in Nat
      /\ pow2[d - 1] <= pos /\ pos < pow2[d]
  BY <1>2 DEF InRow
<1>4. /\ pow2[d] = 2 * pow2[d - 1] /\ pow2[d + 1] = 2 * pow2[d]
      /\ pow2[d - 1] \in Nat /\ pow2[o] \in Nat
  BY <1>2, <1>3, PowerIs
<1>5. c \in Nat /\ pow2[d] <= c /\ c < pow2[d + 1] BY <1>2, <1>3, <1>4
<1>6. InRow(c, d + 1) BY <1>3, <1>5 DEF InRow
<1>7. ASSUME c \in Positions(o) PROVE Depth[c] = d + 1 /\ d < o
  <2>1. InRow(c, Depth[c]) /\ Depth[c] <= o BY <1>7, DepthIs
  <2>2. Depth[c] = d + 1 BY <1>5, <1>6, <2>1, RowUnique
  <2> QED BY <1>2, <1>3, <2>1, <2>2
<1>8. ASSUME d < o PROVE c \in Positions(o)
  <2>1. d + 1 <= o BY <1>2, <1>3, <1>8
  <2>2. pow2[d + 1] <= pow2[o] BY <1>2, <1>3, <2>1, PowerGrows
  <2>3. c >= 1 /\ c < pow2[o] BY <1>4, <1>5, <2>2, <1>3, PowerIs
  <2> QED BY <1>4, <1>5, <2>3 DEF Positions
<1> QED BY <1>1, <1>7, <1>8

LEMMA HalfIs ==
    ASSUME NEW pos \in Nat
    PROVE  /\ pos \div 2 \in Nat
           /\ (pos = 2 * (pos \div 2) /\ (pos % 2) = 0) \/ (pos = 2 * (pos \div 2) + 1 /\ (pos % 2) = 1)
OBVIOUS

LEMMA ParentIs ==
    ASSUME NEW o \in 1 .. MaxOrder, NEW pos \in Positions(o), pos # 1
    PROVE  /\ parent(pos) \in Positions(o) /\ parent(pos) < pos
           /\ sibling(pos) \in Positions(o) /\ sibling(pos) # pos
           /\ \/ pos = left_child(parent(pos)) /\ sibling(pos) = right_child(parent(pos))
              \/ pos = right_child(parent(pos)) /\ sibling(pos) = left_child(parent(pos))
           /\ Depth[pos] = Depth[parent(pos)] + 1 /\ Depth[sibling(pos)] = Depth[pos]
           /\ Depth[parent(pos)] < o
<1>1. pos \in Nat /\ pos >= 1 /\ pos < pow2[o] BY PositionIs
<1>2. PICK p \in Nat : p = pos \div 2 /\
        ((pos = 2 * p /\ (pos % 2) = 0) \/ (pos = 2 * p + 1 /\ (pos % 2) = 1))
  BY <1>1, HalfIs
<1>3. p >= 1 /\ p < pos BY <1>1, <1>2
<1>4. p \in Positions(o)
  <2>1. o \in Nat BY OrderAssumption
  <2>2. pow2[o] \in Nat BY <2>1, PowerIs
  <2> QED BY <1>1, <1>3, <2>2 DEF Positions
<1>5. pos \in {2 * p, 2 * p + 1} BY <1>2
<1>6. Depth[p] < o /\ Depth[pos] = Depth[p] + 1 BY <1>4, <1>5, ChildrenAre
<1>7. sibling(pos) = IF pos = 2 * p THEN 2 * p + 1 ELSE 2 * p BY <1>1, <1>2 DEF sibling
<1>8. sibling(pos) \in {2 * p, 2 * p + 1} BY <1>7
<1>9. sibling(pos) \in Positions(o) /\ Depth[sibling(pos)] = Depth[p] + 1 BY <1>4, <1>6, <1>8, ChildrenAre
<1>10. sibling(pos) # pos BY <1>2, <1>7
<1>11. parent(pos) = p BY <1>2 DEF parent
<1> QED BY <1>2, <1>3, <1>4, <1>6, <1>7, <1>9, <1>10, <1>11 DEF left_child, right_child

-----------------------------------------------------------------------------
(* Positions above others *)

\* p is above pos when pos is one of the positions below p.
Above(p, pos) == \E k \in Nat : k >= 1 /\ p = pos \div pow2[k]

LEMMA HalfTwice ==
    ASSUME NEW pos \in Nat, NEW k \in Nat
    PROVE  (pos \div 2) \div pow2[k] = pos \div pow2[k + 1]
<1>1. PICK p \in Nat, r \in Nat : p = pow2[k] /\ p >= 1 /\ r = pow2[k + 1] /\ r = 2 * p BY PowerIs
<1>2. PICK h \in Nat : h = pos \div 2 /\ 2 * h <= pos /\ pos <= 2 * h + 1 BY HalfIs
<1>3. PICK x \in Nat : x = h \div p BY <1>1, Quotient
<1>4. p * x <= h /\ h + 1 <= p * (x + 1) BY <1>1, <1>3, Quotient, Zenon
<1>5. r >= 1 BY <1>1
<1>6. PICK y \in Nat : y = pos \div r BY <1>5, Quotient
<1>7. r * y <= pos /\ pos + 1 <= r * (y + 1) BY <1>5, <1>6, Quotient, Zenon
<1>8. 2 * (p * x) = r * x /\ 2 * (p * (x + 1)) = r * (x + 1)
  BY <1>1, TimesSum
<1>9. r * x \in Int /\ r * y \in Int /\ r * (x + 1) \in Int /\ r * (y + 1) \in Int
      /\ p * x \in Int /\ p * (x + 1) \in Int OBVIOUS
<1>10. r * x < r * (y + 1) /\ r * y < r * (x + 1) BY <1>2, <1>4, <1>7, <1>8, <1>9
<1>11. x < y + 1 /\ y < x + 1 BY <1>10, TimesStrict
<1>12. x = y BY <1>11
<1> QED BY <1>1, <1>2, <1>3, <1>6, <1>12

LEMMA AboveIs ==
    ASSUME NEW pos \in Nat, NEW p
    PROVE  Above(p, pos) <=> p = parent(pos) \/ Above(p, parent(pos))
<1>1. pos \div 2 = parent(pos) /\ pos \div 2 \in Nat BY HalfIs DEF parent
<1>2. pos \div pow2[1] = pos \div 2 BY PowerTable
<1>3. ASSUME p = parent(pos) PROVE Above(p, pos)
  <2>1. 1 \in Nat /\ 1 >= 1 OBVIOUS
  <2> QED BY <1>1, <1>2, <1>3, <2>1 DEF Above
<1>4. ASSUME Above(p, parent(pos)) PROVE Above(p, pos)
  <2>1. PICK k \in Nat : k >= 1 /\ p = parent(pos) \div pow2[k] BY <1>4 DEF Above
  <2>2. p = pos \div pow2[k + 1] BY <1>1, <2>1, HalfTwice
  <2>3. k + 1 \in Nat /\ k + 1 >= 1 BY <2>1
  <2> QED BY <2>2, <2>3 DEF Above
<1>5. ASSUME Above(p, pos) PROVE p = parent(pos) \/ Above(p, parent(pos))
  <2>1. PICK k \in Nat : k >= 1 /\ p = pos \div pow2[k] BY <1>5 DEF Above
  <2>2. CASE k = 1 BY <1>1, <1>2, <2>1, <2>2
  <2>3. CASE k # 1
    <3>1. k - 1 \in Nat /\ k - 1 >= 1 /\ (k - 1) + 1 = k BY <2>1, <2>3
    <3>2. (pos \div 2) \div pow2[k - 1] = pos \div pow2[(k - 1) + 1] BY <3>1, HalfTwice
    <3>3. p = parent(pos) \div pow2[k - 1] BY <1>1, <2>1, <3>1, <3>2
    <3> QED BY <3>1, <3>3 DEF Above
  <2> QED BY <2>2, <2>3
<1> QED BY <1>3, <1>4, <1>5

LEMMA AboveLess ==
    ASSUME NEW pos \in Nat, NEW p, Above(p, pos)
    PROVE  p \in Nat /\ (pos >= 1 => p < pos) /\ (pos <= 1 => p = 0)
<1>1. PICK k \in Nat : k >= 1 /\ p = pos \div pow2[k] BY DEF Above
<1>2. k - 1 \in Nat /\ (k - 1) + 1 = k BY <1>1
<1>3. PICK c \in Nat : c = pow2[k] /\ c >= 2
  <2>1. pow2[k] = 2 * pow2[k - 1] /\ pow2[k - 1] \in Nat /\ pow2[k - 1] >= 1 BY <1>2, PowerIs
  <2> QED BY <2>1
<1>4. c >= 1 BY <1>3
<1>5. p \in Nat /\ c * p <= pos BY <1>1, <1>3, <1>4, Quotient, Zenon
<1>6. 2 * p <= c * p BY <1>3, <1>5, SMT
<1>7. c * p \in Int BY <1>5
<1> QED BY <1>5, <1>6, <1>7

LEMMA AboveInTree ==
    ASSUME NEW o \in 1 .. MaxOrder, NEW pos \in Positions(o), NEW p, Above(p, pos), p # 0
    PROVE  p \in Positions(o) /\ p < pos /\ pos # 1
<1>1. pos \in Nat /\ pos >= 1 /\ pos < pow2[o] BY PositionIs
<1>2. p \in Nat /\ p < pos /\ (pos <= 1 => p = 0) BY <1>1, AboveLess
<1>3. o \in Nat BY OrderAssumption
<1>4. pow2[o] \in Nat BY <1>3, PowerIs
<1> QED BY <1>1, <1>2, <1>4 DEF Positions

-----------------------------------------------------------------------------
(* Marking and releasing *)

LEMMA MinTwo ==
    ASSUME NEW l \in Nat, NEW r \in Nat
    PROVE  Min({l, r}) = IF l <= r THEN l ELSE r
<1> DEFINE S == {l, r}
<1>1. S \in SUBSET Int /\ S # {} /\ 0 \in Int /\ \A x \in S : 0 <= x OBVIOUS
<1>2. Min(S) \in S /\ \A y \in S : Min(S) <= y BY <1>1, MinOf
<1> HIDE DEF Min
<1> QED BY <1>2

LEMMA TargetIs ==
    ASSUME NEW l \in Nat, NEW r \in Nat
    PROVE  /\ TargetParent(l, r) \in Nat
           /\ TargetParent(l, r) = TargetParent(r, l)
           /\ TargetParent(l, r) = IF l = 0 /\ r = 0 THEN 0 ELSE IF l <= r THEN l + 1 ELSE r + 1
<1>1. Min({l, r}) = IF l <= r THEN l ELSE r BY MinTwo
<1>2. Min({r, l}) = IF r <= l THEN r ELSE l BY MinTwo
<1>3. TargetParent(l, r) = IF l = 0 /\ r = 0 THEN 0 ELSE IF l <= r THEN l + 1 ELSE r + 1
  BY <1>1 DEF TargetParent
<1>4. TargetParent(r, l) = IF r = 0 /\ l = 0 THEN 0 ELSE IF r <= l THEN r + 1 ELSE l + 1
  BY <1>2 DEF TargetParent
<1> QED BY <1>3, <1>4

\* The status of a position is the one its children ask for.
Settled(t, p) ==
    tree_status(t, p) = TargetParent(tree_status(t, left_child(p)), tree_status(t, right_child(p)))

\* A position that was marked: full, with nothing below it.
InUse(t, p) ==
    /\ tree_status(t, p) = local_offset(t, p)
    /\ Depth[p] < t.order => tree_status(t, left_child(p)) = 0 /\ tree_status(t, right_child(p)) = 0

\* Every position is in use, or settled, or free in the deepest row.
Sound(t) ==
    /\ t \in Trees
    /\ \A p \in Positions(t.order) : Depth[p] < t.order => Settled(t, p) \/ InUse(t, p)

LEMMA TargetFits ==
    ASSUME NEW t \in Trees, NEW pos \in Positions(t.order), pos # 1, NEW cur \in Nat
    PROVE  /\ parent(pos) \in Positions(t.order)
           /\ TargetParent(cur, tree_status(t, sibling(pos))) \in 0 .. local_offset(t, parent(pos))
<1>1. t.order \in 1 .. MaxOrder BY DEF Trees
<1>2. PICK p, q : p = parent(pos) /\ q = sibling(pos) OBVIOUS
<1>3. /\ p \in Positions(t.order) /\ q \in Positions(t.order)
      /\ Depth[pos] = Depth[p] + 1 /\ Depth[q] = Depth[pos]
  BY <1>1, <1>2, ParentIs
<1>4. /\ tree_status(t, q) \in Nat /\ tree_status(t, q) <= local_offset(t, q)
      /\ local_offset(t, q) = t.order - Depth[q] + 1 /\ t.order \in Nat
  BY <1>3, StatusRange
<1>5. local_offset(t, p) = t.order - Depth[p] + 1 BY <1>3, StatusRange
<1>6. Depth[p] \in Nat BY <1>1, <1>3, DepthIs DEF InRow
<1>7. PICK s \in Nat : s = tree_status(t, q) /\ s + 1 <= local_offset(t, p)
  <2>1. PICK d \in Nat, o \in Nat, s \in Nat : d = Depth[p] /\ o = t.order /\ s = tree_status(t, q)
    BY <1>4, <1>6
  <2>2. s <= o - (d + 1) + 1 BY <1>3, <1>4, <2>1
  <2>3. local_offset(t, p) = o - d + 1 BY <1>5, <2>1
  <2> QED BY <2>1, <2>2, <2>3
<1>8. local_offset(t, p) \in Nat BY <1>3, StatusRange
<1>9. TargetParent(cur, s) \in Nat /\ TargetParent(cur, s) <= s + 1
  <2>1. TargetParent(cur, s) = IF cur = 0 /\ s = 0 THEN 0 ELSE IF cur <= s THEN cur + 1 ELSE s + 1
    BY TargetIs, Zenon
  <2> QED BY <2>1
<1> QED BY <1>2, <1>3, <1>7, <1>8, <1>9

LEMMA ChainUnfolds ==
    ASSUME NEW t \in Trees, NEW pos \in Positions(t.order), NEW cur \in Nat
    PROVE  update_parent_chain[<<t, pos, cur>>] =
             LET target == TargetParent(cur, tree_status(t, sibling(pos)))
             IN  IF pos = 1 THEN t
                 ELSE IF target = tree_status(t, parent(pos)) THEN t
                 ELSE update_parent_chain[<<SetStatus(t, parent(pos), target), parent(pos), target>>]
<1> DEFINE Go(s) == TargetParent(s[3], tree_status(s[1], sibling(s[2])))
           On(s) == <<SetStatus(s[1], parent(s[2]), Go(s)), parent(s[2]), Go(s)>>
           Step(s, f) == IF s[2] = 1 THEN s[1]
                         ELSE IF Go(s) = tree_status(s[1], parent(s[2])) THEN s[1]
                         ELSE f[On(s)]
           m == [s \in Changes |-> s[2]]
           G == [s \in Changes |-> [f \in [Changes -> Trees] |-> Step(s, f)]]
<1>1. ASSUME NEW s \in Changes
      PROVE  s[1] \in Trees /\ s[2] \in Nat /\ s[3] \in Nat /\ s[2] \in Positions(s[1].order)
  BY DEF Changes, tree_valid
<1>2. ASSUME NEW a \in Trees, NEW b \in Nat, NEW c \in Nat, b \in Positions(a.order)
      PROVE  <<a, b, c>> \in Changes
  BY <1>2 DEF Changes, tree_valid
<1>3. ASSUME NEW s \in Changes, s[2] # 1
      PROVE  On(s) \in Changes /\ On(s)[2] < s[2]
  <2>1. s[1] \in Trees /\ s[2] \in Nat /\ s[3] \in Nat /\ s[2] \in Positions(s[1].order) BY <1>1
  <2>2. PICK a, b, c : a = s[1] /\ b = s[2] /\ c = s[3] OBVIOUS
  <2>3. PICK g : g = Go(s) OBVIOUS
  <2>4. parent(b) \in Positions(a.order) /\ g \in 0 .. local_offset(a, parent(b))
    BY <1>3, <2>1, <2>2, <2>3, TargetFits
  <2>5. SetStatus(a, parent(b), g) \in Trees /\ SetStatus(a, parent(b), g).order = a.order
    BY <2>1, <2>2, <2>4, StatusWrites
  <2>6. a.order \in 1 .. MaxOrder BY <2>1, <2>2 DEF Trees
  <2>7. parent(b) < b /\ parent(b) \in Nat BY <1>3, <2>1, <2>2, <2>4, <2>6, ParentIs, PositionIs
  <2>8. g \in Nat BY <2>1, <2>2, <2>4
  <2>9. On(s) = <<SetStatus(a, parent(b), g), parent(b), g>> BY <2>2, <2>3
  <2>10. <<SetStatus(a, parent(b), g), parent(b), g>> \in Changes BY <1>2, <2>4, <2>5, <2>7, <2>8
  <2> QED BY <2>2, <2>7, <2>9, <2>10
<1> HIDE DEF On, Go
<1>4. G \in [Changes -> [[Changes -> Trees] -> Trees]]
  <2> SUFFICES ASSUME NEW s \in Changes, NEW f \in [Changes -> Trees] PROVE Step(s, f) \in Trees OBVIOUS
  <2>1. s[1] \in Trees BY <1>1
  <2>2. s[2] # 1 => f[On(s)] \in Trees BY <1>3
  <2> QED BY <2>1, <2>2
<1>5. Descends(Changes, Trees, m, G)
  <2> SUFFICES ASSUME NEW s \in Changes, NEW f \in [Changes -> Trees], NEW g \in [Changes -> Trees],
                      \A j \in Changes : m[j] < m[s] => f[j] = g[j]
               PROVE  Step(s, f) = Step(s, g)
    BY DEF Descends
  <2>1. CASE s[2] = 1 BY <2>1
  <2>2. CASE s[2] # 1
    <3>1. On(s) \in Changes /\ m[On(s)] < m[s] BY <1>3, <2>2
    <3>2. f[On(s)] = g[On(s)] BY <3>1
    <3> QED BY <2>2, <3>2
  <2> QED BY <2>1, <2>2
<1>6. <<t, pos, cur>> \in Changes
  <2>1. t.order \in 1 .. MaxOrder BY DEF Trees
  <2>2. pos \in Nat BY <2>1, PositionIs
  <2> QED BY <1>2, <2>2
<1>7. PICK f : Solves(Changes, Trees, G, f)
  <2>1. Changes # {} /\ m \in [Changes -> Nat] BY <1>1, <1>6
  <2>2. WellDefined(Changes, Trees, m, G) BY <1>4, <1>5, <2>1 DEF WellDefined
  <2> HIDE DEF m, G
  <2> QED BY <2>2, RecursionExists, Zenon
<1>8. f \in [Changes -> Trees] /\ f = [s \in Changes |-> Step(s, f)] BY <1>7 DEF Solves
<1> DEFINE U(h) == h = [s \in Changes |-> Step(s, h)]
<1>9. update_parent_chain = CHOOSE h : U(h) BY Zenon DEF update_parent_chain, On, Go
<1>10. U(update_parent_chain) BY <1>8, <1>9, Zenon
<1>11. ASSUME NEW s \in Changes PROVE update_parent_chain[s] = Step(s, update_parent_chain) BY <1>10, Zenon
<1>12. update_parent_chain[<<t, pos, cur>>] = Step(<<t, pos, cur>>, update_parent_chain) BY <1>6, <1>11
<1> QED BY <1>12 DEF On, Go

\* The position above pos settles, then the ones above it as far as they change.
ChainDone(t, pos, r) ==
    /\ r \in Trees /\ r.order = t.order
    /\ \A p \in Positions(t.order) : Above(p, pos) => Settled(r, p)
    /\ \A q \in Positions(t.order) : ~Above(q, pos) => tree_status(r, q) = tree_status(t, q)

LEMMA ChainSettles ==
    ASSUME NEW t \in Trees, NEW pos \in Positions(t.order),
           \A p \in Positions(t.order) : Above(p, pos) /\ p # parent(pos) => Settled(t, p)
    PROVE  ChainDone(t, pos, update_parent_chain[<<t, pos, tree_status(t, pos)>>])
<1> DEFINE Ready(a, b) ==
             /\ a \in Trees /\ b \in Positions(a.order)
             /\ \A p \in Positions(a.order) : Above(p, b) /\ p # parent(b) => Settled(a, p)
           Result(a, b) == update_parent_chain[<<a, b, tree_status(a, b)>>]
           P == {n \in Nat : \A a, b : Ready(a, b) /\ b <= n => ChainDone(a, b, Result(a, b))}
<1>1. ASSUME NEW a, NEW b, Ready(a, b)
      PROVE  /\ a \in Trees /\ a.order \in 1 .. MaxOrder /\ b \in Positions(a.order)
             /\ b \in Nat /\ b >= 1 /\ tree_status(a, b) \in Nat
  <2>1. a.order \in 1 .. MaxOrder BY <1>1 DEF Trees
  <2> QED BY <1>1, <2>1, PositionIs, StatusRange
<1>2. ASSUME NEW a, NEW b, Ready(a, b), b = 1 PROVE ChainDone(a, b, Result(a, b))
  <2>1. Result(a, b) = a BY <1>1, <1>2, ChainUnfolds
  <2>2. \A p \in Positions(a.order) : ~Above(p, b)
    <3> SUFFICES ASSUME NEW p \in Positions(a.order), Above(p, b) PROVE FALSE OBVIOUS
    <3>1. p \in Nat /\ p >= 1 BY <1>1, <1>2, PositionIs
    <3>2. p = 0 BY <1>1, <1>2, AboveLess
    <3> QED BY <3>1, <3>2
  <2> QED BY <1>2, <2>1, <2>2 DEF ChainDone
<1>3. ASSUME NEW n \in P, NEW a, NEW b, Ready(a, b), b <= n + 1, b # 1
      PROVE  ChainDone(a, b, Result(a, b))
  <2>1. PICK o : o = a.order OBVIOUS
  <2>2. /\ a \in Trees /\ o \in 1 .. MaxOrder /\ b \in Positions(o)
        /\ b \in Nat /\ tree_status(a, b) \in Nat
    BY <1>1, <1>3, <2>1
  <2>3. PICK p, q : p = parent(b) /\ q = sibling(b) OBVIOUS
  <2>4. /\ p \in Positions(o) /\ p < b /\ p \in Nat /\ q \in Positions(o) /\ q # b
        /\ \/ b = left_child(p) /\ q = right_child(p)
           \/ b = right_child(p) /\ q = left_child(p)
        /\ Depth[p] < o
    BY <1>3, <2>2, <2>3, ParentIs, PositionIs
  <2>5. PICK g : g = TargetParent(tree_status(a, b), tree_status(a, q)) OBVIOUS
  <2>6. tree_status(a, q) \in Nat BY <2>1, <2>2, <2>4, StatusRange
  <2>7. g \in Nat /\ g = TargetParent(tree_status(a, left_child(p)), tree_status(a, right_child(p)))
    BY <2>2, <2>4, <2>5, <2>6, TargetIs
  <2>8. Result(a, b) = IF g = tree_status(a, p) THEN a ELSE update_parent_chain[<<SetStatus(a, p, g), p, g>>]
    BY <1>3, <2>1, <2>2, <2>3, <2>5, ChainUnfolds
  <2>9. \A x : Above(x, b) <=> x = p \/ Above(x, p) BY <2>2, <2>3, AboveIs
  <2>10. CASE g = tree_status(a, p)
    <3>1. Settled(a, p) BY <2>7, <2>10 DEF Settled
    <3>2. Result(a, b) = a BY <2>8, <2>10
    <3>3. \A x \in Positions(a.order) : Above(x, b) => Settled(a, x) BY <1>3, <2>3, <3>1
    <3> QED BY <2>2, <3>2, <3>3 DEF ChainDone
  <2>11. CASE g # tree_status(a, p)
    <3>1. PICK c : c = SetStatus(a, p, g) OBVIOUS
    <3>2. g \in 0 .. local_offset(a, p) BY <1>3, <2>1, <2>2, <2>3, <2>5, TargetFits
    <3>3. /\ c \in Trees /\ c.order = o /\ tree_status(c, p) = g
          /\ \A x \in Positions(o) : x # p => tree_status(c, x) = tree_status(a, x)
      BY <2>1, <2>2, <2>4, <3>1, <3>2, StatusWrites
    <3>4. Result(a, b) = update_parent_chain[<<c, p, tree_status(c, p)>>] BY <2>8, <2>11, <3>1, <3>3
    <3>5. b \in Positions(o) /\ b # p /\ q \in Positions(o) /\ q # p
      <4>1. left_child(p) # p /\ right_child(p) # p
        <5>1. p >= 1 BY <2>2, <2>4, PositionIs
        <5> QED BY <2>4, <5>1 DEF left_child, right_child
      <4> QED BY <2>2, <2>4, <4>1
    <3>6. Settled(c, p) BY <2>4, <2>7, <3>3, <3>5 DEF Settled
    <3>7. ASSUME NEW x \in Positions(o), Above(x, p), x # parent(p) PROVE Settled(c, x)
      <4>1. x < p /\ x \in Nat /\ x >= 1 BY <2>2, <2>4, <3>7, PositionIs, AboveInTree
      <4>2. Settled(a, x) BY <1>3, <2>1, <2>3, <2>9, <3>7, <4>1, <2>4
      <4>3. left_child(x) # p /\ right_child(x) # p
        <5>1. parent(left_child(x)) = x /\ parent(right_child(x)) = x
          BY <4>1 DEF parent, left_child, right_child
        <5> QED BY <3>7, <5>1
      <4>4. x # 0 /\ Depth[x] < o
        <5>1. InRow(x, Depth[x]) /\ InRow(p, Depth[p]) /\ Depth[p] <= o BY <2>2, <2>4, <3>7, DepthIs
        <5>2. CASE Depth[x] >= o
          <6>1. /\ o \in Nat /\ Depth[x] \in Nat /\ Depth[p] \in Nat /\ Depth[x] - 1 \in Nat
                /\ pow2[Depth[x] - 1] <= x /\ p < pow2[Depth[p]]
            BY <2>2, <5>1, OrderAssumption DEF InRow
          <6>2. Depth[p] <= Depth[x] - 1 BY <2>4, <5>2, <6>1
          <6>3. pow2[Depth[p]] <= pow2[Depth[x] - 1] BY <6>1, <6>2, PowerGrows
          <6>4. pow2[Depth[p]] \in Nat /\ pow2[Depth[x] - 1] \in Nat BY <6>1, PowerIs
          <6> QED BY <2>4, <4>1, <6>1, <6>3, <6>4
        <5>3. Depth[x] \in Nat /\ o \in Nat BY <2>2, <5>1, OrderAssumption DEF InRow
        <5> QED BY <4>1, <5>2, <5>3
      <4>5. left_child(x) \in Positions(o) /\ right_child(x) \in Positions(o)
        BY <2>2, <3>7, <4>4, ChildrenAre DEF left_child, right_child
      <4>6. x # p BY <2>4, <4>1
      <4> QED BY <3>3, <3>7, <4>2, <4>3, <4>5, <4>6 DEF Settled
    <3>8. Ready(c, p) BY <2>4, <3>3, <3>7
    <3>9. p <= n BY <1>3, <2>2, <2>4
    <3>10. ChainDone(c, p, Result(a, b)) BY <1>3, <3>4, <3>8, <3>9
    <3>11. PICK r : r = Result(a, b) OBVIOUS
    <3>12. /\ r \in Trees /\ r.order = o
           /\ \A x \in Positions(o) : Above(x, p) => Settled(r, x)
           /\ \A x \in Positions(o) : ~Above(x, p) => tree_status(r, x) = tree_status(c, x)
      BY <3>3, <3>10, <3>11 DEF ChainDone
    <3>13. Settled(r, p)
      <4>1. \A x \in Nat : x >= p => ~Above(x, p)
        <5> SUFFICES ASSUME NEW x \in Nat, x >= p, Above(x, p) PROVE FALSE OBVIOUS
        <5>1. p >= 1 BY <2>2, <2>4, PositionIs
        <5> QED BY <2>4, <5>1, AboveLess
      <4>2. b \in Nat /\ q \in Nat /\ b >= p /\ q >= p
        BY <2>2, <2>4, PositionIs DEF left_child, right_child
      <4>3. tree_status(r, p) = tree_status(c, p) /\ tree_status(r, b) = tree_status(c, b)
            /\ tree_status(r, q) = tree_status(c, q)
        BY <2>2, <2>4, <3>12, <4>1, <4>2
      <4> QED BY <2>4, <3>6, <4>3 DEF Settled
    <3>14. \A x \in Positions(o) : Above(x, b) => Settled(r, x) BY <2>9, <3>12, <3>13
    <3>15. \A x \in Positions(o) : ~Above(x, b) => tree_status(r, x) = tree_status(a, x)
      BY <2>9, <3>3, <3>12
    <3> QED BY <2>1, <3>11, <3>12, <3>14, <3>15 DEF ChainDone
  <2> QED BY <2>10, <2>11
<1>4. P = Nat
  <2> HIDE DEF Result, Ready
  <2>1. 0 \in P
    <3> SUFFICES ASSUME NEW a, NEW b, Ready(a, b), b <= 0 PROVE FALSE OBVIOUS
    <3> QED BY <1>1
  <2>2. ASSUME NEW n \in P PROVE n + 1 \in P
    <3>1. \A a, b : Ready(a, b) /\ b <= n + 1 => ChainDone(a, b, Result(a, b)) BY <1>2, <1>3, <2>2
    <3> QED BY <2>2, <3>1
  <2>3. P \in SUBSET Nat OBVIOUS
  <2> HIDE DEF P
  <2> QED BY <2>1, <2>2, <2>3, NumbersUpwards
<1>5. Ready(t, pos) OBVIOUS
<1>6. pos \in Nat BY <1>1, <1>5
<1>7. pos \in P BY <1>4, <1>6
<1>8. pos <= pos BY <1>6
<1> QED BY <1>5, <1>7, <1>8

LEMMA QuotientTwice ==
    ASSUME NEW u \in Nat, NEW a \in Nat, NEW b \in Nat, a >= 1, b >= 1
    PROVE  (u \div a) \div b = u \div (a * b)
<1>1. PICK r \in Nat : r = a * b OBVIOUS
<1>2. r >= 1
  <2>1. a * 1 <= a * b BY TimesMonotone
  <2> QED BY <1>1, <2>1
<1>3. PICK h \in Nat : h = u \div a BY Quotient
<1>4. a * h <= u /\ u + 1 <= a * (h + 1) BY <1>3, Quotient, Zenon
<1>5. PICK x \in Nat : x = h \div b BY Quotient
<1>6. b * x <= h /\ h + 1 <= b * (x + 1) BY <1>5, Quotient, Zenon
<1>7. PICK y \in Nat : y = u \div r BY <1>2, Quotient
<1>8. r * y <= u /\ u + 1 <= r * (y + 1) BY <1>2, <1>7, Quotient, Zenon
<1>9. a * (b * x) = r * x /\ a * (b * (x + 1)) = r * (x + 1) BY <1>1, TimesSum
<1>10. a * (b * x) <= a * h /\ a * (h + 1) <= a * (b * (x + 1)) BY <1>6, TimesMonotone
<1>11. /\ r * x \in Int /\ r * y \in Int /\ r * (x + 1) \in Int /\ r * (y + 1) \in Int
       /\ a * h \in Int /\ a * (h + 1) \in Int OBVIOUS
<1>12. r * x < r * (y + 1) /\ r * y < r * (x + 1) BY <1>4, <1>8, <1>9, <1>10, <1>11
<1>13. x < y + 1 /\ y < x + 1 BY <1>12, TimesStrict
<1>14. x = y BY <1>13
<1> QED BY <1>1, <1>3, <1>5, <1>7, <1>14

LEMMA AboveUp ==
    ASSUME NEW pos \in Nat, NEW x, Above(x, pos)
    PROVE  Above(parent(x), pos)
<1>1. PICK k \in Nat : k >= 1 /\ x = pos \div pow2[k] BY DEF Above
<1>2. PICK c \in Nat : c = pow2[k] /\ c >= 1 /\ pow2[k + 1] = c * 2 BY PowerIs
<1>3. 2 \in Nat /\ 2 >= 1 OBVIOUS
<1>4. (pos \div c) \div 2 = pos \div (c * 2) BY <1>2, <1>3, QuotientTwice
<1>5. k + 1 \in Nat /\ k + 1 >= 1 OBVIOUS
<1> QED BY <1>1, <1>2, <1>4, <1>5 DEF Above, parent

LEMMA ParentOfChild ==
    ASSUME NEW p \in Nat
    PROVE  parent(left_child(p)) = p /\ parent(right_child(p)) = p
BY DEF parent, left_child, right_child

\* A position above others is not in the deepest row.
LEMMA AboveNotDeepest ==
    ASSUME NEW o \in 1 .. MaxOrder, NEW pos \in Positions(o), NEW p \in Positions(o), Above(p, pos)
    PROVE  Depth[p] < o /\ Depth[p] < Depth[pos]
<1>1. InRow(p, Depth[p]) /\ InRow(pos, Depth[pos]) /\ Depth[pos] <= o BY DepthIs
<1>2. /\ pos \in Nat /\ pos >= 1 /\ p \in Nat /\ p >= 1 /\ o \in Nat
      /\ Depth[p] \in Nat /\ Depth[p] - 1 \in Nat /\ Depth[pos] \in Nat
      /\ pow2[Depth[p] - 1] <= p /\ pos < pow2[Depth[pos]]
  BY <1>1, PositionIs, OrderAssumption DEF InRow
<1>3. 2 * p <= pos
  <2>1. PICK k \in Nat : k >= 1 /\ p = pos \div pow2[k] BY DEF Above
  <2>2. k - 1 \in Nat /\ (k - 1) + 1 = k BY <2>1
  <2>3. PICK h \in Nat, c \in Nat : h >= 1 /\ c = pow2[k] /\ c = 2 * h /\ c >= 1 BY <2>2, PowerIs
  <2>4. c * p <= pos BY <1>2, <2>1, <2>3, Quotient, Zenon
  <2>5. 2 * p <= c * p BY <1>2, <2>3, SMT
  <2>6. c * p \in Int BY <1>2
  <2> QED BY <1>2, <2>4, <2>5, <2>6
<1>4. CASE Depth[p] >= Depth[pos]
  <2>1. pow2[Depth[pos]] <= pow2[Depth[p]] BY <1>2, <1>4, PowerGrows
  <2>2. (Depth[p] - 1) + 1 = Depth[p] BY <1>2
  <2>3. pow2[Depth[p]] = 2 * pow2[Depth[p] - 1] /\ pow2[Depth[p] - 1] \in Nat /\ pow2[Depth[pos]] \in Nat
    BY <1>2, <2>2, PowerIs
  <2> QED BY <1>2, <1>3, <2>1, <2>3
<1> QED BY <1>1, <1>2, <1>4

LEMMA ChildrenInTree ==
    ASSUME NEW t \in Trees, NEW p \in Positions(t.order), Depth[p] < t.order
    PROVE  /\ left_child(p) \in Positions(t.order) /\ right_child(p) \in Positions(t.order)
           /\ tree_status(t, left_child(p)) \in Nat /\ tree_status(t, right_child(p)) \in Nat
           /\ tree_status(t, p) \in Nat
           /\ p \in Nat /\ p >= 1 /\ left_child(p) > p /\ right_child(p) > p
<1>1. t.order \in 1 .. MaxOrder BY DEF Trees
<1>2. p \in Nat /\ p >= 1 BY <1>1, PositionIs
<1>3. left_child(p) \in Positions(t.order) /\ right_child(p) \in Positions(t.order)
  BY <1>1, ChildrenAre DEF left_child, right_child
<1>4. left_child(p) > p /\ right_child(p) > p BY <1>2 DEF left_child, right_child
<1> QED BY <1>2, <1>3, <1>4, StatusRange

LEMMA SettledNotInUse ==
    ASSUME NEW t \in Trees, NEW p \in Positions(t.order), Depth[p] < t.order, Settled(t, p)
    PROVE  ~InUse(t, p)
<1> SUFFICES ASSUME InUse(t, p) PROVE FALSE OBVIOUS
<1>1. tree_status(t, p) >= 1 BY StatusRange DEF InUse
<1>2. tree_status(t, left_child(p)) = 0 /\ tree_status(t, right_child(p)) = 0 BY DEF InUse
<1>3. TargetParent(0, 0) = 0 BY DEF TargetParent
<1> QED BY <1>1, <1>2, <1>3 DEF Settled

LEMMA ZeroBelow ==
    ASSUME NEW t, Sound(t), NEW p \in Positions(t.order), Depth[p] < t.order, tree_status(t, p) = 0
    PROVE  tree_status(t, left_child(p)) = 0 /\ tree_status(t, right_child(p)) = 0
<1>1. t \in Trees BY DEF Sound
<1>2. PICK l \in Nat, r \in Nat : l = tree_status(t, left_child(p)) /\ r = tree_status(t, right_child(p))
  BY <1>1, ChildrenInTree
<1>3. Settled(t, p)
  <2>1. ~InUse(t, p) BY <1>1, StatusRange DEF InUse
  <2> QED BY <2>1 DEF Sound
<1>4. TargetParent(l, r) = 0 BY <1>2, <1>3 DEF Settled
<1>5. TargetParent(l, r) = IF l = 0 /\ r = 0 THEN 0 ELSE IF l <= r THEN l + 1 ELSE r + 1
  BY TargetIs, Zenon
<1> QED BY <1>2, <1>4, <1>5

LEMMA SettledAboveUsed ==
    ASSUME NEW t, Sound(t), NEW q \in Positions(t.order), tree_status(t, q) # 0,
           NEW p \in Positions(t.order), Above(p, q)
    PROVE  Settled(t, p) /\ tree_status(t, p) # 0
<1>1. t \in Trees /\ t.order \in 1 .. MaxOrder BY DEF Sound, Trees
<1> DEFINE P == {n \in Nat : \A x \in Positions(t.order) :
                    x <= n /\ tree_status(t, x) # 0 /\ Above(p, x) => Settled(t, p) /\ tree_status(t, p) # 0}
<1>2. ASSUME NEW n \in P PROVE n + 1 \in P
  <2> SUFFICES ASSUME NEW x \in Positions(t.order), x <= n + 1, tree_status(t, x) # 0, Above(p, x)
               PROVE  Settled(t, p) /\ tree_status(t, p) # 0
    BY <1>2
  <2>1. x \in Nat /\ p \in Nat /\ p >= 1 BY <1>1, PositionIs
  <2>2. x # 1 BY <1>1, <2>1, AboveInTree
  <2>3. PICK y : y = parent(x) OBVIOUS
  <2>4. y \in Positions(t.order) /\ y < x /\ y \in Nat /\ Depth[y] < t.order
        /\ (x = left_child(y) \/ x = right_child(y))
    BY <1>1, <2>2, <2>3, ParentIs, PositionIs
  <2>5. ~InUse(t, y) BY <2>4 DEF InUse
  <2>6. Settled(t, y) BY <2>4, <2>5 DEF Sound
  <2>7. tree_status(t, y) # 0 BY <2>4, ZeroBelow
  <2>8. p = y \/ Above(p, y) BY <2>1, <2>3, AboveIs
  <2>9. y <= n BY <1>2, <2>1, <2>4
  <2> QED BY <1>2, <2>4, <2>6, <2>7, <2>8, <2>9
<1>3. P = Nat
  <2>1. 0 \in P
    <3>1. \A x \in Positions(t.order) : ~(x <= 0) BY <1>1, PositionIs
    <3> QED BY <3>1
  <2>2. P \in SUBSET Nat OBVIOUS
  <2> HIDE DEF P
  <2> QED BY <1>2, <2>1, <2>2, NumbersUpwards
<1>4. q \in Nat BY <1>1, PositionIs
<1>5. q \in P /\ q <= q BY <1>3, <1>4
<1> QED BY <1>5

\* The positions in use.
Marked(t) == {p \in Positions(t.order) : InUse(t, p)}

\* Writes value at pos, full or free, and settles what is above.
Toggle(t, pos, value) == update_parent_chain[<<SetStatus(t, pos, value), pos, value>>]

ToggleDone(t, pos, value, r) ==
    /\ Sound(r) /\ r.order = t.order
    /\ tree_status(r, pos) = value
    /\ Marked(r) = IF value = 0 THEN Marked(t) \ {pos} ELSE Marked(t) \cup {pos}

LEMMA ToggleExact ==
    ASSUME NEW t, Sound(t), NEW pos \in Positions(t.order),
           Depth[pos] < t.order => tree_status(t, left_child(pos)) = 0 /\ tree_status(t, right_child(pos)) = 0,
           \A p \in Positions(t.order) : Above(p, pos) => Settled(t, p),
           NEW value \in {0, local_offset(t, pos)}
    PROVE  ToggleDone(t, pos, value, Toggle(t, pos, value))
<1>1. t \in Trees /\ t.order \in 1 .. MaxOrder BY DEF Sound, Trees
<1>2. PICK o : o = t.order OBVIOUS
<1>3. pos \in Nat /\ pos >= 1 /\ local_offset(t, pos) \in Nat /\ local_offset(t, pos) >= 1
  BY <1>1, PositionIs, StatusRange
<1>4. PICK c : c = SetStatus(t, pos, value) OBVIOUS
<1>5. /\ c \in Trees /\ c.order = o /\ tree_status(c, pos) = value
      /\ \A q \in Positions(o) : q # pos => tree_status(c, q) = tree_status(t, q)
  <2>1. value \in 0 .. local_offset(t, pos) BY <1>3
  <2> QED BY <1>1, <1>2, <1>4, <2>1, StatusWrites
<1>6. ASSUME NEW p \in Positions(o), Above(p, pos), p # parent(pos) PROVE Settled(c, p)
  <2>1. Depth[p] < o /\ p < pos BY <1>1, <1>2, <1>6, AboveNotDeepest, AboveInTree, PositionIs
  <2>2. left_child(p) \in Positions(o) /\ right_child(p) \in Positions(o) /\ p \in Nat
    BY <1>1, <1>2, <2>1, ChildrenInTree
  <2>3. left_child(p) # pos /\ right_child(p) # pos BY <1>6, <2>2, ParentOfChild
  <2>4. p # pos BY <1>3, <2>1, <2>2
  <2> QED BY <1>2, <1>5, <1>6, <2>2, <2>3, <2>4 DEF Settled
<1>7. PICK r : r = Toggle(t, pos, value) OBVIOUS
<1>8. ChainDone(c, pos, r)
  <2>1. r = update_parent_chain[<<c, pos, tree_status(c, pos)>>] BY <1>4, <1>5, <1>7 DEF Toggle
  <2> QED BY <1>2, <1>5, <1>6, <2>1, ChainSettles
<1>9. /\ r \in Trees /\ r.order = o
      /\ \A p \in Positions(o) : Above(p, pos) => Settled(r, p)
      /\ \A q \in Positions(o) : ~Above(q, pos) => tree_status(r, q) = tree_status(c, q)
  BY <1>5, <1>8 DEF ChainDone
<1>10. ~Above(pos, pos) BY <1>3, AboveLess
<1>11. tree_status(r, pos) = value BY <1>2, <1>5, <1>9, <1>10
<1>12. \A q \in Positions(o) : ~Above(q, pos) /\ q # pos => tree_status(r, q) = tree_status(t, q)
  BY <1>5, <1>9
<1>13. \A q \in Positions(o) : local_offset(r, q) = local_offset(t, q) BY <1>2, <1>9 DEF local_offset
<1>14. ASSUME NEW p \in Positions(o), ~Above(p, pos), p # pos
       PROVE  (Settled(r, p) <=> Settled(t, p)) \/ Depth[p] >= o
  <2> SUFFICES ASSUME Depth[p] < o PROVE Settled(r, p) <=> Settled(t, p)
    <3>1. Depth[p] \in Nat /\ o \in Nat BY <1>1, <1>2, DepthIs, OrderAssumption DEF InRow
    <3> QED BY <3>1
  <2>1. left_child(p) \in Positions(o) /\ right_child(p) \in Positions(o) /\ p \in Nat
    BY <1>1, <1>2, ChildrenInTree
  <2>2. ~Above(left_child(p), pos) /\ ~Above(right_child(p), pos)
    BY <1>3, <1>14, <2>1, AboveUp, ParentOfChild
  <2>3. left_child(p) # pos /\ right_child(p) # pos BY <1>3, <1>14, <2>1, AboveIs, ParentOfChild
  <2> QED BY <1>12, <1>14, <2>1, <2>2, <2>3 DEF Settled
<1>15. ASSUME NEW p \in Positions(o), ~Above(p, pos), p # pos PROVE InUse(r, p) <=> InUse(t, p)
  <2>1. tree_status(r, p) = tree_status(t, p) /\ local_offset(r, p) = local_offset(t, p)
    BY <1>12, <1>13, <1>15
  <2>2. CASE Depth[p] < o
    <3>1. left_child(p) \in Positions(o) /\ right_child(p) \in Positions(o) /\ p \in Nat
      BY <1>1, <1>2, <2>2, ChildrenInTree
    <3>2. ~Above(left_child(p), pos) /\ ~Above(right_child(p), pos)
      BY <1>3, <1>15, <3>1, AboveUp, ParentOfChild
    <3>3. left_child(p) # pos /\ right_child(p) # pos BY <1>3, <1>15, <3>1, AboveIs, ParentOfChild
    <3>4. tree_status(r, left_child(p)) = tree_status(t, left_child(p))
          /\ tree_status(r, right_child(p)) = tree_status(t, right_child(p))
      BY <1>12, <3>1, <3>2, <3>3
    <3> QED BY <1>2, <1>9, <2>1, <3>4 DEF InUse
  <2>3. CASE ~(Depth[p] < o) BY <1>2, <1>9, <2>1, <2>3 DEF InUse
  <2> QED BY <2>2, <2>3
<1>16. Depth[pos] < o => tree_status(r, left_child(pos)) = 0 /\ tree_status(r, right_child(pos)) = 0
  <2> SUFFICES ASSUME Depth[pos] < o
               PROVE  tree_status(r, left_child(pos)) = 0 /\ tree_status(r, right_child(pos)) = 0
    OBVIOUS
  <2>1. /\ left_child(pos) \in Positions(o) /\ right_child(pos) \in Positions(o)
        /\ left_child(pos) > pos /\ right_child(pos) > pos
        /\ left_child(pos) \in Nat /\ right_child(pos) \in Nat
    BY <1>1, <1>2, ChildrenInTree, PositionIs
  <2>2. ~Above(left_child(pos), pos) /\ ~Above(right_child(pos), pos) BY <1>3, <2>1, AboveLess
  <2> QED BY <1>2, <1>3, <1>12, <2>1, <2>2
<1>17. value # 0 => InUse(r, pos) BY <1>2, <1>9, <1>11, <1>13, <1>16 DEF InUse
<1>18. value = 0 => ~InUse(r, pos) BY <1>2, <1>3, <1>11, <1>13 DEF InUse
<1>19. value = 0 /\ Depth[pos] < o => Settled(r, pos)
  <2>1. TargetParent(0, 0) = 0 BY DEF TargetParent
  <2> QED BY <1>11, <1>16, <2>1 DEF Settled
<1>20. Sound(r)
  <2>1. ASSUME NEW p \in Positions(o), Depth[p] < o PROVE Settled(r, p) \/ InUse(r, p)
    <3>1. CASE Above(p, pos) BY <1>9, <3>1
    <3>2. CASE p = pos BY <1>17, <1>19, <2>1, <3>2
    <3>3. CASE ~Above(p, pos) /\ p # pos
      <4>1. Settled(t, p) \/ InUse(t, p) BY <1>2, <2>1 DEF Sound
      <4>2. Depth[p] \in Nat /\ o \in Nat BY <1>1, <1>2, DepthIs, OrderAssumption DEF InRow
      <4> QED BY <1>14, <1>15, <2>1, <3>3, <4>1, <4>2
    <3> QED BY <3>1, <3>2, <3>3
  <2> QED BY <1>9, <2>1 DEF Sound
<1>21. ASSUME NEW p \in Positions(o), Above(p, pos) PROVE ~InUse(r, p) /\ ~InUse(t, p) /\ p # pos
  <2>1. Depth[p] < o BY <1>1, <1>2, <1>21, AboveNotDeepest
  <2>2. Settled(r, p) /\ Settled(t, p) BY <1>2, <1>9, <1>21
  <2> QED BY <1>1, <1>2, <1>9, <1>10, <1>21, <2>1, <2>2, SettledNotInUse
<1>22. Marked(r) = IF value = 0 THEN Marked(t) \ {pos} ELSE Marked(t) \cup {pos}
  <2>1. \A p \in Positions(o) : p # pos => (InUse(r, p) <=> InUse(t, p)) BY <1>15, <1>21
  <2> QED BY <1>2, <1>9, <1>17, <1>18, <2>1 DEF Marked
<1> QED BY <1>2, <1>7, <1>9, <1>11, <1>20, <1>22 DEF ToggleDone

\* Marking a free position of a sound tree marks it and nothing else, and leaves the
\* tree sound: stopping at the first ancestor that does not change is enough, for
\* trees of any order (buddy_tree_mark, update_parent_chain).
THEOREM MarkExact ==
    ASSUME NEW t, Sound(t), NEW pos \in Positions(t.order), tree_status(t, pos) = 0,
           \A p \in Positions(t.order) : Above(p, pos) => ~InUse(t, p)
    PROVE  /\ Sound(tree_mark(t, pos)) /\ tree_mark(t, pos).order = t.order
           /\ Marked(tree_mark(t, pos)) = Marked(t) \cup {pos}
<1>1. t \in Trees /\ t.order \in 1 .. MaxOrder BY DEF Sound, Trees
<1>2. \A p \in Positions(t.order) : Above(p, pos) => Settled(t, p) BY <1>1, AboveNotDeepest DEF Sound
<1>3. Depth[pos] < t.order => tree_status(t, left_child(pos)) = 0 /\ tree_status(t, right_child(pos)) = 0
  BY ZeroBelow
<1>4. PICK h : h = local_offset(t, pos) OBVIOUS
<1>5. h # 0 BY <1>1, <1>4, StatusRange
<1>6. h \in {0, local_offset(t, pos)} BY <1>4
<1>7. ToggleDone(t, pos, h, Toggle(t, pos, h)) BY <1>2, <1>3, <1>6, ToggleExact
<1>8. tree_mark(t, pos) = Toggle(t, pos, h) BY <1>4, Zenon DEF tree_mark, Toggle
<1> QED BY <1>5, <1>7, <1>8 DEF ToggleDone

\* Releasing a position in use frees it and nothing else, and leaves the tree sound
\* (buddy_tree_release).
THEOREM ReleaseExact ==
    ASSUME NEW t, Sound(t), NEW pos \in Marked(t)
    PROVE  /\ Sound(tree_release(t, pos)) /\ tree_release(t, pos).order = t.order
           /\ Marked(tree_release(t, pos)) = Marked(t) \ {pos}
           /\ tree_status(tree_release(t, pos), pos) = 0
<1>1. t \in Trees /\ t.order \in 1 .. MaxOrder BY DEF Sound, Trees
<1>2. pos \in Positions(t.order) /\ InUse(t, pos) BY DEF Marked
<1>3. tree_status(t, pos) # 0 BY <1>1, <1>2, StatusRange DEF InUse
<1>4. \A p \in Positions(t.order) : Above(p, pos) => Settled(t, p) BY <1>2, <1>3, SettledAboveUsed
<1>5. Depth[pos] < t.order => tree_status(t, left_child(pos)) = 0 /\ tree_status(t, right_child(pos)) = 0
  BY <1>2 DEF InUse
<1>6. 0 \in {0, local_offset(t, pos)} OBVIOUS
<1>7. ToggleDone(t, pos, 0, Toggle(t, pos, 0)) BY <1>2, <1>4, <1>5, <1>6, ToggleExact
<1>8. tree_release(t, pos) = Toggle(t, pos, 0) BY Zenon DEF tree_release, Toggle
<1> QED BY <1>7, <1>8 DEF ToggleDone

-----------------------------------------------------------------------------
(* Searching *)

LEMMA BranchFits ==
    ASSUME NEW l \in Nat, NEW r \in Nat, NEW s \in Int, NEW bias, l <= s \/ r <= s
    PROVE  /\ Branch(l, r, s, bias) = "left" => l <= s
           /\ Branch(l, r, s, bias) # "left" => r <= s
<1>1. CASE l > s
  <2>1. Branch(l, r, s, bias) = "right" BY <1>1 DEF Branch
  <2> QED BY <1>1, <2>1
<1>2. CASE l <= s /\ r > s
  <2>1. Branch(l, r, s, bias) = "left" BY <1>2 DEF Branch
  <2> QED BY <1>2, <2>1
<1>3. CASE l <= s /\ r <= s BY <1>3
<1> QED BY <1>1, <1>2, <1>3

\* Positions the search passes on its way to depth d.
Passed(t, d) == {p \in Positions(t.order) : Depth[p] <= d}

FindStep(t, d, bias, pos, f) ==
    LET target_status == d - Depth[pos]
        to == Branch(tree_status(t, left_child(pos)), tree_status(t, right_child(pos)),
                     target_status - 1, bias)
    IN  IF target_status = 0 THEN IF tree_status(t, pos) = 0 THEN pos ELSE INVALID_POS
        ELSE IF tree_status(t, pos) > target_status THEN INVALID_POS
        ELSE f[IF to = "left" THEN left_child(pos) ELSE right_child(pos)]

LEMMA PassedIs ==
    ASSUME NEW t \in Trees, NEW d \in 1 .. t.order, NEW pos \in Passed(t, d)
    PROVE  /\ pos \in Positions(t.order) /\ pos \in Nat /\ pos >= 1
           /\ Depth[pos] \in Nat /\ d \in Nat /\ Depth[pos] <= d /\ t.order \in Nat /\ d <= t.order
           /\ d - Depth[pos] # 0 =>
                /\ Depth[pos] < t.order
                /\ left_child(pos) \in Passed(t, d) /\ right_child(pos) \in Passed(t, d)
                /\ Depth[left_child(pos)] = Depth[pos] + 1 /\ Depth[right_child(pos)] = Depth[pos] + 1
<1>1. t.order \in 1 .. MaxOrder BY DEF Trees
<1>2. t.order \in Nat /\ d \in Nat /\ d <= t.order BY <1>1, OrderAssumption
<1>3. pos \in Positions(t.order) /\ Depth[pos] <= d BY DEF Passed
<1>4. pos \in Nat /\ pos >= 1 /\ Depth[pos] \in Nat BY <1>1, <1>3, PositionIs, DepthIs DEF InRow
<1>5. ASSUME d - Depth[pos] # 0
      PROVE  /\ Depth[pos] < t.order
             /\ left_child(pos) \in Passed(t, d) /\ right_child(pos) \in Passed(t, d)
             /\ Depth[left_child(pos)] = Depth[pos] + 1 /\ Depth[right_child(pos)] = Depth[pos] + 1
  <2>1. Depth[pos] + 1 <= d /\ Depth[pos] < t.order BY <1>2, <1>3, <1>4, <1>5
  <2>2. left_child(pos) \in {2 * pos, 2 * pos + 1} /\ right_child(pos) \in {2 * pos, 2 * pos + 1}
    BY DEF left_child, right_child
  <2>3. /\ left_child(pos) \in Positions(t.order) /\ Depth[left_child(pos)] = Depth[pos] + 1
        /\ right_child(pos) \in Positions(t.order) /\ Depth[right_child(pos)] = Depth[pos] + 1
    BY <1>1, <1>3, <2>1, <2>2, ChildrenAre
  <2> QED BY <2>1, <2>3 DEF Passed
<1> QED BY <1>2, <1>3, <1>4, <1>5

LEMMA SearchUnfoldsAt ==
    ASSUME NEW t \in Trees, NEW d \in 1 .. t.order, NEW bias
    PROVE  \A pos \in Passed(t, d) :
             FindFrom(t, d, bias)[pos] = FindStep(t, d, bias, pos, FindFrom(t, d, bias))
<1> DEFINE D == Passed(t, d)
           m == [pos \in D |-> d - Depth[pos]]
           Step(pos, f) == FindStep(t, d, bias, pos, f)
           G == [pos \in D |-> [f \in [D -> Nat] |-> Step(pos, f)]]
<1>1. G \in [D -> [[D -> Nat] -> Nat]]
  <2> SUFFICES ASSUME NEW pos \in D, NEW f \in [D -> Nat] PROVE Step(pos, f) \in Nat OBVIOUS
  <2>1. pos \in Nat BY PassedIs
  <2>2. CASE d - Depth[pos] = 0 BY <2>1, <2>2 DEF FindStep, INVALID_POS
  <2>3. CASE d - Depth[pos] # 0
    <3>1. left_child(pos) \in D /\ right_child(pos) \in D BY <2>3, PassedIs
    <3>2. f[left_child(pos)] \in Nat /\ f[right_child(pos)] \in Nat BY <3>1
    <3> QED BY <2>3, <3>2 DEF FindStep, INVALID_POS
  <2> QED BY <2>2, <2>3
<1>2. Descends(D, Nat, m, G)
  <2> SUFFICES ASSUME NEW pos \in D, NEW f \in [D -> Nat], NEW g \in [D -> Nat],
                      \A j \in D : m[j] < m[pos] => f[j] = g[j]
               PROVE  Step(pos, f) = Step(pos, g)
    BY DEF Descends
  <2>1. CASE d - Depth[pos] = 0 BY <2>1 DEF FindStep
  <2>2. CASE d - Depth[pos] # 0
    <3>1. /\ left_child(pos) \in D /\ right_child(pos) \in D
          /\ Depth[left_child(pos)] = Depth[pos] + 1 /\ Depth[right_child(pos)] = Depth[pos] + 1
          /\ Depth[pos] \in Nat /\ d \in Nat
      BY <2>2, PassedIs
    <3>2. m[left_child(pos)] < m[pos] /\ m[right_child(pos)] < m[pos] BY <3>1
    <3>3. f[left_child(pos)] = g[left_child(pos)] /\ f[right_child(pos)] = g[right_child(pos)] BY <3>1, <3>2
    <3> QED BY <3>3 DEF FindStep
  <2> QED BY <2>1, <2>2
<1>3. PICK f : Solves(D, Nat, G, f)
  <2>1. m \in [D -> Nat]
    <3>1. \A pos \in D : d - Depth[pos] \in Nat BY PassedIs
    <3> QED BY <3>1
  <2>2. Nat # {} OBVIOUS
  <2>3. WellDefined(D, Nat, m, G) BY <1>1, <1>2, <2>1, <2>2 DEF WellDefined
  <2> HIDE DEF D, m, G
  <2> QED BY <2>3, RecursionExists, Zenon
<1>4. f = [pos \in D |-> Step(pos, f)] BY <1>3 DEF Solves
<1> DEFINE U(h) == h = [pos \in D |-> Step(pos, h)]
<1>5. FindFrom(t, d, bias) = CHOOSE h : U(h) BY Zenon DEF FindFrom, FindStep, Passed
<1>6. U(FindFrom(t, d, bias)) BY <1>4, <1>5, Zenon
<1> QED BY <1>6, Zenon

\* A position with room at depth d: the search finds it.
Room(t, d, r) ==
    /\ r \in Positions(t.order) /\ Depth[r] = d /\ tree_status(t, r) = 0
    /\ \A p \in Positions(t.order) : Above(p, r) => ~InUse(t, p)

LEMMA SearchFinds ==
    ASSUME NEW t, Sound(t), NEW d \in 1 .. t.order, NEW bias,
           NEW pos \in Passed(t, d), \A p \in Positions(t.order) : Above(p, pos) => ~InUse(t, p)
    PROVE  /\ tree_status(t, pos) <= d - Depth[pos] => Room(t, d, FindFrom(t, d, bias)[pos])
           /\ ~(tree_status(t, pos) <= d - Depth[pos]) => FindFrom(t, d, bias)[pos] = INVALID_POS
<1>1. t \in Trees /\ t.order \in 1 .. MaxOrder BY DEF Sound, Trees
<1> DEFINE F == FindFrom(t, d, bias)
           Free(x) == \A p \in Positions(t.order) : Above(p, x) => ~InUse(t, p)
           Fits(x) == tree_status(t, x) <= d - Depth[x]
           P == {n \in Nat : \A x \in Passed(t, d) : d - Depth[x] <= n /\ Free(x) =>
                     (Fits(x) => Room(t, d, F[x])) /\ (~Fits(x) => F[x] = INVALID_POS)}
<1>2. \A x \in Passed(t, d) : F[x] = FindStep(t, d, bias, x, F) BY <1>1, SearchUnfoldsAt
<1> HIDE DEF F
<1>3. ASSUME NEW x \in Passed(t, d), Free(x), d - Depth[x] = 0
      PROVE  (Fits(x) => Room(t, d, F[x])) /\ (~Fits(x) => F[x] = INVALID_POS)
  <2>1. x \in Positions(t.order) /\ Depth[x] \in Nat /\ d \in Nat BY <1>1, PassedIs
  <2>2. tree_status(t, x) \in Nat BY <1>1, <2>1, StatusRange
  <2>3. Fits(x) <=> tree_status(t, x) = 0 BY <1>3, <2>2
  <2>4. F[x] = IF tree_status(t, x) = 0 THEN x ELSE INVALID_POS BY <1>2, <1>3 DEF FindStep
  <2>5. Depth[x] = d BY <1>3, <2>1
  <2> QED BY <1>3, <2>1, <2>3, <2>4, <2>5 DEF Room
<1>4. ASSUME NEW n \in P, NEW x \in Passed(t, d), d - Depth[x] <= n + 1, d - Depth[x] # 0, Free(x)
      PROVE  (Fits(x) => Room(t, d, F[x])) /\ (~Fits(x) => F[x] = INVALID_POS)
  <2>1. /\ x \in Positions(t.order) /\ x \in Nat /\ Depth[x] \in Nat /\ d \in Nat /\ t.order \in Nat
        /\ Depth[x] <= d /\ d <= t.order /\ Depth[x] < t.order
        /\ left_child(x) \in Passed(t, d) /\ right_child(x) \in Passed(t, d)
        /\ Depth[left_child(x)] = Depth[x] + 1 /\ Depth[right_child(x)] = Depth[x] + 1
    BY <1>1, <1>4, PassedIs
  <2>2. PICK l \in Nat, r \in Nat, s \in Nat :
          l = tree_status(t, left_child(x)) /\ r = tree_status(t, right_child(x)) /\ s = tree_status(t, x)
    BY <1>1, <2>1, ChildrenInTree
  <2>3. PICK k \in Nat : k = d - Depth[x] /\ k >= 1 BY <1>4, <2>1
  <2>4. CASE ~Fits(x)
    <3>1. s > k BY <2>2, <2>3, <2>4
    <3> QED BY <1>2, <1>4, <2>2, <2>3, <2>4, <3>1 DEF FindStep
  <2>5. CASE Fits(x)
    <3>1. s <= k BY <2>2, <2>3, <2>5
    <3>2. ~InUse(t, x)
      <4>1. local_offset(t, x) = t.order - Depth[x] + 1 BY <1>1, <2>1, StatusRange
      <4>2. s < local_offset(t, x) BY <2>1, <2>3, <3>1, <4>1
      <4>3. s # local_offset(t, x) BY <2>1, <4>1, <4>2
      <4> QED BY <2>2, <4>3 DEF InUse
    <3>3. s = TargetParent(l, r) BY <2>1, <2>2, <3>2 DEF Sound, Settled
    <3>4. l <= k - 1 \/ r <= k - 1
      <4>1. TargetParent(l, r) = IF l = 0 /\ r = 0 THEN 0 ELSE IF l <= r THEN l + 1 ELSE r + 1
        BY TargetIs, Zenon
      <4> QED BY <2>3, <3>1, <3>3, <4>1
    <3>5. PICK to : to = Branch(l, r, k - 1, bias) OBVIOUS
    <3>6. (to = "left" => l <= k - 1) /\ (to # "left" => r <= k - 1)
      <4>1. k - 1 \in Int OBVIOUS
      <4> QED BY <3>4, <3>5, <4>1, BranchFits
    <3>7. PICK y : y = IF to = "left" THEN left_child(x) ELSE right_child(x) OBVIOUS
    <3>8. F[x] = F[y]
      <4>1. ~(s > k) BY <3>1
      <4>2. F[x] = FindStep(t, d, bias, x, F) BY <1>2
      <4>3. to = Branch(tree_status(t, left_child(x)), tree_status(t, right_child(x)), (d - Depth[x]) - 1, bias)
        BY <2>2, <2>3, <3>5
      <4> QED BY <1>4, <2>2, <2>3, <3>7, <4>1, <4>2, <4>3, Zenon DEF FindStep
    <3>9. y \in Passed(t, d) /\ Depth[y] = Depth[x] + 1 /\ parent(y) = x /\ y \in Nat
      BY <1>1, <2>1, <3>7, ParentOfChild, PassedIs
    <3>10. Fits(y) BY <2>1, <2>2, <2>3, <3>6, <3>7, <3>9
    <3>11. Free(y)
      <4> SUFFICES ASSUME NEW p \in Positions(t.order), Above(p, y) PROVE ~InUse(t, p) OBVIOUS
      <4>1. p = x \/ Above(p, x) BY <3>9, AboveIs
      <4> QED BY <1>4, <3>2, <4>1
    <3>12. d - Depth[y] <= n BY <1>4, <2>1, <2>3, <3>9
    <3>13. Room(t, d, F[y])
      <4> HIDE DEF Free, Fits
      <4> QED BY <1>4, <3>9, <3>10, <3>11, <3>12
    <3> QED BY <2>5, <3>8, <3>13
  <2> QED BY <2>4, <2>5
<1> HIDE DEF Free, Fits
<1>5. P = Nat
  <2>1. 0 \in P
    <3> SUFFICES ASSUME NEW x \in Passed(t, d), d - Depth[x] <= 0, Free(x)
                 PROVE  (Fits(x) => Room(t, d, F[x])) /\ (~Fits(x) => F[x] = INVALID_POS)
      OBVIOUS
    <3>1. d - Depth[x] = 0 BY <1>1, PassedIs
    <3> QED BY <1>3, <3>1
  <2>2. ASSUME NEW n \in P PROVE n + 1 \in P
    <3> SUFFICES ASSUME NEW x \in Passed(t, d), d - Depth[x] <= n + 1, Free(x)
                 PROVE  (Fits(x) => Room(t, d, F[x])) /\ (~Fits(x) => F[x] = INVALID_POS)
      BY <2>2
    <3> QED BY <1>3, <1>4, <2>2
  <2>3. P \in SUBSET Nat OBVIOUS
  <2> HIDE DEF P
  <2> QED BY <2>1, <2>2, <2>3, NumbersUpwards
<1>6. d - Depth[pos] \in Nat BY <1>1, PassedIs
<1>7. d - Depth[pos] \in P /\ d - Depth[pos] <= d - Depth[pos] BY <1>5, <1>6
<1>8. Free(pos) BY DEF Free
<1>9. (Fits(pos) => Room(t, d, F[pos])) /\ (~Fits(pos) => F[pos] = INVALID_POS) BY <1>7, <1>8
<1> QED BY <1>9 DEF Fits, F

LEMMA RootAbove ==
    ASSUME NEW o \in 1 .. MaxOrder, NEW q \in Positions(o)
    PROVE  1 = q \/ Above(1, q)
<1>1. InRow(q, Depth[q]) /\ q \in Nat BY DepthIs, PositionIs
<1>2. PICK k \in Nat : k = Depth[q] - 1 /\ pow2[k] <= q /\ q < pow2[k + 1]
  <2>1. Depth[q] - 1 \in Nat /\ (Depth[q] - 1) + 1 = Depth[q] BY <1>1 DEF InRow
  <2> QED BY <1>1, <2>1 DEF InRow
<1>3. PICK c \in Nat : c = pow2[k] /\ c >= 1 /\ q < 2 * c BY <1>2, PowerIs
<1>4. PICK x \in Nat : x = q \div c BY <1>1, <1>3, Quotient
<1>5. c * x <= q /\ q + 1 <= c * (x + 1) BY <1>1, <1>3, <1>4, Quotient, Zenon
<1>6. x = 1
  <2>1. CASE x = 0
    <3>1. c * (x + 1) = c BY <2>1
    <3> QED BY <1>1, <1>2, <1>3, <1>5, <3>1
  <2>2. CASE x >= 2
    <3>1. c * 2 <= c * x BY <2>2, TimesMonotone
    <3>2. c * 2 \in Int /\ c * x \in Int OBVIOUS
    <3> QED BY <1>1, <1>3, <1>5, <3>1, <3>2
  <2> QED BY <2>1, <2>2
<1>7. CASE k = 0
  <2>1. c = 1 BY <1>3, <1>7, PowerIs
  <2> QED BY <1>1, <1>3, <1>4, <1>6, <2>1
<1>8. CASE k # 0
  <2>1. k >= 1 BY <1>8
  <2> QED BY <1>3, <1>4, <1>6, <2>1 DEF Above
<1> QED BY <1>7, <1>8

\* What is above a position with room has a status that says so.
LEMMA RoomShows ==
    ASSUME NEW t, Sound(t), NEW d, NEW q, Room(t, d, q),
           NEW p \in Positions(t.order), p = q \/ Above(p, q)
    PROVE  tree_status(t, p) <= d - Depth[p]
<1>1. t \in Trees /\ t.order \in 1 .. MaxOrder BY DEF Sound, Trees
<1>2. q \in Positions(t.order) /\ Depth[q] = d /\ tree_status(t, q) = 0 BY DEF Room
<1>3. d \in Nat /\ \A x \in Positions(t.order) : Depth[x] \in Nat BY <1>1, <1>2, DepthIs DEF InRow
<1> DEFINE On(x) == x = q \/ Above(x, q)
           Shows(x) == tree_status(t, x) <= d - Depth[x]
           P == {n \in Nat : \A x \in Positions(t.order) : On(x) /\ d - Depth[x] <= n => Shows(x)}
<1>4. Shows(q) BY <1>2, <1>3
<1>5. ASSUME NEW n \in P, NEW x \in Positions(t.order), On(x), d - Depth[x] <= n + 1, x # q PROVE Shows(x)
  <2>1. Above(x, q) BY <1>5
  <2>2. Depth[x] < t.order /\ Depth[x] < d BY <1>1, <1>2, <2>1, AboveNotDeepest
  <2>3. ~InUse(t, x) BY <2>1 DEF Room
  <2>4. Settled(t, x) BY <2>2, <2>3 DEF Sound
  <2>5. PICK l \in Nat, r \in Nat, s \in Nat :
          l = tree_status(t, left_child(x)) /\ r = tree_status(t, right_child(x)) /\ s = tree_status(t, x)
    BY <1>1, <2>2, ChildrenInTree
  <2>6. x \in Nat /\ q \in Nat BY <1>1, <1>2, PositionIs
  <2>7. /\ left_child(x) \in Positions(t.order) /\ right_child(x) \in Positions(t.order)
        /\ Depth[left_child(x)] = Depth[x] + 1 /\ Depth[right_child(x)] = Depth[x] + 1
    BY <1>1, <2>2, ChildrenAre DEF left_child, right_child
  <2>8. On(left_child(x)) \/ On(right_child(x))
    <3>1. PICK k \in Nat : k >= 1 /\ x = q \div pow2[k] BY <2>1 DEF Above
    <3>2. k - 1 \in Nat /\ (k - 1) + 1 = k BY <3>1
    <3>3. PICK c \in Nat : c = pow2[k - 1] /\ c >= 1 /\ pow2[k] = c * 2 BY <3>2, PowerIs
    <3>4. PICK y \in Nat : y = q \div c BY <2>6, <3>3, Quotient
    <3>5. x = y \div 2
      <4>1. 2 \in Nat /\ 2 >= 1 OBVIOUS
      <4>2. (q \div c) \div 2 = q \div (c * 2) BY <2>6, <3>3, <4>1, QuotientTwice
      <4> QED BY <3>1, <3>3, <3>4, <4>2
    <3>6. y = left_child(x) \/ y = right_child(x) BY <2>6, <3>5, HalfIs DEF left_child, right_child
    <3>7. On(y)
      <4>1. CASE k = 1
        <5>1. c = 1 BY <3>3, <4>1, PowerIs
        <5>2. y = q BY <2>6, <3>4, <5>1
        <5> QED BY <5>2
      <4>2. CASE k # 1
        <5>1. k - 1 >= 1 BY <3>1, <4>2
        <5> QED BY <3>2, <3>3, <3>4, <5>1 DEF Above
      <4> QED BY <4>1, <4>2
    <3> QED BY <3>6, <3>7
  <2>9. d - (Depth[x] + 1) <= n BY <1>3, <1>5
  <2>10. Shows(left_child(x)) \/ Shows(right_child(x))
    <3> HIDE DEF On, Shows
    <3> QED BY <1>5, <2>7, <2>8, <2>9
  <2>11. l <= d - (Depth[x] + 1) \/ r <= d - (Depth[x] + 1) BY <2>5, <2>7, <2>10
  <2>12. s = IF l = 0 /\ r = 0 THEN 0 ELSE IF l <= r THEN l + 1 ELSE r + 1
    <3>1. s = TargetParent(l, r) BY <2>4, <2>5 DEF Settled
    <3>2. TargetParent(l, r) = IF l = 0 /\ r = 0 THEN 0 ELSE IF l <= r THEN l + 1 ELSE r + 1
      BY TargetIs, Zenon
    <3> QED BY <3>1, <3>2
  <2>13. PICK e \in Nat : e = Depth[x] BY <1>3
  <2>14. s <= d - e BY <1>3, <2>2, <2>11, <2>12, <2>13
  <2> QED BY <2>5, <2>13, <2>14
<1> HIDE DEF On, Shows
<1>6. P = Nat
  <2>1. 0 \in P
    <3> SUFFICES ASSUME NEW x \in Positions(t.order), On(x), d - Depth[x] <= 0 PROVE Shows(x) OBVIOUS
    <3>1. CASE x = q BY <1>4, <3>1
    <3>2. CASE x # q
      <4>1. Above(x, q) BY <3>2 DEF On
      <4>2. Depth[x] < d BY <1>1, <1>2, <4>1, AboveNotDeepest
      <4> QED BY <1>3, <4>2
    <3> QED BY <3>1, <3>2
  <2>2. ASSUME NEW n \in P PROVE n + 1 \in P
    <3> SUFFICES ASSUME NEW x \in Positions(t.order), On(x), d - Depth[x] <= n + 1 PROVE Shows(x) BY <2>2
    <3> QED BY <1>4, <1>5, <2>2
  <2>3. P \in SUBSET Nat OBVIOUS
  <2> HIDE DEF P
  <2> QED BY <2>1, <2>2, <2>3, NumbersUpwards
<1>7. On(p) BY DEF On
<1>8. PICK n \in Nat : d - Depth[p] <= n
  <2>1. d - Depth[p] <= d BY <1>3
  <2> QED BY <1>3, <2>1
<1>9. Shows(p) BY <1>6, <1>7, <1>8
<1> QED BY <1>9 DEF Shows

\* The search is exact in trees of any order, with and without left bias: it finds a
\* position of the wanted depth that is free and not part of a block, and fails only
\* when there is none (buddy_tree_find_free).
THEOREM SearchExact ==
    ASSUME NEW t, Sound(t), NEW d \in 1 .. t.order, NEW bias
    PROVE  \/ Room(t, d, tree_find_free(t, d, bias))
           \/ tree_find_free(t, d, bias) = INVALID_POS /\ \A q : ~Room(t, d, q)
<1>1. t \in Trees /\ t.order \in 1 .. MaxOrder BY DEF Sound, Trees
<1>2. 1 \in Positions(t.order) /\ Depth[1] = 1 BY <1>1, RootIs
<1>3. t.order \in Nat BY <1>1, OrderAssumption
<1>4. d \in Nat /\ d >= 1 BY <1>3
<1>5. 1 \in Passed(t, d) BY <1>2, <1>4 DEF Passed
<1>6. \A p \in Positions(t.order) : ~Above(p, 1)
  <2> SUFFICES ASSUME NEW p \in Positions(t.order), Above(p, 1) PROVE FALSE OBVIOUS
  <2>1. p \in Nat /\ p >= 1 BY <1>1, PositionIs
  <2>2. p = 0 BY AboveLess
  <2> QED BY <2>1, <2>2
<1>7. tree_find_free(t, d, bias) = FindFrom(t, d, bias)[1] BY Zenon DEF tree_find_free
<1>8. CASE tree_status(t, 1) <= d - Depth[1]
  <2>1. Room(t, d, FindFrom(t, d, bias)[1]) BY <1>5, <1>6, <1>8, SearchFinds
  <2> QED BY <1>7, <2>1
<1>9. CASE ~(tree_status(t, 1) <= d - Depth[1])
  <2>1. FindFrom(t, d, bias)[1] = INVALID_POS BY <1>5, <1>6, <1>9, SearchFinds
  <2>2. ASSUME NEW q, Room(t, d, q) PROVE FALSE
    <3>1. q \in Positions(t.order) BY <2>2 DEF Room
    <3>2. 1 = q \/ Above(1, q) BY <1>1, <3>1, RootAbove
    <3> QED BY <1>2, <1>9, <2>2, <3>2, RoomShows
  <2> QED BY <1>7, <2>1, <2>2
<1> QED BY <1>8, <1>9

-----------------------------------------------------------------------------
(* The slots of a position *)

LEMMA QuotientIs ==
    ASSUME NEW u \in Nat, NEW c \in Nat, c >= 1, NEW q \in Nat, c * q <= u, u < c * (q + 1)
    PROVE  u \div c = q
<1>1. PICK x \in Nat : x = u \div c BY Quotient
<1>2. c * x <= u /\ u + 1 <= c * (x + 1) BY <1>1, Quotient, Zenon
<1>3. c * x \in Int /\ c * (x + 1) \in Int /\ c * q \in Int /\ c * (q + 1) \in Int OBVIOUS
<1>4. c * x < c * (q + 1) /\ c * q < c * (x + 1) BY <1>2, <1>3
<1>5. x < q + 1 /\ q < x + 1 BY <1>4, TimesStrict
<1>6. x = q BY <1>5
<1> QED BY <1>1, <1>6

\* A position covers Width slots from Lo on, counted from the start of the arena.
Width(o, p) == pow2[o - Depth[p]]
Lo(o, p) == Width(o, p) * (p - pow2[Depth[p] - 1])

LEMMA SlotsOf ==
    ASSUME NEW o \in 1 .. MaxOrder, NEW p \in Positions(o)
    PROVE  /\ o \in Nat /\ o >= 1 /\ p \in Nat /\ p >= 1 /\ pow2[o - 1] \in Nat /\ pow2[o] = 2 * pow2[o - 1]
           /\ Width(o, p) \in Nat /\ Width(o, p) >= 1 /\ Lo(o, p) \in Nat
           /\ Lo(o, p) + Width(o, p) <= pow2[o - 1]
           /\ pow2[o - 1] + Lo(o, p) = Width(o, p) * p
<1>1. /\ o \in Nat /\ o >= 1 /\ p \in Nat /\ p >= 1 /\ InRow(p, Depth[p]) /\ Depth[p] <= o
  BY OrderAssumption, PositionIs, DepthIs
<1>2. PICK d \in Nat : d = Depth[p] /\ d >= 1 /\ d <= o /\ pow2[d - 1] <= p /\ p < pow2[d] BY <1>1 DEF InRow
<1>3. /\ d - 1 \in Nat /\ (d - 1) + 1 = d /\ o - d \in Nat /\ (o - d) + (d - 1) = o - 1
      /\ o - 1 \in Nat /\ (o - 1) + 1 = o
  BY <1>1, <1>2
<1>4. PICK w \in Nat, g \in Nat : w = pow2[o - d] /\ w >= 1 /\ g = pow2[d - 1] /\ pow2[d] = 2 * g
  BY <1>3, PowerIs
<1>5. pow2[o - 1] = w * g
  <2>1. pow2[(o - d) + (d - 1)] = pow2[o - d] * pow2[d - 1] BY <1>3, PowerSum, Zenon
  <2> QED BY <1>3, <1>4, <2>1
<1>6. PICK i \in Nat : i = p - g /\ p = g + i /\ i + 1 <= g BY <1>1, <1>2, <1>4
<1>7. w * (i + 1) <= w * g BY <1>6, TimesMonotone
<1>8. w * (i + 1) = w * i + w BY TimesSuccessor
<1>9. w * (g + i) = w * g + w * i BY SMT
<1>10. w * i \in Nat /\ w * g \in Nat OBVIOUS
<1>11. Width(o, p) = w /\ Lo(o, p) = w * i BY <1>2, <1>4, <1>6 DEF Width, Lo
<1>12. pow2[o] = 2 * pow2[o - 1] BY <1>3, PowerIs
<1> QED BY <1>1, <1>4, <1>5, <1>6, <1>7, <1>8, <1>9, <1>10, <1>11, <1>12

\* The deepest position of a slot.
Deepest(o, s) == pow2[o - 1] + s

LEMMA DeepestIs ==
    ASSUME NEW o \in 1 .. MaxOrder, NEW s \in Nat, s < pow2[o - 1]
    PROVE  /\ Deepest(o, s) \in Positions(o) /\ Depth[Deepest(o, s)] = o
           /\ Deepest(o, s) \in Nat /\ Width(o, Deepest(o, s)) = 1 /\ Lo(o, Deepest(o, s)) = s
<1>1. 1 \in Positions(o) BY RootIs
<1>2. o \in Nat /\ o >= 1 /\ pow2[o - 1] \in Nat /\ pow2[o] = 2 * pow2[o - 1] BY <1>1, SlotsOf
<1>3. o - 1 \in Nat BY <1>2
<1>4. pow2[o - 1] >= 1 BY <1>3, PowerIs
<1>5. PICK x \in Nat : x = Deepest(o, s) /\ x >= 1 /\ pow2[o - 1] <= x /\ x < pow2[o] /\ x - pow2[o - 1] = s
  BY <1>2, <1>4 DEF Deepest
<1>6. x \in Positions(o) BY <1>2, <1>5 DEF Positions
<1>7. InRow(x, o) BY <1>2, <1>5 DEF InRow
<1>8. InRow(x, Depth[x]) BY <1>6, DepthIs
<1>9. Depth[x] = o BY <1>7, <1>8, RowUnique
<1>10. o - o = 0 /\ 1 * s = s BY <1>2
<1>11. Width(o, x) = 1 BY <1>9, <1>10, PowerIs DEF Width
<1>12. Lo(o, x) = s BY <1>5, <1>9, <1>10, <1>11 DEF Lo
<1> QED BY <1>5, <1>6, <1>9, <1>11, <1>12

\* p is x or above x.
Covers(p, x) == p = x \/ Above(p, x)

LEMMA CoversShift ==
    ASSUME NEW x \in Nat, NEW p
    PROVE  Covers(p, x) <=> \E k \in Nat : p = x \div pow2[k]
<1>1. x \div pow2[0] = x /\ 0 \in Nat
  <2>1. x \div 1 = x OBVIOUS
  <2> QED BY <2>1, PowerIs
<1>2. ASSUME Covers(p, x) PROVE \E k \in Nat : p = x \div pow2[k]
  <2>1. CASE p = x BY <1>1, <2>1
  <2>2. CASE Above(p, x) BY <2>2 DEF Above
  <2> QED BY <1>2, <2>1, <2>2 DEF Covers
<1>3. ASSUME NEW k \in Nat, p = x \div pow2[k] PROVE Covers(p, x)
  <2>1. CASE k = 0 BY <1>1, <1>3, <2>1 DEF Covers
  <2>2. CASE k >= 1 BY <1>3, <2>2 DEF Above, Covers
  <2> QED BY <2>1, <2>2
<1> QED BY <1>2, <1>3

LEMMA CoversSlot ==
    ASSUME NEW o \in 1 .. MaxOrder, NEW p \in Positions(o), NEW s \in Nat, s < pow2[o - 1]
    PROVE  Covers(p, Deepest(o, s)) <=> Lo(o, p) <= s /\ s < Lo(o, p) + Width(o, p)
<1>1. PICK x \in Nat : x = Deepest(o, s) /\ x \in Positions(o) /\ Depth[x] = o BY DeepestIs
<1>2. PICK w \in Nat, lo \in Nat, g \in Nat :
        /\ w = Width(o, p) /\ w >= 1 /\ lo = Lo(o, p) /\ g = pow2[o - 1] /\ g + lo = w * p
        /\ o \in Nat /\ o >= 1 /\ p \in Nat /\ p >= 1 /\ pow2[o] = 2 * g
  BY SlotsOf
<1>3. x = g + s BY <1>1, <1>2 DEF Deepest
<1>4. w * (p + 1) = w * p + w BY <1>2, TimesSuccessor
<1>5. w * p \in Nat BY <1>2
<1>6. ASSUME lo <= s, s < lo + w PROVE Covers(p, x)
  <2>1. w * p <= x /\ x < w * (p + 1) BY <1>2, <1>3, <1>4, <1>5, <1>6
  <2>2. x \div w = p BY <1>2, <2>1, QuotientIs
  <2>3. o - Depth[p] \in Nat
    <3>1. Depth[p] \in Nat /\ Depth[p] <= o BY DepthIs DEF InRow
    <3> QED BY <1>2, <3>1
  <2>4. p = x \div pow2[o - Depth[p]] BY <1>2, <2>2 DEF Width
  <2> QED BY <2>3, <2>4, CoversShift
<1>7. ASSUME Covers(p, x) PROVE lo <= s /\ s < lo + w
  <2>1. PICK k \in Nat : p = x \div pow2[k] BY <1>7, CoversShift
  <2>2. PICK c \in Nat : c = pow2[k] /\ c >= 1 BY PowerIs
  <2>3. c * p <= x /\ x + 1 <= c * (p + 1) BY <1>2, <2>1, <2>2, Quotient, Zenon
  <2>4. x < 2 * g /\ g <= x
    <3>1. x < pow2[o] BY <1>1, PositionIs
    <3> QED BY <1>2, <1>3, <3>1
  <2>5. k < o
    <3> SUFFICES ASSUME o <= k PROVE FALSE BY <1>2
    <3>1. pow2[o] <= c BY <1>2, <2>2, PowerGrows
    <3>2. c * 1 <= c * p BY <1>2, TimesMonotone
    <3>3. c * 1 = c /\ c * p \in Int BY <1>2
    <3> QED BY <1>2, <2>3, <2>4, <3>1, <3>2, <3>3
  <2>6. PICK d \in Nat : d = o - k /\ d >= 1 /\ d - 1 \in Nat /\ o - 1 = k + (d - 1) /\ o = k + d
    BY <1>2, <2>5
  <2>7. pow2[d - 1] <= p /\ p < pow2[d]
    <3>1. PICK a \in Nat, b \in Nat : a = pow2[d - 1] /\ b = pow2[d] BY <2>6, PowerIs
    <3>2. pow2[k + (d - 1)] = pow2[k] * pow2[d - 1] /\ pow2[k + d] = pow2[k] * pow2[d]
      BY <2>6, PowerSum, Zenon
    <3>3. g = c * a /\ 2 * g = c * b BY <1>2, <2>2, <2>6, <3>1, <3>2, Zenon
    <3>4. c * a \in Int /\ c * b \in Int /\ c * p \in Int /\ c * (p + 1) \in Int BY <1>2
    <3>5. c * a < c * (p + 1) /\ c * p < c * b BY <2>3, <2>4, <3>3, <3>4
    <3>6. p + 1 \in Nat BY <1>2
    <3>7. a < p + 1 /\ p < b BY <1>2, <3>1, <3>5, <3>6, TimesStrict
    <3> QED BY <1>2, <3>1, <3>7
  <2>8. InRow(p, d) BY <2>6, <2>7 DEF InRow
  <2>9. InRow(p, Depth[p]) BY DepthIs
  <2>10. Depth[p] = d BY <1>2, <2>8, <2>9, RowUnique
  <2>11. w = c
    <3>1. o - d = k BY <2>6
    <3> QED BY <1>2, <2>2, <2>10, <3>1 DEF Width
  <2> QED BY <1>2, <1>3, <1>4, <1>5, <2>3, <2>11
<1> QED BY <1>1, <1>2, <1>6, <1>7

-----------------------------------------------------------------------------
(* Positions that share slots *)

LEMMA ShiftTwice ==
    ASSUME NEW x \in Nat, NEW j \in Nat, NEW k \in Nat
    PROVE  (x \div pow2[j]) \div pow2[k] = x \div pow2[j + k]
<1>1. PICK a \in Nat, b \in Nat : a = pow2[j] /\ a >= 1 /\ b = pow2[k] /\ b >= 1 BY PowerIs
<1>2. pow2[j + k] = a * b BY <1>1, PowerSum
<1>3. (x \div a) \div b = x \div (a * b) BY <1>1, QuotientTwice
<1> QED BY <1>1, <1>2, <1>3

LEMMA ShiftInNat ==
    ASSUME NEW x \in Nat, NEW j \in Nat
    PROVE  x \div pow2[j] \in Nat
<1>1. PICK a \in Nat : a = pow2[j] /\ a >= 1 BY PowerIs
<1> QED BY <1>1, Quotient

LEMMA CoversTrans ==
    ASSUME NEW x \in Nat, NEW q, NEW p, Covers(q, x), Covers(p, q)
    PROVE  Covers(p, x) /\ q \in Nat /\ p \in Nat
<1>1. PICK j \in Nat : q = x \div pow2[j] BY CoversShift
<1>2. q \in Nat BY <1>1, ShiftInNat
<1>3. PICK k \in Nat : p = q \div pow2[k] BY <1>2, CoversShift
<1>4. p = x \div pow2[j + k] /\ j + k \in Nat BY <1>1, <1>3, ShiftTwice
<1>5. p \in Nat BY <1>2, <1>3, ShiftInNat
<1> QED BY <1>2, <1>4, <1>5, CoversShift

\* One of them is above the other, or they are the same.
OnePath(p, q) == Covers(p, q) \/ Covers(q, p)

LEMMA OnePathDown ==
    ASSUME NEW x \in Nat, NEW p, NEW q, Covers(p, x), Covers(q, x)
    PROVE  OnePath(p, q)
<1>1. PICK j \in Nat, k \in Nat : p = x \div pow2[j] /\ q = x \div pow2[k] BY CoversShift
<1>2. p \in Nat /\ q \in Nat BY <1>1, ShiftInNat
<1>3. CASE j <= k
  <2>1. PICK i \in Nat : i = k - j /\ j + i = k BY <1>3
  <2>2. q = p \div pow2[i] BY <1>1, <2>1, ShiftTwice
  <2> QED BY <1>2, <2>2, CoversShift DEF OnePath
<1>4. CASE k <= j
  <2>1. PICK i \in Nat : i = j - k /\ k + i = j BY <1>4
  <2>2. p = q \div pow2[i] BY <1>1, <2>1, ShiftTwice
  <2> QED BY <1>2, <2>2, CoversShift DEF OnePath
<1> QED BY <1>3, <1>4

LEMMA CoversInside ==
    ASSUME NEW o \in 1 .. MaxOrder, NEW p \in Positions(o), NEW q \in Positions(o), Covers(p, q)
    PROVE  Lo(o, p) <= Lo(o, q) /\ Lo(o, q) + Width(o, q) <= Lo(o, p) + Width(o, p)
<1>1. PICK lo \in Nat, w \in Nat, a \in Nat, v \in Nat, g \in Nat :
        /\ lo = Lo(o, q) /\ w = Width(o, q) /\ w >= 1 /\ g = pow2[o - 1] /\ lo + w <= g
        /\ a = Lo(o, p) /\ v = Width(o, p)
  BY SlotsOf
<1>2. ASSUME NEW s \in Nat, lo <= s, s < lo + w PROVE a <= s /\ s < a + v
  <2>1. s < g BY <1>1, <1>2
  <2>2. Covers(q, Deepest(o, s)) BY <1>1, <1>2, <2>1, CoversSlot
  <2>3. Deepest(o, s) \in Nat BY <1>1, <2>1, DeepestIs
  <2>4. Covers(p, Deepest(o, s)) BY <2>2, <2>3, CoversTrans
  <2> QED BY <1>1, <2>1, <2>4, CoversSlot
<1>3. a <= lo BY <1>1, <1>2
<1>4. PICK e \in Nat : e = lo + w - 1 BY <1>1
<1>5. e < a + v BY <1>1, <1>2, <1>4
<1> QED BY <1>1, <1>3, <1>4, <1>5

\* The slots of two positions are disjoint.
Apart(o, p, q) == Lo(o, p) + Width(o, p) <= Lo(o, q) \/ Lo(o, q) + Width(o, q) <= Lo(o, p)

LEMMA ApartIs ==
    ASSUME NEW o \in 1 .. MaxOrder, NEW p \in Positions(o), NEW q \in Positions(o)
    PROVE  Apart(o, p, q) <=> ~OnePath(p, q)
<1>1. PICK a \in Nat, v \in Nat, b \in Nat, w \in Nat, g \in Nat :
        /\ a = Lo(o, p) /\ v = Width(o, p) /\ v >= 1 /\ g = pow2[o - 1] /\ a + v <= g
        /\ b = Lo(o, q) /\ w = Width(o, q) /\ w >= 1 /\ b + w <= g
  BY SlotsOf
<1>2. ASSUME OnePath(p, q) PROVE ~Apart(o, p, q)
  <2>1. CASE Covers(p, q)
    <3>1. a <= b /\ b + w <= a + v BY <1>1, <2>1, CoversInside
    <3> QED BY <1>1, <3>1 DEF Apart
  <2>2. CASE Covers(q, p)
    <3>1. b <= a /\ a + v <= b + w BY <1>1, <2>2, CoversInside
    <3> QED BY <1>1, <3>1 DEF Apart
  <2> QED BY <1>2, <2>1, <2>2 DEF OnePath
<1>3. ASSUME ~Apart(o, p, q) PROVE OnePath(p, q)
  <2>1. b < a + v /\ a < b + w BY <1>1, <1>3 DEF Apart
  <2>2. PICK s \in Nat : s = (IF a <= b THEN b ELSE a) OBVIOUS
  <2>3. a <= s /\ s < a + v /\ b <= s /\ s < b + w /\ s < g BY <1>1, <2>1, <2>2
  <2>4. Covers(p, Deepest(o, s)) /\ Covers(q, Deepest(o, s)) BY <1>1, <2>3, CoversSlot
  <2>5. Deepest(o, s) \in Nat BY <1>1, <2>3, DeepestIs
  <2> QED BY <2>4, <2>5, OnePathDown
<1> QED BY <1>2, <1>3

LEMMA AboveWider ==
    ASSUME NEW o \in 1 .. MaxOrder, NEW p \in Positions(o), NEW q \in Positions(o), Above(p, q)
    PROVE  Width(o, q) < Width(o, p)
<1>1. Depth[p] < Depth[q] BY AboveNotDeepest
<1>2. Depth[p] \in Nat /\ Depth[q] \in Nat /\ Depth[q] <= o /\ o \in Nat
  BY DepthIs, OrderAssumption DEF InRow
<1>3. PICK j \in Nat, k \in Nat : j = o - Depth[q] /\ k = o - Depth[p] /\ j + 1 <= k BY <1>1, <1>2
<1>4. pow2[j + 1] <= pow2[k] BY <1>3, PowerGrows
<1>5. pow2[j + 1] = 2 * pow2[j] /\ pow2[j] \in Nat /\ pow2[j] >= 1 /\ pow2[k] \in Nat BY PowerIs
<1> QED BY <1>3, <1>4, <1>5 DEF Width

\* A position whose slots are slots of p is p or below it.
LEMMA InsideCovers ==
    ASSUME NEW o \in 1 .. MaxOrder, NEW p \in Positions(o), NEW q \in Positions(o),
           Lo(o, p) <= Lo(o, q), Lo(o, q) + Width(o, q) <= Lo(o, p) + Width(o, p)
    PROVE  Covers(p, q)
<1>1. PICK a \in Nat, v \in Nat, b \in Nat, w \in Nat :
        /\ a = Lo(o, p) /\ v = Width(o, p) /\ v >= 1 /\ b = Lo(o, q) /\ w = Width(o, q) /\ w >= 1
  BY SlotsOf
<1>2. ~Apart(o, p, q) BY <1>1 DEF Apart
<1>3. OnePath(p, q) BY <1>2, ApartIs
<1>4. CASE Above(q, p)
  <2>1. v < w BY <1>1, <1>4, AboveWider
  <2> QED BY <1>1, <2>1
<1> QED BY <1>3, <1>4 DEF OnePath, Covers

\* The two halves of a position.
LEMMA ChildSlots ==
    ASSUME NEW o \in 1 .. MaxOrder, NEW p \in Positions(o), Depth[p] < o
    PROVE  /\ left_child(p) \in Positions(o) /\ right_child(p) \in Positions(o)
           /\ Depth[left_child(p)] = Depth[p] + 1 /\ Depth[right_child(p)] = Depth[p] + 1
           /\ Width(o, p) = 2 * Width(o, left_child(p)) /\ Width(o, right_child(p)) = Width(o, left_child(p))
           /\ Lo(o, left_child(p)) = Lo(o, p) /\ Lo(o, right_child(p)) = Lo(o, p) + Width(o, left_child(p))
<1>1. PICK l, r : l = left_child(p) /\ r = right_child(p) OBVIOUS
<1>2. /\ l \in Positions(o) /\ r \in Positions(o) /\ Depth[l] = Depth[p] + 1 /\ Depth[r] = Depth[p] + 1
  BY <1>1, ChildrenAre DEF left_child, right_child
<1>3. Depth[p] \in Nat /\ o \in Nat BY DepthIs, OrderAssumption DEF InRow
<1>4. PICK k \in Nat : k = o - (Depth[p] + 1) /\ o - Depth[p] = k + 1 BY <1>3
<1>5. PICK w \in Nat : w = pow2[k] /\ pow2[k + 1] = 2 * w BY PowerIs
<1>6. Width(o, l) = w /\ Width(o, r) = w /\ Width(o, p) = 2 * w BY <1>2, <1>4, <1>5 DEF Width
<1>7. PICK g \in Nat, x \in Nat, a \in Nat, b \in Nat, c \in Nat :
        g = pow2[o - 1] /\ x = p /\ a = Lo(o, p) /\ b = Lo(o, l) /\ c = Lo(o, r)
  BY <1>2, SlotsOf
<1>8. g + a = (2 * w) * x /\ g + b = w * l /\ g + c = w * r
  <2>1. /\ pow2[o - 1] + Lo(o, p) = Width(o, p) * p /\ pow2[o - 1] + Lo(o, l) = Width(o, l) * l
        /\ pow2[o - 1] + Lo(o, r) = Width(o, r) * r
    BY <1>2, SlotsOf
  <2> QED BY <1>6, <1>7, <2>1
<1>9. l = 2 * x /\ r = 2 * x + 1 BY <1>1, <1>7 DEF left_child, right_child
<1>10. w * (2 * x) = (2 * w) * x /\ w * (2 * x + 1) = (2 * w) * x + w BY SMT
<1>11. b = a /\ c = a + w
  <2>1. (2 * w) * x \in Nat OBVIOUS
  <2> QED BY <1>7, <1>8, <1>9, <1>10, <2>1
<1> QED BY <1>1, <1>2, <1>6, <1>7, <1>8, <1>11

-----------------------------------------------------------------------------
(* The geometry of an arena *)

LEMMA SamePower ==
    ASSUME NEW x \in Nat, NEW j \in Nat, NEW k \in Nat,
           x <= pow2[j], pow2[j] < 2 * x, x <= pow2[k], pow2[k] < 2 * x
    PROVE  j = k
<1>1. pow2[j] \in Nat /\ pow2[k] \in Nat /\ pow2[j + 1] = 2 * pow2[j] /\ pow2[k + 1] = 2 * pow2[k] BY PowerIs
<1>2. CASE j < k
  <2>1. pow2[j + 1] <= pow2[k] BY <1>2, PowerGrows
  <2> QED BY <1>1, <2>1
<1>3. CASE k < j
  <2>1. pow2[k + 1] <= pow2[j] BY <1>3, PowerGrows
  <2> QED BY <1>1, <2>1
<1> QED BY <1>2, <1>3

\* An arena of m bytes has n slots and a tree of order o.
Arena(m, o, n) ==
    /\ n \in Nat /\ n >= 1 /\ n <= MaxSlots /\ m = BUDDY_ALLOC_ALIGN * n
    /\ o = tree_order_for_memory(m) /\ o \in 1 .. MaxOrder
    /\ n <= pow2[o - 1] /\ pow2[o - 1] < 2 * n
    /\ effective_memory_size(m) = BUDDY_ALLOC_ALIGN * pow2[o - 1]

LEMMA ArenaIs ==
    ASSUME NEW m, WholeSlots(m)
    PROVE  \E o, n : Arena(m, o, n)
<1>1. PICK n \in 1 .. MaxSlots : m = n * BUDDY_ALLOC_ALIGN BY DEF WholeSlots
<1>2. PICK a \in Nat, e \in Nat : a = BUDDY_ALLOC_ALIGN /\ a >= 2 /\ a = pow2[e]
  <2>1. PICK e \in 1 .. 6 : BUDDY_ALLOC_ALIGN = pow2[e] BY AlignAssumption
  <2>2. e \in Nat OBVIOUS
  <2> QED BY <2>1, <2>2, AlignIs
<1>3. /\ n \in Nat /\ n >= 1 /\ n <= MaxSlots /\ MaxSlots \in Nat
      /\ m = a * n
  BY <1>1, <1>2, WidthAssumption
<1>4. PICK top \in Nat : top = pow2[30]
  <2>1. 30 \in Nat OBVIOUS
  <2> QED BY <2>1, PowerIs
<1>5. m \in Nat /\ m >= 1 /\ m <= top BY <1>2, <1>4, WholeSlotsFit
<1>6. n <= m
  <2>1. n * 1 <= n * a BY <1>2, <1>3, TimesMonotone
  <2> QED BY <1>2, <1>3, <2>1, SMT
<1>7. PICK k \in Nat : ceiling_power_of_two(n) = pow2[k] /\ n <= pow2[k] /\ pow2[k] < 2 * n
  <2>1. n <= top BY <1>3, <1>4, <1>5, <1>6
  <2> QED BY <1>3, <1>4, <2>1, CeilingPower
<1>8. PICK j \in Nat : ceiling_power_of_two(m) = pow2[j] /\ m <= pow2[j] /\ pow2[j] < 2 * m
  BY <1>4, <1>5, CeilingPower
<1>9. PICK g \in Nat : g = pow2[k] /\ g >= 1 /\ n <= g /\ g < 2 * n BY <1>7, PowerIs
<1>10. pow2[e + k] = a * g BY <1>2, <1>9, PowerSum
<1>11. a * n <= a * g /\ a * g < 2 * (a * n)
  <2>1. a * n <= a * g BY <1>3, <1>9, TimesMonotone
  <2>2. a * (g + 1) <= a * (2 * n) BY <1>3, <1>9, TimesMonotone
  <2>3. a * (g + 1) = a * g + a BY TimesSuccessor
  <2>4. a * (2 * n) = 2 * (a * n) BY <1>3, SMT
  <2>5. a * g \in Nat /\ a * n \in Nat BY <1>3
  <2> QED BY <1>2, <2>1, <2>2, <2>3, <2>4, <2>5
<1>12. j = e + k
  <2>1. e + k \in Nat OBVIOUS
  <2>2. m <= pow2[e + k] /\ pow2[e + k] < 2 * m BY <1>3, <1>10, <1>11
  <2> QED BY <1>5, <1>8, <2>1, <2>2, SamePower
<1>13. effective_memory_size(m) = a * g BY <1>8, <1>10, <1>12 DEF effective_memory_size
<1>14. k + 1 <= MaxOrder
  <2>1. MaxOrder \in Nat /\ MaxOrder - 1 \in Nat /\ (MaxOrder - 1) + 1 = MaxOrder BY OrderAssumption
  <2>2. n <= pow2[MaxOrder - 1] /\ pow2[MaxOrder] = 2 * pow2[MaxOrder - 1] /\ pow2[MaxOrder - 1] \in Nat
    BY <1>3, <2>1, SlotsAssumption, PowerIs
  <2>3. g < pow2[MaxOrder] BY <1>3, <1>9, <2>2
  <2>4. CASE MaxOrder <= k
    <3>1. pow2[MaxOrder] <= pow2[k] BY <2>1, <2>4, PowerGrows
    <3> QED BY <1>9, <2>2, <2>3, <3>1
  <2> QED BY <2>1, <2>4
<1>15. highest_bit_position(g) = k + 1
  <2>1. PICK w \in Nat : w = 32 /\ k < w BY <1>14, OrderAssumption
  <2>2. pow2[k + 1] <= pow2[w] /\ pow2[k + 1] = 2 * pow2[k] /\ pow2[w] \in Nat BY <2>1, PowerGrows, PowerIs
  <2>3. g < pow2[w] BY <1>9, <2>2
  <2>4. PICK i \in Nat : highest_bit_position(g) = i + 1 /\ pow2[i] <= g /\ g < pow2[i + 1]
    BY <1>9, <2>1, <2>3, HighestBit
  <2>5. InRow(g, i + 1) /\ InRow(g, k + 1)
    <3>1. (i + 1) - 1 = i /\ (k + 1) - 1 = k /\ i + 1 \in Nat /\ k + 1 \in Nat /\ i + 1 >= 1 /\ k + 1 >= 1 OBVIOUS
    <3>2. g < pow2[k + 1] /\ pow2[k] <= g BY <1>9, <2>2
    <3> QED BY <2>4, <3>1, <3>2 DEF InRow
  <2>6. i + 1 = k + 1 BY <2>5, RowUnique, Zenon
  <2> QED BY <2>4, <2>6
<1>16. tree_order_for_memory(m) = k + 1
  <2>1. (a * n) \div a = n
    <3>1. a >= 1 BY <1>2
    <3> QED BY <1>3, <3>1, ExactQuotient
  <2> QED BY <1>2, <1>3, <1>7, <1>9, <1>15, <2>1 DEF tree_order_for_memory
<1>17. (k + 1) - 1 = k /\ k + 1 \in 1 .. MaxOrder BY <1>14, OrderAssumption
<1>18. Arena(m, k + 1, n) BY <1>2, <1>3, <1>9, <1>13, <1>16, <1>17 DEF Arena
<1> QED BY <1>18

\* What address_for_position and size_for_depth compute, in slots.
LEMMA SizesAre ==
    ASSUME NEW m, NEW o, NEW n, Arena(m, o, n), NEW d \in 1 .. o
    PROVE  size_for_depth(m, d) = BUDDY_ALLOC_ALIGN * pow2[o - d]
<1>1. PICK a \in Nat : a = BUDDY_ALLOC_ALIGN BY AlignIs
<1>2. o \in Nat /\ d \in Nat /\ d - 1 \in Nat /\ o - d \in Nat /\ (d - 1) + (o - d) = o - 1 /\ d # 0
  BY OrderAssumption DEF Arena
<1>3. PICK b \in Nat, c \in Nat : b = pow2[d - 1] /\ b >= 1 /\ c = pow2[o - d] BY <1>2, PowerIs
<1>4. pow2[o - 1] = b * c
  <2>1. pow2[(d - 1) + (o - d)] = pow2[d - 1] * pow2[o - d] BY <1>2, PowerSum, Zenon
  <2> QED BY <1>2, <1>3, <2>1
<1>5. a * (b * c) = b * (a * c) BY SMT
<1>6. a * c \in Nat OBVIOUS
<1>7. (b * (a * c)) \div b = a * c BY <1>3, <1>6, ExactQuotient
<1>8. size_for_depth(m, d) = (a * (b * c)) \div b
  BY <1>1, <1>2, <1>3, <1>4, Zenon DEF size_for_depth, Arena
<1> QED BY <1>1, <1>3, <1>5, <1>7, <1>8

\* The block that starts at a position.
BlockAt(o, p) == [addr |-> BUDDY_ALLOC_ALIGN * Lo(o, p), size |-> BUDDY_ALLOC_ALIGN * Width(o, p)]

LEMMA HandedIs ==
    ASSUME NEW o, NEW n, Arena(memory_size, o, n), NEW p \in Positions(o)
    PROVE  /\ Handed(p) = BlockAt(o, p)
           /\ address_for_position(p) = BUDDY_ALLOC_ALIGN * Lo(o, p)
           /\ size_for_depth(memory_size, Depth[p]) = BUDDY_ALLOC_ALIGN * Width(o, p)
<1>1. o \in 1 .. MaxOrder BY DEF Arena
<1>2. Depth[p] \in 1 .. o
  <2>1. Depth[p] \in Nat /\ Depth[p] >= 1 /\ Depth[p] <= o /\ o \in Nat BY <1>1, DepthIs, OrderAssumption DEF InRow
  <2> QED BY <2>1
<1>3. size_for_depth(memory_size, Depth[p]) = BUDDY_ALLOC_ALIGN * Width(o, p) BY <1>2, SizesAre DEF Width
<1>4. PICK a \in Nat, w \in Nat, i \in Nat : a = BUDDY_ALLOC_ALIGN /\ w = Width(o, p) /\ i = p - pow2[Depth[p] - 1]
  <2>1. p - pow2[Depth[p] - 1] \in Nat BY <1>1, FieldIs
  <2> QED BY <1>1, <2>1, AlignIs, SlotsOf
<1>5. (a * w) * i = a * (w * i) BY TimesSum
<1>6. tree_index(p) = i BY <1>4 DEF tree_index
<1>7. address_for_position(p) = (a * w) * i BY <1>3, <1>4, <1>6 DEF address_for_position
<1>8. Lo(o, p) = w * i BY <1>4 DEF Lo
<1>9. address_for_position(p) = BUDDY_ALLOC_ALIGN * Lo(o, p) BY <1>4, <1>5, <1>7, <1>8
<1> QED BY <1>3, <1>9 DEF Handed, BlockAt

\* The size class of a request is a depth of the tree.
LEMMA DepthInTree ==
    ASSUME NEW o, NEW n, Arena(memory_size, o, n), NEW requested \in 1 .. memory_size
    PROVE  depth_for_size(requested) \in 1 .. o
<1>1. PICK a \in Nat, e \in Nat : a = BUDDY_ALLOC_ALIGN /\ a >= 2 /\ a = pow2[e]
  <2>1. PICK e \in 1 .. 6 : BUDDY_ALLOC_ALIGN = pow2[e] BY AlignAssumption
  <2>2. e \in Nat OBVIOUS
  <2> QED BY <2>1, <2>2, AlignIs
<1>2. n \in Nat /\ n >= 1 /\ memory_size = a * n /\ o \in 1 .. MaxOrder /\ n <= pow2[o - 1]
      /\ effective_memory_size(memory_size) = a * pow2[o - 1]
  BY <1>1 DEF Arena
<1>3. o \in Nat /\ o >= 1 /\ o - 1 \in Nat BY <1>2, OrderAssumption
<1>4. PICK j \in Nat : j = e + (o - 1) /\ effective_memory_size(memory_size) = pow2[j]
  BY <1>1, <1>2, <1>3, PowerSum
<1>5. a * n <= pow2[j]
  <2>1. PICK g \in Nat : g = pow2[o - 1] /\ n <= g BY <1>2, <1>3, PowerIs
  <2>2. a * n <= a * g BY <1>2, <2>1, TimesMonotone
  <2> QED BY <1>2, <1>4, <2>1, <2>2
<1>6. a <= a * n /\ a * n \in Nat
  <2>1. a * 1 <= a * n BY <1>2, TimesMonotone
  <2> QED BY <1>2, <2>1
<1>7. PICK r \in Nat : r = Max({requested, a}) /\ a <= r /\ 1 <= r /\ r <= a * n
  <2> DEFINE S == {requested, a}
  <2>1. S \in SUBSET Int /\ S # {} /\ a * n \in Int /\ \A x \in S : x <= a * n BY <1>1, <1>2, <1>6
  <2>2. Max(S) \in S /\ \A y \in S : y <= Max(S) BY <2>1, MaxOf
  <2> HIDE DEF Max
  <2>3. \A x \in S : x \in Nat BY <1>1, <1>2, <1>6
  <2> QED BY <1>1, <2>1, <2>2, <2>3
<1>8. r <= pow2[j] /\ 1 \in Nat
  <2>1. pow2[j] \in Nat BY PowerIs
  <2> QED BY <1>5, <1>6, <1>7, <2>1
<1>9. PICK q \in 0 .. j : DepthLoop(r)[<<pow2[j], 1>>] = 1 + (j - q) /\ r <= pow2[q] /\ pow2[q] < 2 * r
  BY <1>7, <1>8, DepthLoopRight
<1>10. depth_for_size(requested) = 1 + (j - q)
  BY <1>1, <1>4, <1>7, <1>9, Zenon DEF depth_for_size
<1>11. e <= q
  <2> SUFFICES ASSUME q + 1 <= e PROVE FALSE OBVIOUS
  <2>1. q \in Nat /\ q + 1 \in Nat OBVIOUS
  <2>2. pow2[q + 1] <= pow2[e] /\ pow2[q + 1] = 2 * pow2[q] /\ pow2[q] \in Nat /\ pow2[q] >= 1
    BY <2>1, PowerGrows, PowerIs
  <2> QED BY <1>1, <1>7, <1>9, <2>2
<1> QED BY <1>3, <1>4, <1>10, <1>11

-----------------------------------------------------------------------------
(* What is marked decides what is free *)

LEMMA SoundIs ==
    ASSUME NEW t, Sound(t)
    PROVE  t \in Trees /\ t.order \in 1 .. MaxOrder
BY DEF Sound, Trees

LEMMA MarkedIs ==
    ASSUME NEW t, Sound(t), NEW p \in Marked(t)
    PROVE  p \in Positions(t.order) /\ tree_status(t, p) # 0
<1>1. p \in Positions(t.order) /\ InUse(t, p) BY DEF Marked
<1> QED BY <1>1, SoundIs, StatusRange DEF InUse

\* What is above a marked position is not marked, and what is below has no status.
LEMMA AroundMarked ==
    ASSUME NEW t, Sound(t), NEW p \in Marked(t), NEW q \in Positions(t.order)
    PROVE  /\ Above(q, p) => q \notin Marked(t) /\ tree_status(t, q) # 0
           /\ Above(p, q) => q \notin Marked(t) /\ tree_status(t, q) = 0
<1>1. t \in Trees /\ t.order \in 1 .. MaxOrder BY SoundIs
<1>2. p \in Positions(t.order) /\ InUse(t, p) /\ tree_status(t, p) # 0 BY MarkedIs DEF Marked
<1>3. ASSUME Above(q, p) PROVE q \notin Marked(t) /\ tree_status(t, q) # 0
  <2>1. Settled(t, q) /\ tree_status(t, q) # 0 BY <1>2, <1>3, SettledAboveUsed
  <2>2. Depth[q] < t.order BY <1>1, <1>2, <1>3, AboveNotDeepest
  <2>3. ~InUse(t, q) BY <1>1, <2>1, <2>2, SettledNotInUse
  <2> QED BY <2>1, <2>3 DEF Marked
<1>4. ASSUME Above(p, q) PROVE q \notin Marked(t) /\ tree_status(t, q) = 0
  <2>1. Depth[p] < t.order BY <1>1, <1>2, <1>4, AboveNotDeepest
  <2>2. ~Settled(t, p) BY <1>1, <1>2, <2>1, SettledNotInUse
  <2>3. tree_status(t, q) = 0 BY <1>2, <1>4, <2>2, SettledAboveUsed
  <2> QED BY <2>3, MarkedIs
<1> QED BY <1>3, <1>4

LEMMA MarkedApart ==
    ASSUME NEW t, Sound(t), NEW p \in Marked(t), NEW q \in Marked(t), p # q
    PROVE  ~OnePath(p, q)
<1>1. p \in Positions(t.order) /\ q \in Positions(t.order) BY MarkedIs
<1>2. ~Above(p, q) /\ ~Above(q, p) BY <1>1, AroundMarked
<1> QED BY <1>2 DEF OnePath, Covers

\* A status comes from a marked position below.
LEMMA StatusFrom ==
    ASSUME NEW t, Sound(t), NEW x \in Positions(t.order), tree_status(t, x) # 0
    PROVE  \E p \in Marked(t) : Covers(x, p)
<1>1. t \in Trees /\ t.order \in 1 .. MaxOrder BY SoundIs
<1>2. t.order \in Nat /\ \A y \in Positions(t.order) :
        Depth[y] \in Nat /\ Depth[y] <= t.order /\ y \in Nat /\ tree_status(t, y) \in Nat
  BY <1>1, DepthIs, PositionIs, StatusRange, OrderAssumption DEF InRow
<1> DEFINE From(y) == \E p \in Marked(t) : Covers(y, p)
           P == {n \in Nat : \A y \in Positions(t.order) :
                     t.order - Depth[y] <= n /\ tree_status(t, y) # 0 => From(y)}
<1>3. ASSUME NEW y \in Positions(t.order), InUse(t, y) PROVE From(y)
  <2>1. y \in Marked(t) BY <1>3 DEF Marked
  <2>2. Covers(y, y) BY DEF Covers
  <2> QED BY <2>1, <2>2
<1>4. ASSUME NEW n \in P, NEW y \in Positions(t.order), t.order - Depth[y] <= n + 1, Depth[y] < t.order,
             tree_status(t, y) # 0
      PROVE  From(y)
  <2>1. CASE InUse(t, y) BY <1>3, <2>1
  <2>2. CASE ~InUse(t, y)
    <3>1. Settled(t, y) BY <1>4, <2>2 DEF Sound
    <3>2. PICK l, r : l = left_child(y) /\ r = right_child(y) OBVIOUS
    <3>3. /\ l \in Positions(t.order) /\ r \in Positions(t.order)
          /\ Depth[l] = Depth[y] + 1 /\ Depth[r] = Depth[y] + 1
      BY <1>1, <1>4, <3>2, ChildSlots
    <3>4. tree_status(t, l) # 0 \/ tree_status(t, r) # 0
      <4>1. TargetParent(0, 0) = 0 BY DEF TargetParent
      <4> QED BY <1>4, <3>1, <3>2, <4>1 DEF Settled
    <3>5. PICK c \in {l, r} : tree_status(t, c) # 0 BY <3>4
    <3>6. c \in Positions(t.order) /\ t.order - Depth[c] <= n BY <1>2, <1>4, <3>3, <3>5
    <3>7. PICK p \in Marked(t) : Covers(c, p)
      <4> HIDE DEF From
      <4>1. From(c) BY <1>4, <3>5, <3>6
      <4> QED BY <4>1 DEF From
    <3>8. Covers(y, c)
      <4>1. y \in Nat /\ c \in Nat BY <1>2, <3>6
      <4>2. parent(c) = y BY <3>2, <3>5, <4>1, ParentOfChild
      <4> QED BY <4>1, <4>2, AboveIs DEF Covers
    <3>9. p \in Nat BY <1>2, MarkedIs
    <3>10. Covers(y, p) BY <3>7, <3>8, <3>9, CoversTrans
    <3> QED BY <3>10
  <2> QED BY <2>1, <2>2
<1>5. ASSUME NEW y \in Positions(t.order), ~(Depth[y] < t.order), tree_status(t, y) # 0 PROVE From(y)
  <2>1. Depth[y] = t.order BY <1>2, <1>5
  <2>2. tree_status(t, y) <= t.order - Depth[y] + 1 /\ local_offset(t, y) = t.order - Depth[y] + 1
    BY <1>1, StatusRange
  <2>3. tree_status(t, y) = local_offset(t, y) BY <1>2, <1>5, <2>1, <2>2
  <2>4. InUse(t, y) BY <1>5, <2>3 DEF InUse
  <2> QED BY <1>3, <2>4
<1> HIDE DEF From
<1>6. P = Nat
  <2>1. 0 \in P
    <3> SUFFICES ASSUME NEW y \in Positions(t.order), t.order - Depth[y] <= 0, tree_status(t, y) # 0 PROVE From(y)
      OBVIOUS
    <3>1. ~(Depth[y] < t.order) BY <1>2
    <3> QED BY <1>5, <3>1
  <2>2. ASSUME NEW n \in P PROVE n + 1 \in P
    <3> SUFFICES ASSUME NEW y \in Positions(t.order), t.order - Depth[y] <= n + 1, tree_status(t, y) # 0
                 PROVE  From(y)
      BY <2>2
    <3> QED BY <1>4, <1>5, <2>2
  <2>3. P \in SUBSET Nat OBVIOUS
  <2> HIDE DEF P
  <2> QED BY <2>1, <2>2, <2>3, NumbersUpwards
<1>7. t.order - Depth[x] \in Nat BY <1>2
<1>8. t.order - Depth[x] \in P /\ t.order - Depth[x] <= t.order - Depth[x] BY <1>6, <1>7
<1>9. From(x) BY <1>8
<1> QED BY <1>9 DEF From

\* A position has room exactly when it shares no slot with a marked one.
LEMMA RoomIs ==
    ASSUME NEW t, Sound(t), NEW r \in Positions(t.order)
    PROVE  Room(t, Depth[r], r) <=> \A p \in Marked(t) : ~OnePath(p, r)
<1>1. t \in Trees /\ t.order \in 1 .. MaxOrder BY SoundIs
<1>2. ASSUME Room(t, Depth[r], r), NEW p \in Marked(t) PROVE ~OnePath(p, r)
  <2>1. p # r BY <1>2, MarkedIs DEF Room
  <2>2. ~Above(p, r) BY <1>2 DEF Room, Marked
  <2>3. ~Above(r, p) BY <1>2, AroundMarked DEF Room
  <2> QED BY <2>1, <2>2, <2>3 DEF OnePath, Covers
<1>3. ASSUME \A p \in Marked(t) : ~OnePath(p, r) PROVE Room(t, Depth[r], r)
  <2>1. tree_status(t, r) = 0 BY <1>3, StatusFrom DEF OnePath
  <2>2. \A p \in Positions(t.order) : Above(p, r) => ~InUse(t, p) BY <1>3 DEF OnePath, Covers, Marked
  <2> QED BY <2>1, <2>2 DEF Room
<1> QED BY <1>2, <1>3

LEMMA MarkFree ==
    ASSUME NEW t, Sound(t), NEW r \in Positions(t.order), \A p \in Marked(t) : ~OnePath(p, r)
    PROVE  /\ Sound(tree_mark(t, r)) /\ tree_mark(t, r).order = t.order
           /\ Marked(tree_mark(t, r)) = Marked(t) \cup {r}
<1>1. Room(t, Depth[r], r) BY RoomIs
<1> QED BY <1>1, MarkExact DEF Room

-----------------------------------------------------------------------------
(* position_for_address *)

LEMMA UsedAboveUnfolds ==
    \A pos \in Nat :
        UsedAbove[pos] = IF tree_valid(tree, pos) /\ tree_status(tree, pos) = 0 THEN UsedAbove[parent(pos)] ELSE pos
<1> DEFINE Go(pos) == tree_valid(tree, pos) /\ tree_status(tree, pos) = 0
           Step(pos, f) == IF Go(pos) THEN f[parent(pos)] ELSE pos
           m == [pos \in Nat |-> pos]
           G == [pos \in Nat |-> [f \in [Nat -> Nat] |-> Step(pos, f)]]
<1>1. ASSUME NEW pos \in Nat, Go(pos) PROVE parent(pos) \in Nat /\ parent(pos) < pos
  <2>1. pos >= 1 BY <1>1 DEF tree_valid, Positions
  <2> QED BY <2>1, HalfIs DEF parent
<1> HIDE DEF Go
<1>2. ASSUME NEW pos \in Nat PROVE parent(pos) \in Nat BY HalfIs DEF parent
<1>3. G \in [Nat -> [[Nat -> Nat] -> Nat]] BY <1>2
<1>4. Descends(Nat, Nat, m, G)
  <2> SUFFICES ASSUME NEW pos \in Nat, NEW f \in [Nat -> Nat], NEW g \in [Nat -> Nat],
                      \A j \in Nat : m[j] < m[pos] => f[j] = g[j]
               PROVE  Step(pos, f) = Step(pos, g)
    BY DEF Descends
  <2>1. Go(pos) => f[parent(pos)] = g[parent(pos)] BY <1>1
  <2> QED BY <2>1
<1>5. PICK f : Solves(Nat, Nat, G, f)
  <2>1. m \in [Nat -> Nat] /\ Nat # {} OBVIOUS
  <2>2. WellDefined(Nat, Nat, m, G) BY <1>3, <1>4, <2>1 DEF WellDefined
  <2> HIDE DEF m, G
  <2> QED BY <2>2, RecursionExists, Zenon
<1>6. f = [pos \in Nat |-> Step(pos, f)] BY <1>5 DEF Solves
<1> DEFINE U(h) == h = [pos \in Nat |-> Step(pos, h)]
<1>7. UsedAbove = CHOOSE h : U(h) BY Zenon DEF UsedAbove, Go
<1>8. U(UsedAbove) BY <1>6, <1>7, Zenon
<1> QED BY <1>8, Zenon DEF Go

LEMMA UsedAboveFinds ==
    ASSUME Sound(tree), NEW p \in Marked(tree), NEW x \in Positions(tree.order), Covers(p, x)
    PROVE  UsedAbove[x] = p
<1>1. tree \in Trees /\ tree.order \in 1 .. MaxOrder BY SoundIs
<1>2. p \in Positions(tree.order) /\ tree_status(tree, p) # 0 BY MarkedIs
<1>3. p \in Nat /\ p >= 1 /\ x \in Nat BY <1>1, <1>2, PositionIs
<1> DEFINE P == {n \in Nat : \A y \in Positions(tree.order) : y <= n /\ Covers(p, y) => UsedAbove[y] = p}
<1>4. UsedAbove[p] = p BY <1>2, <1>3, UsedAboveUnfolds
<1>5. ASSUME NEW n \in P, NEW y \in Positions(tree.order), y <= n + 1, Covers(p, y), y # p PROVE UsedAbove[y] = p
  <2>1. Above(p, y) BY <1>5 DEF Covers
  <2>2. tree_status(tree, y) = 0 BY <2>1, AroundMarked
  <2>3. y \in Nat /\ y # 1 BY <1>1, <1>3, <2>1, PositionIs, AboveInTree
  <2>4. parent(y) \in Positions(tree.order) /\ parent(y) < y BY <1>1, <2>3, ParentIs
  <2>5. Covers(p, parent(y)) BY <2>1, <2>3, AboveIs DEF Covers
  <2>6. parent(y) <= n
    <3>1. parent(y) \in Nat BY <1>1, <2>4, PositionIs
    <3> QED BY <1>5, <2>3, <2>4, <3>1
  <2>7. UsedAbove[parent(y)] = p BY <1>5, <2>4, <2>5, <2>6
  <2>8. tree_valid(tree, y) BY DEF tree_valid
  <2> QED BY <2>2, <2>3, <2>7, <2>8, UsedAboveUnfolds
<1>6. P = Nat
  <2>1. 0 \in P
    <3>1. \A y \in Positions(tree.order) : ~(y <= 0) BY <1>1, PositionIs
    <3> QED BY <3>1
  <2>2. ASSUME NEW n \in P PROVE n + 1 \in P
    <3> SUFFICES ASSUME NEW y \in Positions(tree.order), y <= n + 1, Covers(p, y) PROVE UsedAbove[y] = p BY <2>2
    <3> QED BY <1>4, <1>5, <2>2
  <2>3. P \in SUBSET Nat OBVIOUS
  <2> HIDE DEF P
  <2> QED BY <2>1, <2>2, <2>3, NumbersUpwards
<1>7. x \in P /\ x <= x BY <1>3, <1>6
<1> QED BY <1>7

\* The address of a block leads back to its position.
LEMMA PositionFound ==
    ASSUME Sound(tree), NEW p \in Marked(tree)
    PROVE  position_for_address(BUDDY_ALLOC_ALIGN * Lo(tree.order, p)) = p
<1>1. tree.order \in 1 .. MaxOrder /\ p \in Positions(tree.order) BY SoundIs, MarkedIs
<1>2. PICK o, lo \in Nat, w \in Nat, g \in Nat :
        /\ o = tree.order /\ lo = Lo(o, p) /\ w = Width(o, p) /\ w >= 1 /\ g = pow2[o - 1] /\ lo + w <= g
  BY <1>1, SlotsOf
<1>3. lo < g /\ lo < lo + w BY <1>2
<1>4. Covers(p, Deepest(o, lo)) BY <1>1, <1>2, <1>3, CoversSlot
<1>5. Deepest(o, lo) \in Positions(o) BY <1>1, <1>2, <1>3, DeepestIs
<1>6. (BUDDY_ALLOC_ALIGN * lo) \div BUDDY_ALLOC_ALIGN = lo
  <2>1. PICK a \in Nat : a = BUDDY_ALLOC_ALIGN /\ a >= 1 BY AlignIs
  <2>2. (a * lo) \div a = lo BY <2>1, ExactQuotient
  <2> QED BY <2>1, <2>2
<1>7. deepest_position_for_offset(BUDDY_ALLOC_ALIGN * lo) = Deepest(o, lo)
  BY <1>2, <1>6 DEF deepest_position_for_offset, leftmost_child, Deepest
<1> QED BY <1>2, <1>4, <1>5, <1>7, UsedAboveFinds DEF position_for_address

-----------------------------------------------------------------------------
(* The bits stay in front of the table *)

\* Trees of order o whose bits are all in the rows of the tree.
TreesOf(o) == {t \in Trees : t.order = o /\ t.bits \subseteq 0 .. SizeForOrder[o][0] - 1}

LEMMA WriteInBounds ==
    ASSUME NEW o \in 1 .. MaxOrder, NEW t \in TreesOf(o), NEW pos \in Positions(o),
           NEW value \in 0 .. local_offset(t, pos)
    PROVE  SetStatus(t, pos, value) \in TreesOf(o)
<1>1. t \in Trees /\ t.order = o /\ t.bits \subseteq 0 .. SizeForOrder[o][0] - 1 BY DEF TreesOf
<1>2. PICK x : x = internal_position[o][pos] OBVIOUS
<1>3. PICK h : h = x.local_offset OBVIOUS
<1>4. /\ o \in Nat /\ h \in 1 .. o /\ x.at \in Nat /\ x.at + h <= size_for_order(o)[h - 1]
  BY <1>2, <1>3, FieldInRow
<1>5. PICK top \in Nat : top = SizeForOrder[o][0] /\ x.at + h <= top
  <2>1. SizeForOrder[o] = size_for_order(o) BY Zenon DEF SizeForOrder
  <2>2. 0 \in 0 .. o /\ h - 1 \in 0 .. o /\ 0 <= h - 1 BY <1>4
  <2>3. size_for_order(o)[h - 1] <= size_for_order(o)[0] BY <1>4, <2>2, RowsDescend
  <2>4. size_for_order(o)[h - 1] \in Nat /\ size_for_order(o)[0] \in Nat BY <1>4, <2>2, SizesUnfold
  <2> QED BY <1>4, <2>1, <2>3, <2>4
<1>6. value \in 0 .. h BY <1>1, <1>2, <1>3 DEF local_offset
<1>7. PICK bits : bits = write_to(t.bits, x, value) OBVIOUS
<1>8. bits \subseteq t.bits \cup (x.at .. x.at + value - 1)
  BY <1>7 DEF write_to, bitset_set_range, bitset_clear_range
<1>9. x.at .. x.at + value - 1 \subseteq 0 .. top - 1 BY <1>4, <1>5, <1>6
<1>10. bits \subseteq 0 .. top - 1 BY <1>1, <1>5, <1>8, <1>9
<1>11. SetStatus(t, pos, value) = [t EXCEPT !.bits = bits] BY <1>1, <1>2, <1>7 DEF SetStatus
<1>12. t \in [order : 1 .. MaxOrder, bits : SUBSET Nat] BY <1>1 DEF Trees
<1>13. SetStatus(t, pos, value).bits = bits BY <1>11, <1>12
<1>14. SetStatus(t, pos, value) \in Trees /\ SetStatus(t, pos, value).order = o BY <1>1, StatusWrites
<1> QED BY <1>5, <1>10, <1>13, <1>14 DEF TreesOf

LEMMA ChainInBounds ==
    ASSUME NEW o \in 1 .. MaxOrder, NEW t \in TreesOf(o), NEW pos \in Positions(o), NEW cur \in Nat
    PROVE  update_parent_chain[<<t, pos, cur>>] \in TreesOf(o)
<1> DEFINE Result(a, b, c) == update_parent_chain[<<a, b, c>>]
           P == {n \in Nat : \A a \in TreesOf(o), b \in Positions(o), c \in Nat : b <= n => Result(a, b, c) \in TreesOf(o)}
<1>1. ASSUME NEW n \in P, NEW a \in TreesOf(o), NEW b \in Positions(o), NEW c \in Nat, b <= n + 1
      PROVE  Result(a, b, c) \in TreesOf(o)
  <2>1. a \in Trees /\ a.order = o /\ b \in Nat BY PositionIs DEF TreesOf
  <2>2. PICK target : target = TargetParent(c, tree_status(a, sibling(b))) OBVIOUS
  <2>3. Result(a, b, c) = IF b = 1 THEN a
                          ELSE IF target = tree_status(a, parent(b)) THEN a
                          ELSE Result(SetStatus(a, parent(b), target), parent(b), target)
    BY <2>1, <2>2, ChainUnfolds
  <2>4. CASE b # 1 /\ target # tree_status(a, parent(b))
    <3>1. parent(b) \in Positions(o) /\ parent(b) < b /\ parent(b) \in Nat BY <2>4, ParentIs, PositionIs
    <3>2. target \in 0 .. local_offset(a, parent(b)) BY <2>1, <2>2, <2>4, TargetFits
    <3>3. SetStatus(a, parent(b), target) \in TreesOf(o) BY <3>1, <3>2, WriteInBounds
    <3>4. target \in Nat /\ parent(b) <= n BY <1>1, <2>1, <3>1, <3>2
    <3>5. Result(SetStatus(a, parent(b), target), parent(b), target) \in TreesOf(o)
      <4> HIDE DEF Result
      <4> QED BY <1>1, <3>1, <3>3, <3>4
    <3> QED BY <2>3, <2>4, <3>5
  <2> QED BY <2>3, <2>4
<1> HIDE DEF Result
<1>2. P = Nat
  <2>1. 0 \in P
    <3>1. \A b \in Positions(o) : ~(b <= 0) BY PositionIs
    <3> QED BY <3>1
  <2>2. ASSUME NEW n \in P PROVE n + 1 \in P BY <1>1, <2>2
  <2>3. P \in SUBSET Nat OBVIOUS
  <2> HIDE DEF P
  <2> QED BY <2>1, <2>2, <2>3, NumbersUpwards
<1>3. pos \in Nat BY PositionIs
<1>4. pos \in P /\ pos <= pos BY <1>2, <1>3
<1> QED BY <1>4 DEF Result

LEMMA TogglesInBounds ==
    ASSUME NEW o \in 1 .. MaxOrder, NEW t \in TreesOf(o), NEW pos \in Positions(o)
    PROVE  tree_mark(t, pos) \in TreesOf(o) /\ tree_release(t, pos) \in TreesOf(o)
<1>1. t \in Trees /\ t.order = o BY DEF TreesOf
<1>2. local_offset(t, pos) \in Nat BY <1>1, StatusRange
<1>3. 0 \in 0 .. local_offset(t, pos) /\ local_offset(t, pos) \in 0 .. local_offset(t, pos) /\ 0 \in Nat BY <1>2
<1>4. SetStatus(t, pos, 0) \in TreesOf(o) /\ SetStatus(t, pos, local_offset(t, pos)) \in TreesOf(o)
  BY <1>3, WriteInBounds
<1> QED BY <1>2, <1>3, <1>4, ChainInBounds DEF tree_mark, tree_release

-----------------------------------------------------------------------------
(* Marking and releasing several positions *)

\* The loop of toggle_virtual_slots and toggle_range_reservation.
ToggleLoop(t, positions, state) ==
    LET toggled[i \in 0 .. Len(positions)] ==
            IF i = 0 THEN t
            ELSE IF state THEN tree_mark(toggled[i - 1], positions[i])
            ELSE tree_release(toggled[i - 1], positions[i])
    IN  toggled

LEMMA ToggleLoopUnfolds ==
    ASSUME NEW o \in 1 .. MaxOrder, NEW t \in TreesOf(o), NEW positions \in Seq(Positions(o)), NEW state
    PROVE  /\ Toggled(t, positions, state) = ToggleLoop(t, positions, state)[Len(positions)]
           /\ ToggleLoop(t, positions, state) \in [0 .. Len(positions) -> TreesOf(o)]
           /\ ToggleLoop(t, positions, state)[0] = t
           /\ \A i \in 1 .. Len(positions) : ToggleLoop(t, positions, state)[i] =
                IF state THEN tree_mark(ToggleLoop(t, positions, state)[i - 1], positions[i])
                ELSE tree_release(ToggleLoop(t, positions, state)[i - 1], positions[i])
<1> DEFINE D == 0 .. Len(positions)
           T == TreesOf(o)
           Go(x, i) == IF state THEN tree_mark(x, positions[i]) ELSE tree_release(x, positions[i])
           Step(i, f) == IF i = 0 THEN t ELSE Go(f[i - 1], i)
           m == [i \in D |-> i]
           G == [i \in D |-> [f \in [D -> T] |-> Step(i, f)]]
<1>0. Len(positions) \in Nat OBVIOUS
<1>1. ASSUME NEW i \in D, i # 0 PROVE i - 1 \in D /\ i - 1 < i BY <1>0, <1>1
<1>2. ASSUME NEW i \in D, i # 0, NEW x \in T PROVE Go(x, i) \in T
  <2>1. i \in 1 .. Len(positions) BY <1>0, <1>2
  <2>2. positions[i] \in Positions(o) BY <2>1
  <2> QED BY <2>2, TogglesInBounds
<1> HIDE DEF Go
<1>3. G \in [D -> [[D -> T] -> T]]
  <2> SUFFICES ASSUME NEW i \in D, NEW f \in [D -> T] PROVE Step(i, f) \in T OBVIOUS
  <2>1. CASE i = 0 BY <2>1
  <2>2. CASE i # 0
    <3>1. f[i - 1] \in T BY <1>1, <2>2
    <3> HIDE DEF T
    <3>2. Go(f[i - 1], i) \in T BY <1>2, <2>2, <3>1
    <3> QED BY <2>2, <3>2
  <2> QED BY <2>1, <2>2
<1>4. Descends(D, T, m, G)
  <2> SUFFICES ASSUME NEW i \in D, NEW f \in [D -> T], NEW g \in [D -> T],
                      \A j \in D : m[j] < m[i] => f[j] = g[j]
               PROVE  Step(i, f) = Step(i, g)
    BY DEF Descends
  <2>1. i # 0 => f[i - 1] = g[i - 1] BY <1>1
  <2> QED BY <2>1
<1>5. PICK f : Solves(D, T, G, f)
  <2>1. m \in [D -> Nat] OBVIOUS
  <2>2. T # {} OBVIOUS
  <2>3. WellDefined(D, T, m, G) BY <1>3, <1>4, <2>1, <2>2 DEF WellDefined
  <2> HIDE DEF D, T, m, G
  <2> QED BY <2>3, RecursionExists, Zenon
<1>6. f \in [D -> T] /\ f = [i \in D |-> Step(i, f)] BY <1>5 DEF Solves
<1> DEFINE L == ToggleLoop(t, positions, state)
           U(h) == h = [i \in D |-> Step(i, h)]
<1>7. L = CHOOSE h : U(h) BY Zenon DEF ToggleLoop, Go
<1>8. U(L) BY <1>6, <1>7, Zenon
<1>9. Toggled(t, positions, state) = L[Len(positions)] BY Zenon DEF Toggled, ToggleLoop
<1> HIDE DEF L
<1>10. \A i \in D : L[i] = Step(i, L) BY <1>8, Zenon
<1>11. DOMAIN L = D /\ L = [i \in D |-> L[i]] BY <1>8
<1>12. \A i \in D : L[i] \in T
  <2> DEFINE P == {n \in Nat : n \in D => L[n] \in T}
  <2>1. 0 \in P
    <3>1. 0 \in D BY <1>0
    <3> QED BY <1>10, <3>1
  <2>2. ASSUME NEW n \in P PROVE n + 1 \in P
    <3> SUFFICES ASSUME n + 1 \in D PROVE L[n + 1] \in T BY <2>2
    <3>1. n \in D /\ n + 1 # 0 /\ (n + 1) - 1 = n BY <1>0, <2>2
    <3>2. L[n] \in T BY <2>2, <3>1
    <3> HIDE DEF T
    <3>3. Go(L[n], n + 1) \in T BY <1>2, <3>1, <3>2
    <3> QED BY <1>10, <3>1, <3>3
  <2>3. P = Nat
    <3>1. P \in SUBSET Nat OBVIOUS
    <3> HIDE DEF P
    <3> QED BY <2>1, <2>2, <3>1, NumbersUpwards
  <2>4. D \subseteq Nat OBVIOUS
  <2> HIDE DEF D, T
  <2> QED BY <2>3, <2>4
<1>13. L \in [D -> T] BY <1>11, <1>12
<1>14. L[0] = t /\ \A i \in 1 .. Len(positions) : L[i] = Go(L[i - 1], i)
  <2>1. 0 \in D /\ \A i \in 1 .. Len(positions) : i \in D /\ i # 0 BY <1>0
  <2> QED BY <1>10, <2>1
<1> QED BY <1>9, <1>13, <1>14 DEF L, Go

\* The positions are free and share no slot; they become marked, and nothing else.
Spread(t, positions) ==
    /\ \A i \in 1 .. Len(positions) : \A p \in Marked(t) : ~OnePath(p, positions[i])
    /\ \A i, j \in 1 .. Len(positions) : i < j => ~OnePath(positions[i], positions[j])
AllMarked(o, t, positions, r) ==
    /\ r \in TreesOf(o) /\ Sound(r)
    /\ Marked(r) = Marked(t) \cup {positions[i] : i \in 1 .. Len(positions)}

LEMMA MarkAll ==
    ASSUME NEW o \in 1 .. MaxOrder, NEW t \in TreesOf(o), Sound(t), NEW positions \in Seq(Positions(o)),
           Spread(t, positions)
    PROVE  AllMarked(o, t, positions, Toggled(t, positions, TRUE))
<1>9. PICK r : r = Toggled(t, positions, TRUE) OBVIOUS
<1>10. /\ \A i \in 1 .. Len(positions) : \A p \in Marked(t) : ~OnePath(p, positions[i])
       /\ \A i, j \in 1 .. Len(positions) : i < j => ~OnePath(positions[i], positions[j])
  BY DEF Spread
<1> DEFINE L == ToggleLoop(t, positions, TRUE)
           len == Len(positions)
           M(n) == Marked(t) \cup {positions[i] : i \in 1 .. n}
           P == {n \in Nat : n <= len => Sound(L[n]) /\ Marked(L[n]) = M(n)}
<1>1. /\ r = L[len] /\ L \in [0 .. len -> TreesOf(o)] /\ L[0] = t
      /\ \A i \in 1 .. len : L[i] = tree_mark(L[i - 1], positions[i])
  BY <1>9, ToggleLoopUnfolds
<1>2. len \in Nat OBVIOUS
<1> HIDE DEF L
<1>3. 0 \in P
  <2>1. M(0) = Marked(t) OBVIOUS
  <2> QED BY <1>1, <2>1
<1>4. ASSUME NEW n \in P PROVE n + 1 \in P
  <2> SUFFICES ASSUME n + 1 <= len PROVE Sound(L[n + 1]) /\ Marked(L[n + 1]) = M(n + 1) BY <1>4
  <2>1. n \in Nat /\ n <= len /\ n \in 0 .. len /\ n + 1 \in 1 .. len /\ (n + 1) - 1 = n BY <1>2, <1>4
  <2>2. PICK x, q : x = L[n] /\ q = positions[n + 1] OBVIOUS
  <2>3. Sound(x) /\ Marked(x) = M(n) BY <1>4, <2>1, <2>2
  <2>4. x.order = o BY <1>1, <2>1, <2>2 DEF TreesOf
  <2>5. q \in Positions(o) BY <2>1, <2>2
  <2>6. ASSUME NEW p \in Marked(x) PROVE ~OnePath(p, q)
    <3>1. CASE p \in Marked(t) BY <1>10, <2>1, <2>2, <3>1
    <3>2. ASSUME NEW i \in 1 .. n, p = positions[i] PROVE ~OnePath(p, q)
      <4>1. i \in 1 .. len /\ i < n + 1 BY <1>2, <2>1, <3>2
      <4> QED BY <1>10, <2>1, <2>2, <3>2, <4>1
    <3> QED BY <2>3, <2>6, <3>1, <3>2
  <2>7. Sound(tree_mark(x, q)) /\ Marked(tree_mark(x, q)) = Marked(x) \cup {q} BY <2>3, <2>4, <2>5, <2>6, MarkFree
  <2>8. L[n + 1] = tree_mark(x, q) BY <1>1, <2>1, <2>2
  <2>9. 1 .. n + 1 = (1 .. n) \cup {n + 1} BY <2>1
  <2>10. M(n + 1) = M(n) \cup {q} BY <2>2, <2>9
  <2> QED BY <2>3, <2>7, <2>8, <2>10
<1>5. P = Nat
  <2>1. P \in SUBSET Nat OBVIOUS
  <2> HIDE DEF P
  <2> QED BY <1>3, <1>4, <2>1, NumbersUpwards
<1>6. len \in P BY <1>2, <1>5
<1>7. L[len] \in TreesOf(o) BY <1>1, <1>2
<1>8. Sound(L[len]) /\ Marked(L[len]) = M(len)
  <2>1. len <= len BY <1>2
  <2> QED BY <1>6, <2>1
<1>11. AllMarked(o, t, positions, L[len]) BY <1>7, <1>8 DEF AllMarked
<1> QED BY <1>1, <1>9, <1>11, Zenon

\* The positions are marked; they become free, and nothing else.
Releasable(t, positions) ==
    /\ \A i \in 1 .. Len(positions) : positions[i] \in Marked(t)
    /\ \A i, j \in 1 .. Len(positions) : i < j => positions[i] # positions[j]
AllReleased(o, t, positions, r) ==
    /\ r \in TreesOf(o) /\ Sound(r)
    /\ Marked(r) = Marked(t) \ {positions[i] : i \in 1 .. Len(positions)}

LEMMA ReleaseAll ==
    ASSUME NEW o \in 1 .. MaxOrder, NEW t \in TreesOf(o), Sound(t), NEW positions \in Seq(Positions(o)),
           Releasable(t, positions)
    PROVE  AllReleased(o, t, positions, Toggled(t, positions, FALSE))
<1>0. PICK state : state = FALSE OBVIOUS
<1>9. PICK r : r = Toggled(t, positions, FALSE) OBVIOUS
<1>10. /\ \A i \in 1 .. Len(positions) : positions[i] \in Marked(t)
       /\ \A i, j \in 1 .. Len(positions) : i < j => positions[i] # positions[j]
  BY DEF Releasable
<1> DEFINE L == ToggleLoop(t, positions, state)
           len == Len(positions)
           M(n) == Marked(t) \ {positions[i] : i \in 1 .. n}
           P == {n \in Nat : n <= len => Sound(L[n]) /\ Marked(L[n]) = M(n)}
<1>1. /\ r = L[len] /\ L \in [0 .. len -> TreesOf(o)] /\ L[0] = t
      /\ \A i \in 1 .. len : L[i] = tree_release(L[i - 1], positions[i])
  <2>1. /\ Toggled(t, positions, state) = L[len] /\ L \in [0 .. len -> TreesOf(o)] /\ L[0] = t
        /\ \A i \in 1 .. len : L[i] = IF state THEN tree_mark(L[i - 1], positions[i])
                                 ELSE tree_release(L[i - 1], positions[i])
    BY ToggleLoopUnfolds
  <2>2. ~state BY <1>0
  <2> QED BY <1>0, <1>9, <2>1, <2>2
<1>2. len \in Nat OBVIOUS
<1> HIDE DEF L
<1>3. 0 \in P
  <2>1. M(0) = Marked(t) OBVIOUS
  <2> QED BY <1>1, <2>1
<1>4. ASSUME NEW n \in P PROVE n + 1 \in P
  <2> SUFFICES ASSUME n + 1 <= len PROVE Sound(L[n + 1]) /\ Marked(L[n + 1]) = M(n + 1) BY <1>4
  <2>1. n \in Nat /\ n <= len /\ n \in 0 .. len /\ n + 1 \in 1 .. len /\ (n + 1) - 1 = n BY <1>2, <1>4
  <2>2. PICK x, q : x = L[n] /\ q = positions[n + 1] OBVIOUS
  <2>3. Sound(x) /\ Marked(x) = M(n) BY <1>4, <2>1, <2>2
  <2>4. q \in Marked(x)
    <3>1. \A i \in 1 .. n : positions[i] # q
      <4> SUFFICES ASSUME NEW i \in 1 .. n PROVE positions[i] # q OBVIOUS
      <4>1. i \in 1 .. len /\ i < n + 1 BY <1>2, <2>1
      <4> QED BY <1>10, <2>1, <2>2, <4>1
    <3>2. q \in Marked(t) BY <1>10, <2>1, <2>2
    <3> QED BY <2>3, <3>1, <3>2
  <2>5. Sound(tree_release(x, q)) /\ Marked(tree_release(x, q)) = Marked(x) \ {q} BY <2>3, <2>4, ReleaseExact
  <2>6. L[n + 1] = tree_release(x, q) BY <1>1, <2>1, <2>2
  <2>7. 1 .. n + 1 = (1 .. n) \cup {n + 1} BY <2>1
  <2>8. M(n + 1) = M(n) \ {q} BY <2>2, <2>7
  <2> QED BY <2>3, <2>5, <2>6, <2>8
<1>5. P = Nat
  <2>1. P \in SUBSET Nat OBVIOUS
  <2> HIDE DEF P
  <2> QED BY <1>3, <1>4, <2>1, NumbersUpwards
<1>6. len \in P BY <1>2, <1>5
<1>7. L[len] \in TreesOf(o) BY <1>1, <1>2
<1>8. Sound(L[len]) /\ Marked(L[len]) = M(len)
  <2>1. len <= len BY <1>2
  <2> QED BY <1>6, <2>1
<1>11. AllReleased(o, t, positions, L[len]) BY <1>7, <1>8 DEF AllReleased
<1> QED BY <1>1, <1>9, <1>11, Zenon

-----------------------------------------------------------------------------
(* The slots beyond the arena *)

LEMMA NoRemainder ==
    ASSUME NEW a \in Nat, a >= 1, NEW u \in Nat
    PROVE  (u % a) = 0 <=> \E k \in Nat : u = a * k
<1>1. PICK r \in Nat, q \in Nat : r = (u % a) /\ u = a * q + r /\ r < a BY Division
<1>2. ASSUME r = 0 PROVE \E k \in Nat : u = a * k
  <2>1. a * q + 0 = a * q OBVIOUS
  <2> QED BY <1>1, <1>2, <2>1
<1>3. ASSUME NEW k \in Nat, u = a * k PROVE r = 0
  <2>1. a * k = a * q + r BY <1>1, <1>3
  <2>2. a * (q + 1) = a * q + a /\ a * q \in Nat /\ a * k \in Nat BY TimesSuccessor
  <2>3. a * k < a * (q + 1) BY <1>1, <2>1, <2>2
  <2>4. k < q + 1 BY <2>3, TimesStrict
  <2>5. a * k <= a * q BY <2>4, TimesMonotone
  <2> QED BY <1>1, <2>1, <2>2, <2>5
<1> QED BY <1>1, <1>2, <1>3

LEMMA RemainingIs ==
    ASSUME NEW m, NEW o, NEW n, Arena(m, o, n), NEW s
    PROVE  s \in Remaining(m) <=>
             \E pos \in Positions(o), k \in Nat : k <= Width(o, pos) /\ s = <<pos, BUDDY_ALLOC_ALIGN * k>>
<1>1. o \in 1 .. MaxOrder /\ o = tree_order_for_memory(m) BY DEF Arena
<1>2. PICK a \in Nat : a = BUDDY_ALLOC_ALIGN /\ a >= 1 BY AlignIs
<1>3. ASSUME NEW pos \in Positions(o), NEW k \in Nat
      PROVE  /\ size_for_depth(m, Depth[pos]) = a * Width(o, pos) /\ Width(o, pos) \in Nat
             /\ a * k <= a * Width(o, pos) <=> k <= Width(o, pos)
  <2>1. Depth[pos] \in 1 .. o
    <3>1. Depth[pos] \in Nat /\ Depth[pos] >= 1 /\ Depth[pos] <= o /\ o \in Nat
      BY <1>1, DepthIs, OrderAssumption DEF InRow
    <3> QED BY <3>1
  <2>2. size_for_depth(m, Depth[pos]) = a * Width(o, pos) BY <1>2, <2>1, SizesAre DEF Width
  <2>3. PICK w \in Nat : w = Width(o, pos) BY <1>1, SlotsOf
  <2>4. k <= w => a * k <= a * w BY TimesMonotone
  <2>5. ASSUME a * k <= a * w PROVE k <= w
    <3>1. a * (w + 1) = a * w + a /\ a * w \in Nat /\ a * k \in Nat BY TimesSuccessor
    <3>2. a * k < a * (w + 1) BY <1>2, <2>5, <3>1
    <3>3. k < w + 1 BY <3>2, TimesStrict
    <3> QED BY <3>3
  <2> QED BY <2>2, <2>3, <2>4, <2>5
<1>4. ASSUME s \in Remaining(m)
      PROVE  \E pos \in Positions(o), k \in Nat : k <= Width(o, pos) /\ s = <<pos, a * k>>
  <2>1. PICK pos \in Positions(o), delta \in Nat :
          s = <<pos, delta>> /\ delta <= size_for_depth(m, Depth[pos]) /\ (delta % a) = 0
    BY <1>1, <1>2, <1>4 DEF Remaining
  <2>2. PICK k \in Nat : delta = a * k BY <1>2, <2>1, NoRemainder
  <2>3. k <= Width(o, pos) BY <1>3, <2>1, <2>2
  <2> QED BY <2>1, <2>2, <2>3
<1>5. ASSUME NEW pos \in Positions(o), NEW k \in Nat, k <= Width(o, pos), s = <<pos, a * k>>
      PROVE  s \in Remaining(m)
  <2>1. PICK delta \in Nat : delta = a * k OBVIOUS
  <2>2. (delta % a) = 0 BY <1>2, <2>1, NoRemainder
  <2>3. delta <= size_for_depth(m, Depth[pos]) BY <1>3, <1>5, <2>1
  <2>4. s = <<pos, delta>> BY <1>5, <2>1
  <2> QED BY <1>1, <1>2, <2>2, <2>3, <2>4 DEF Remaining
<1> QED BY <1>2, <1>4, <1>5

\* A position of which a part is beyond the arena has two halves.
Descent(m, o, pos, k) ==
    /\ Depth[pos] < o /\ size_for_depth(m, Depth[pos]) = BUDDY_ALLOC_ALIGN * Width(o, pos)
    /\ size_for_depth(m, Depth[pos]) \div 2 = BUDDY_ALLOC_ALIGN * Width(o, left_child(pos))
    /\ k <= Width(o, left_child(pos)) <=> BUDDY_ALLOC_ALIGN * k <= size_for_depth(m, Depth[pos]) \div 2
    /\ k > Width(o, left_child(pos)) =>
         BUDDY_ALLOC_ALIGN * k - size_for_depth(m, Depth[pos]) \div 2
           = BUDDY_ALLOC_ALIGN * (k - Width(o, left_child(pos)))

LEMMA SplitIs ==
    ASSUME NEW m, NEW o, NEW n, Arena(m, o, n), NEW pos \in Positions(o), NEW k \in Nat,
           k >= 1, k < Width(o, pos)
    PROVE  Descent(m, o, pos, k)
<1>1. o \in 1 .. MaxOrder BY DEF Arena
<1>2. PICK a \in Nat : a = BUDDY_ALLOC_ALIGN /\ a >= 1 BY AlignIs
<1>3. Depth[pos] \in Nat /\ Depth[pos] >= 1 /\ Depth[pos] <= o /\ o \in Nat
  BY <1>1, DepthIs, OrderAssumption DEF InRow
<1>4. Depth[pos] < o
  <2> SUFFICES ASSUME Depth[pos] = o PROVE FALSE BY <1>3
  <2>1. o - Depth[pos] = 0 BY <1>3
  <2>2. Width(o, pos) = 1 BY <2>1, PowerIs DEF Width
  <2> QED BY <2>2
<1>5. Depth[pos] \in 1 .. o BY <1>3
<1>6. size_for_depth(m, Depth[pos]) = a * Width(o, pos) BY <1>2, <1>5, SizesAre DEF Width
<1>7. PICK w \in Nat : w = Width(o, left_child(pos)) /\ Width(o, pos) = 2 * w
  BY <1>1, <1>4, ChildSlots, SlotsOf
<1>8. a * (2 * w) = 2 * (a * w) /\ a * w \in Nat BY SMT
<1>9. size_for_depth(m, Depth[pos]) \div 2 = a * w BY <1>6, <1>7, <1>8
<1>10. k <= w <=> a * k <= a * w
  <2>1. k <= w => a * k <= a * w BY TimesMonotone
  <2>2. ASSUME a * k <= a * w PROVE k <= w
    <3>1. a * (w + 1) = a * w + a /\ a * w \in Nat /\ a * k \in Nat BY TimesSuccessor
    <3>2. a * k < a * (w + 1) BY <1>2, <2>2, <3>1
    <3>3. k < w + 1 BY <3>2, TimesStrict
    <3> QED BY <3>3
  <2> QED BY <2>1, <2>2
<1>11. a * k - a * w = a * (k - w) BY SMT
<1> QED BY <1>2, <1>4, <1>6, <1>7, <1>9, <1>10, <1>11 DEF Descent

\* One turn of the loop of toggle_virtual_slots.
VirtualStep(m, s, f) ==
    LET pos == s[1]
        delta == s[2]
        here == size_for_depth(m, Depth[pos])
    IN  IF delta = 0 THEN << >>
        ELSE IF delta = here THEN <<pos>>
        ELSE IF delta <= here \div 2 THEN f[<<right_child(pos), delta>>]
        ELSE <<right_child(pos)>> \o f[<<left_child(pos), delta - here \div 2>>]

\* The turns that follow start from halves.
LEMMA RemainingSplits ==
    ASSUME NEW m, NEW o, NEW n, Arena(m, o, n), NEW s \in Remaining(m),
           s[2] # 0, s[2] # size_for_depth(m, Depth[s[1]])
    PROVE  /\ s[1] \in Positions(o) /\ Depth[s[1]] < o
           /\ LET half == size_for_depth(m, Depth[s[1]]) \div 2
              IN  /\ s[2] <= half => <<right_child(s[1]), s[2]>> \in Remaining(m)
                  /\ ~(s[2] <= half) => <<left_child(s[1]), s[2] - half>> \in Remaining(m)
<1>1. o \in 1 .. MaxOrder BY DEF Arena
<1>2. PICK a \in Nat : a = BUDDY_ALLOC_ALIGN /\ a >= 1 BY AlignIs
<1>3. PICK pos \in Positions(o), k \in Nat : k <= Width(o, pos) /\ s = <<pos, a * k>> BY <1>2, RemainingIs
<1>4. s[1] = pos /\ s[2] = a * k BY <1>3
<1>5. Depth[pos] \in 1 .. o
  <2>1. Depth[pos] \in Nat /\ Depth[pos] >= 1 /\ Depth[pos] <= o /\ o \in Nat
    BY <1>1, DepthIs, OrderAssumption DEF InRow
  <2> QED BY <2>1
<1>6. size_for_depth(m, Depth[pos]) = a * Width(o, pos) BY <1>2, <1>5, SizesAre DEF Width
<1>7. k >= 1 /\ k < Width(o, pos)
  <2>1. Width(o, pos) \in Nat BY <1>1, SlotsOf
  <2>2. k # 0
    <3>1. a * 0 = 0 OBVIOUS
    <3> QED BY <1>4, <3>1
  <2>3. k # Width(o, pos) BY <1>4, <1>6
  <2> QED BY <1>3, <2>1, <2>2, <2>3
<1>8. Descent(m, o, pos, k) BY <1>7, SplitIs
<1>9. PICK half : half = size_for_depth(m, Depth[pos]) \div 2 OBVIOUS
<1>10. PICK w \in Nat : /\ w = Width(o, left_child(pos)) /\ w = Width(o, right_child(pos)) /\ Width(o, pos) = 2 * w
                        /\ left_child(pos) \in Positions(o) /\ right_child(pos) \in Positions(o)
  <2>1. Depth[pos] < o BY <1>8 DEF Descent
  <2> QED BY <1>1, <2>1, ChildSlots, SlotsOf
<1>11. /\ Depth[pos] < o
       /\ k <= w <=> a * k <= half
       /\ k > w => a * k - half = a * (k - w)
  BY <1>2, <1>8, <1>9, <1>10 DEF Descent
<1>12. ASSUME a * k <= half PROVE <<right_child(pos), a * k>> \in Remaining(m)
  <2>1. k <= Width(o, right_child(pos)) BY <1>10, <1>11, <1>12
  <2> QED BY <1>2, <1>10, <2>1, RemainingIs
<1>13. ASSUME ~(a * k <= half) PROVE <<left_child(pos), a * k - half>> \in Remaining(m)
  <2>1. k > w BY <1>11, <1>13
  <2>2. PICK j \in Nat : j = k - w /\ j <= w BY <1>7, <1>10, <2>1
  <2>3. a * k - half = a * j BY <1>11, <2>1, <2>2
  <2>4. j <= Width(o, left_child(pos)) BY <1>10, <2>2
  <2>5. <<left_child(pos), a * j>> \in Remaining(m) BY <1>2, <1>10, <2>4, RemainingIs
  <2> QED BY <2>3, <2>5
<1> QED BY <1>4, <1>9, <1>11, <1>12, <1>13

LEMMA VirtualUnfolds ==
    ASSUME NEW m, NEW o, NEW n, Arena(m, o, n)
    PROVE  \A s \in Remaining(m) : VirtualFrom(m)[s] = VirtualStep(m, s, VirtualFrom(m))
<1> DEFINE D == Remaining(m)
           mm == [s \in D |-> o - Depth[s[1]]]
           Step(s, f) == VirtualStep(m, s, f)
           Half(s) == size_for_depth(m, Depth[s[1]]) \div 2
           Ends(s) == s[2] = 0 \/ s[2] = size_for_depth(m, Depth[s[1]])
           G == [s \in D |-> [f \in [D -> Seq(Nat)] |-> Step(s, f)]]
<1>1. o \in 1 .. MaxOrder /\ o \in Nat BY OrderAssumption DEF Arena
<1>2. ASSUME NEW s \in D
      PROVE  s[1] \in Positions(o) /\ s[1] \in Nat /\ Depth[s[1]] \in Nat /\ Depth[s[1]] <= o
  <2>1. s[1] \in Positions(o) BY RemainingIs
  <2> QED BY <1>1, <2>1, PositionIs, DepthIs DEF InRow
<1>3. ASSUME NEW s \in D, ~Ends(s)
      PROVE  /\ s[2] <= Half(s) => <<right_child(s[1]), s[2]>> \in D /\ mm[<<right_child(s[1]), s[2]>>] < mm[s]
             /\ ~(s[2] <= Half(s)) => /\ <<left_child(s[1]), s[2] - Half(s)>> \in D
                                      /\ mm[<<left_child(s[1]), s[2] - Half(s)>>] < mm[s]
             /\ right_child(s[1]) \in Nat
  <2>1. /\ s[1] \in Positions(o) /\ Depth[s[1]] < o
        /\ s[2] <= Half(s) => <<right_child(s[1]), s[2]>> \in D
        /\ ~(s[2] <= Half(s)) => <<left_child(s[1]), s[2] - Half(s)>> \in D
    BY <1>3, RemainingSplits
  <2>2. /\ Depth[left_child(s[1])] = Depth[s[1]] + 1 /\ Depth[right_child(s[1])] = Depth[s[1]] + 1
        /\ right_child(s[1]) \in Nat
    BY <1>1, <2>1, ChildSlots, PositionIs
  <2>3. o - (Depth[s[1]] + 1) < o - Depth[s[1]] BY <1>1, <1>2
  <2> HIDE DEF D, Half
  <2> QED BY <2>1, <2>2, <2>3
<1> HIDE DEF D
<1>4. G \in [D -> [[D -> Seq(Nat)] -> Seq(Nat)]]
  <2> SUFFICES ASSUME NEW s \in D, NEW f \in [D -> Seq(Nat)] PROVE Step(s, f) \in Seq(Nat) OBVIOUS
  <2>1. CASE Ends(s)
    <3>1. Step(s, f) = << >> \/ Step(s, f) = <<s[1]>> BY <2>1 DEF VirtualStep
    <3>2. << >> \in Seq(Nat) OBVIOUS
    <3>3. \A x \in Nat : <<x>> \in Seq(Nat) OBVIOUS
    <3>4. s[1] \in Nat BY <1>2
    <3> QED BY <3>1, <3>2, <3>3, <3>4, Zenon
  <2>2. CASE ~Ends(s)
    <3>1. CASE s[2] <= Half(s)
      <4>1. Step(s, f) = f[<<right_child(s[1]), s[2]>>] BY <2>2, <3>1 DEF VirtualStep
      <4> QED BY <1>3, <2>2, <3>1, <4>1
    <3>2. CASE ~(s[2] <= Half(s))
      <4>1. PICK x : x = f[<<left_child(s[1]), s[2] - Half(s)>>] OBVIOUS
      <4>2. Step(s, f) = <<right_child(s[1])>> \o x BY <2>2, <3>2, <4>1 DEF VirtualStep
      <4>3. x \in Seq(Nat) BY <1>3, <2>2, <3>2, <4>1
      <4>4. \A y \in Nat : <<y>> \in Seq(Nat) OBVIOUS
      <4>5. <<right_child(s[1])>> \in Seq(Nat) BY <1>3, <2>2, <4>4, Zenon
      <4> QED BY <4>2, <4>3, <4>5
    <3> QED BY <3>1, <3>2
  <2> QED BY <2>1, <2>2
<1>5. Descends(D, Seq(Nat), mm, G)
  <2> SUFFICES ASSUME NEW s \in D, NEW f \in [D -> Seq(Nat)], NEW g \in [D -> Seq(Nat)],
                      \A j \in D : mm[j] < mm[s] => f[j] = g[j]
               PROVE  Step(s, f) = Step(s, g)
    BY DEF Descends
  <2>1. CASE Ends(s) BY <2>1 DEF VirtualStep
  <2>2. CASE ~Ends(s)
    <3>1. s[2] <= Half(s) => f[<<right_child(s[1]), s[2]>>] = g[<<right_child(s[1]), s[2]>>]
      BY <1>3, <2>2, Zenon
    <3>2. ~(s[2] <= Half(s)) => f[<<left_child(s[1]), s[2] - Half(s)>>] = g[<<left_child(s[1]), s[2] - Half(s)>>]
      BY <1>3, <2>2, Zenon
    <3> QED BY <2>2, <3>1, <3>2, Zenon DEF VirtualStep
  <2> QED BY <2>1, <2>2
<1>6. PICK f : Solves(D, Seq(Nat), G, f)
  <2>1. mm \in [D -> Nat]
    <3>1. \A s \in D : o - Depth[s[1]] \in Nat BY <1>1, <1>2
    <3> QED BY <3>1
  <2>2. Seq(Nat) # {}
    <3>1. << >> \in Seq(Nat) OBVIOUS
    <3> QED BY <3>1
  <2>3. WellDefined(D, Seq(Nat), mm, G) BY <1>4, <1>5, <2>1, <2>2 DEF WellDefined
  <2> HIDE DEF mm, G
  <2> QED BY <2>3, RecursionExists, Zenon
<1>7. f = [s \in D |-> Step(s, f)] BY <1>6 DEF Solves
<1> DEFINE U(h) == h = [s \in D |-> Step(s, h)]
<1>8. VirtualFrom(m) = CHOOSE h : U(h) BY Zenon DEF VirtualFrom, VirtualStep, D
<1>9. U(VirtualFrom(m)) BY <1>7, <1>8, Zenon
<1> QED BY <1>9, Zenon DEF D

\* Positions, from the right, that take up the slots from lo up to hi.
Ending(o, v, lo, hi) ==
    /\ v \in Seq(Positions(o))
    /\ \A i \in 1 .. Len(v) : lo <= Lo(o, v[i]) /\ Lo(o, v[i]) + Width(o, v[i]) <= hi
    /\ \A i, j \in 1 .. Len(v) : i < j => Lo(o, v[j]) + Width(o, v[j]) <= Lo(o, v[i])
    /\ \A s \in Nat : lo <= s /\ s < hi =>
         \E i \in 1 .. Len(v) : Lo(o, v[i]) <= s /\ s < Lo(o, v[i]) + Width(o, v[i])

LEMMA EndingEmpty ==
    ASSUME NEW o, NEW lo \in Int
    PROVE  Ending(o, << >>, lo, lo)
<1>1. << >> \in Seq(Positions(o)) /\ Len(<< >>) = 0 OBVIOUS
<1>2. \A s \in Nat : ~(lo <= s /\ s < lo) OBVIOUS
<1>3. 1 .. 0 = {} OBVIOUS
<1> QED BY <1>1, <1>2, <1>3 DEF Ending

LEMMA EndingCons ==
    ASSUME NEW o \in 1 .. MaxOrder, NEW v, NEW lo \in Int, NEW r \in Positions(o), lo <= Lo(o, r),
           Ending(o, v, lo, Lo(o, r))
    PROVE  Ending(o, <<r>> \o v, lo, Lo(o, r) + Width(o, r))
<1>1. PICK mid \in Nat, w \in Nat : mid = Lo(o, r) /\ w = Width(o, r) BY SlotsOf
<1>2. v \in Seq(Positions(o)) BY DEF Ending
<1>3. PICK u : u = <<r>> \o v OBVIOUS
<1>4. PICK len \in Nat : len = Len(v) BY <1>2
<1>5. u \in Seq(Positions(o)) /\ Len(u) = len + 1 BY <1>2, <1>3, <1>4
<1>6. u[1] = r BY <1>2, <1>3
<1>7. ASSUME NEW i \in 1 .. len + 1, i # 1 PROVE i - 1 \in 1 .. len /\ u[i] = v[i - 1]
  BY <1>2, <1>3, <1>4, <1>7
<1>8. ASSUME NEW i \in 1 .. len PROVE i + 1 \in 1 .. len + 1 /\ u[i + 1] = v[i]
  <2>1. i + 1 \in 1 .. len + 1 /\ i + 1 # 1 /\ (i + 1) - 1 = i OBVIOUS
  <2> QED BY <1>7, <2>1
<1>9. \A i \in 1 .. len : v[i] \in Positions(o) BY <1>2, <1>4
<1>10. \A i \in 1 .. len : Lo(o, v[i]) \in Nat /\ Width(o, v[i]) \in Nat BY <1>9, SlotsOf
<1>11. \A i \in 1 .. len : lo <= Lo(o, v[i]) /\ Lo(o, v[i]) + Width(o, v[i]) <= mid
  BY <1>1, <1>4 DEF Ending
<1>12. ASSUME NEW i \in 1 .. len + 1 PROVE lo <= Lo(o, u[i]) /\ Lo(o, u[i]) + Width(o, u[i]) <= mid + w
  <2>1. CASE i = 1 BY <1>1, <1>6, <2>1
  <2>2. CASE i # 1
    <3>1. PICK j \in 1 .. len : u[i] = v[j] BY <1>7, <2>2
    <3> QED BY <1>1, <1>10, <1>11, <3>1
  <2> QED BY <2>1, <2>2
<1>13. ASSUME NEW i \in 1 .. len + 1, NEW j \in 1 .. len + 1, i < j
       PROVE  Lo(o, u[j]) + Width(o, u[j]) <= Lo(o, u[i])
  <2>1. j # 1 /\ j - 1 \in 1 .. len /\ u[j] = v[j - 1]
    <3>1. j # 1 BY <1>13
    <3> QED BY <1>7, <3>1
  <2>2. CASE i = 1 BY <1>1, <1>6, <1>11, <2>1, <2>2
  <2>3. CASE i # 1
    <3>1. i - 1 \in 1 .. len /\ u[i] = v[i - 1] BY <1>7, <2>3
    <3>2. i - 1 < j - 1 BY <1>13
    <3>3. \A x, y \in 1 .. len : x < y => Lo(o, v[y]) + Width(o, v[y]) <= Lo(o, v[x]) BY <1>4 DEF Ending
    <3> QED BY <2>1, <3>1, <3>2, <3>3
  <2> QED BY <2>2, <2>3
<1>14. ASSUME NEW s \in Nat, lo <= s, s < mid + w
       PROVE  \E i \in 1 .. len + 1 : Lo(o, u[i]) <= s /\ s < Lo(o, u[i]) + Width(o, u[i])
  <2>1. CASE s >= mid
    <3>1. 1 \in 1 .. len + 1 OBVIOUS
    <3> QED BY <1>1, <1>6, <1>14, <2>1, <3>1
  <2>2. CASE s < mid
    <3>1. PICK i \in 1 .. len : Lo(o, v[i]) <= s /\ s < Lo(o, v[i]) + Width(o, v[i])
      BY <1>1, <1>4, <1>14, <2>2 DEF Ending
    <3> QED BY <1>8, <3>1
  <2> QED BY <1>1, <2>1, <2>2
<1>15. Ending(o, u, lo, mid + w) BY <1>5, <1>12, <1>13, <1>14 DEF Ending
<1> QED BY <1>1, <1>3, <1>15

LEMMA VirtualRight ==
    ASSUME NEW m, NEW o, NEW n, Arena(m, o, n), NEW pos \in Positions(o), NEW k \in Nat, k <= Width(o, pos)
    PROVE  Ending(o, VirtualFrom(m)[<<pos, BUDDY_ALLOC_ALIGN * k>>],
                Lo(o, pos) + Width(o, pos) - k, Lo(o, pos) + Width(o, pos))
<1>1. o \in 1 .. MaxOrder /\ o \in Nat BY OrderAssumption DEF Arena
<1>2. PICK a \in Nat : a = BUDDY_ALLOC_ALIGN /\ a >= 1 BY AlignIs
<1>3. PICK V : V = VirtualFrom(m) OBVIOUS
<1> DEFINE Right(x, j) == Ending(o, V[<<x, a * j>>], Lo(o, x) + Width(o, x) - j, Lo(o, x) + Width(o, x))
           P == {i \in Nat : \A x \in Positions(o), j \in Nat :
                     o - Depth[x] <= i /\ j <= Width(o, x) => Right(x, j)}
<1>4. ASSUME NEW x \in Positions(o), NEW j \in Nat, j <= Width(o, x)
      PROVE  V[<<x, a * j>>] = VirtualStep(m, <<x, a * j>>, V)
  <2>1. <<x, a * j>> \in Remaining(m) BY <1>2, <1>4, RemainingIs
  <2> QED BY <1>3, <2>1, VirtualUnfolds
<1>0. ASSUME NEW x \in Positions(o)
      PROVE  /\ size_for_depth(m, Depth[x]) = a * Width(o, x)
             /\ Lo(o, x) \in Nat /\ Width(o, x) \in Nat /\ Width(o, x) >= 1 /\ Depth[x] \in Nat /\ Depth[x] <= o
  <2>2. Depth[x] \in Nat /\ Depth[x] >= 1 /\ Depth[x] <= o BY <1>1, DepthIs DEF InRow
  <2>3. Depth[x] \in 1 .. o BY <1>1, <2>2
  <2> QED BY <1>1, <1>2, <2>2, <2>3, SizesAre, SlotsOf DEF Width
<1>5. ASSUME NEW x \in Positions(o), NEW j \in Nat, j = 0 PROVE Right(x, j)
  <2>1. j <= Width(o, x) /\ a * j = 0
    <3>1. Width(o, x) \in Nat BY <1>1, SlotsOf
    <3> QED BY <1>5, <3>1
  <2>2. V[<<x, a * j>>] = << >> BY <1>4, <2>1 DEF VirtualStep
  <2>3. PICK hi \in Nat : hi = Lo(o, x) + Width(o, x) BY <1>0
  <2>4. hi - j = hi BY <1>5, <2>3
  <2>5. Ending(o, << >>, hi, hi)
    <3>1. hi \in Int OBVIOUS
    <3> QED BY <3>1, EndingEmpty
  <2>6. Lo(o, x) + Width(o, x) - j = hi BY <1>0, <2>3, <2>4
  <2> QED BY <2>2, <2>3, <2>5, <2>6
<1>6. ASSUME NEW x \in Positions(o), NEW j \in Nat, j = Width(o, x) PROVE Right(x, j)
  <2>1. j <= Width(o, x) /\ j >= 1 /\ Width(o, x) \in Nat /\ Lo(o, x) \in Nat
    <3>1. Width(o, x) \in Nat /\ Width(o, x) >= 1 /\ Lo(o, x) \in Nat BY <1>1, SlotsOf
    <3> QED BY <1>6, <3>1
  <2>2. a * j # 0
    <3>1. a * 1 <= a * j BY <2>1, TimesMonotone
    <3>2. a * j \in Nat OBVIOUS
    <3> QED BY <1>2, <3>1, <3>2
  <2>3. V[<<x, a * j>>] = <<x>>
    <3>1. a * j = size_for_depth(m, Depth[x]) BY <1>0, <1>6
    <3> QED BY <1>4, <2>1, <2>2, <3>1 DEF VirtualStep
  <2>4. PICK lo \in Nat : lo = Lo(o, x) BY <2>1
  <2>5. Lo(o, x) + Width(o, x) - j = lo BY <1>6, <2>1, <2>4
  <2>6. Ending(o, << >>, lo, Lo(o, x)) BY <2>4, EndingEmpty
  <2>7. Ending(o, <<x>> \o << >>, lo, Lo(o, x) + Width(o, x))
    <3>1. lo \in Int /\ lo <= Lo(o, x) BY <2>4
    <3> QED BY <1>1, <2>6, <3>1, EndingCons
  <2>8. <<x>> \o << >> = <<x>> OBVIOUS
  <2> QED BY <2>3, <2>5, <2>7, <2>8
<1>7. ASSUME NEW i \in P, NEW x \in Positions(o), NEW j \in Nat, o - Depth[x] <= i + 1, j >= 1, j < Width(o, x)
      PROVE  Right(x, j)
  <2>1. Descent(m, o, x, j) BY <1>7, SplitIs
  <2>2. Depth[x] < o BY <2>1 DEF Descent
  <2>3. PICK l, r : l = left_child(x) /\ r = right_child(x) OBVIOUS
  <2>4. PICK w \in Nat, lo \in Nat :
          /\ w = Width(o, l) /\ Width(o, r) = w /\ Width(o, x) = 2 * w
          /\ lo = Lo(o, x) /\ Lo(o, l) = lo /\ Lo(o, r) = lo + w
          /\ l \in Positions(o) /\ r \in Positions(o) /\ Depth[l] = Depth[x] + 1 /\ Depth[r] = Depth[x] + 1
    BY <1>1, <2>2, <2>3, ChildSlots, SlotsOf
  <2>5. PICK half : half = size_for_depth(m, Depth[x]) \div 2 OBVIOUS
  <2>6. /\ j <= w <=> a * j <= half
        /\ j > w => a * j - half = a * (j - w)
    BY <1>2, <2>1, <2>3, <2>4, <2>5 DEF Descent
  <2>7. Depth[x] \in Nat /\ o - Depth[l] <= i /\ o - Depth[r] <= i
    <3>1. Depth[x] \in Nat BY <1>0
    <3> QED BY <1>1, <1>7, <2>4, <3>1
  <2>8. a * j # 0 /\ a * j # size_for_depth(m, Depth[x])
    <3>1. a * 1 <= a * j BY <1>7, TimesMonotone
    <3>2. PICK v \in Nat : v = Width(o, x) /\ j + 1 <= v BY <1>7, <2>4
    <3>3. a * (j + 1) <= a * v BY <3>2, TimesMonotone
    <3>4. a * (j + 1) = a * j + a BY TimesSuccessor
    <3>5. a * j \in Nat /\ a * v \in Nat OBVIOUS
    <3>6. size_for_depth(m, Depth[x]) = a * v BY <1>0, <3>2
    <3> QED BY <1>2, <3>1, <3>3, <3>4, <3>5, <3>6
  <2>9. V[<<x, a * j>>] = IF a * j <= half THEN V[<<r, a * j>>] ELSE <<r>> \o V[<<l, a * j - half>>]
    <3>1. j <= Width(o, x) BY <1>7, <2>4
    <3>2. V[<<x, a * j>>] = VirtualStep(m, <<x, a * j>>, V) BY <1>4, <3>1
    <3> QED BY <2>3, <2>5, <2>8, <3>2 DEF VirtualStep
  <2>10. CASE j <= w
    <3>1. Right(r, j)
      <4> HIDE DEF Right
      <4> QED BY <1>7, <2>4, <2>7, <2>10
    <3>2. V[<<x, a * j>>] = V[<<r, a * j>>] BY <2>6, <2>9, <2>10
    <3>3. (lo + w) + w = lo + 2 * w OBVIOUS
    <3> QED BY <2>4, <3>1, <3>2, <3>3
  <2>11. CASE j > w
    <3>1. PICK e \in Nat : e = j - w /\ e <= w BY <1>7, <2>4, <2>11
    <3>2. Right(l, e)
      <4> HIDE DEF Right
      <4> QED BY <1>7, <2>4, <2>7, <3>1
    <3>3. V[<<x, a * j>>] = <<r>> \o V[<<l, a * e>>]
      <4>1. ~(j <= w) BY <2>4, <2>11
      <4>2. ~(a * j <= half) BY <2>6, <4>1
      <4>3. a * j - half = a * e BY <2>6, <2>11, <3>1
      <4> QED BY <2>9, <4>2, <4>3
    <3>4. PICK u : u = V[<<l, a * e>>] OBVIOUS
    <3>5. PICK b \in Int : b = lo + w - e /\ b <= lo + w /\ b = lo + 2 * w - j BY <3>1
    <3>6. Ending(o, u, b, lo + w) BY <2>4, <3>2, <3>4, <3>5
    <3>7. Ending(o, <<r>> \o u, b, Lo(o, r) + Width(o, r)) BY <1>1, <2>4, <3>5, <3>6, EndingCons
    <3>8. (lo + w) + w = lo + 2 * w OBVIOUS
    <3> QED BY <2>4, <3>3, <3>4, <3>5, <3>7, <3>8
  <2> QED BY <2>4, <2>10, <2>11
<1> HIDE DEF Right
<1>8. ASSUME NEW i \in P PROVE i + 1 \in P
  <2> SUFFICES ASSUME NEW x \in Positions(o), NEW j \in Nat, o - Depth[x] <= i + 1, j <= Width(o, x)
               PROVE  Right(x, j)
    BY <1>8
  <2>1. Width(o, x) \in Nat BY <1>1, SlotsOf
  <2>2. j = 0 \/ j = Width(o, x) \/ (j >= 1 /\ j < Width(o, x)) BY <2>1
  <2> QED BY <1>5, <1>6, <1>7, <1>8, <2>2
<1>9. 0 \in P
  <2> SUFFICES ASSUME NEW x \in Positions(o), NEW j \in Nat, o - Depth[x] <= 0, j <= Width(o, x)
               PROVE  Right(x, j)
    OBVIOUS
  <2>1. o - Depth[x] = 0 BY <1>0, <1>1
  <2>2. Width(o, x) = 1 BY <2>1, PowerIs DEF Width
  <2>3. j = 0 \/ j = Width(o, x) BY <2>2
  <2> QED BY <1>5, <1>6, <2>3
<1>10. P = Nat
  <2>1. P \in SUBSET Nat OBVIOUS
  <2> HIDE DEF P
  <2> QED BY <1>8, <1>9, <2>1, NumbersUpwards
<1>11. o - Depth[pos] \in Nat BY <1>0, <1>1
<1>12. o - Depth[pos] \in P /\ o - Depth[pos] <= o - Depth[pos] BY <1>10, <1>11
<1>13. Right(pos, k) BY <1>12
<1> QED BY <1>2, <1>3, <1>13 DEF Right

\* toggle_virtual_slots marks exactly the slots from n on.
LEMMA VirtualPositionsAre ==
    ASSUME NEW m, NEW o, NEW n, Arena(m, o, n)
    PROVE  Ending(o, VirtualPositions(m), n, pow2[o - 1])
<1>1. /\ o \in 1 .. MaxOrder /\ n \in Nat /\ n >= 1 /\ m = BUDDY_ALLOC_ALIGN * n
      /\ n <= pow2[o - 1] /\ pow2[o - 1] < 2 * n
      /\ effective_memory_size(m) = BUDDY_ALLOC_ALIGN * pow2[o - 1]
  BY DEF Arena
<1>2. PICK a \in Nat, g \in Nat : a = BUDDY_ALLOC_ALIGN /\ a >= 1 /\ g = pow2[o - 1]
  <2>1. 1 \in Positions(o) BY <1>1, RootIs
  <2> QED BY <1>1, <2>1, AlignIs, SlotsOf
<1>3. CASE g = n
  <2>1. VirtualPositions(m) = << >> BY <1>1, <1>2, <1>3 DEF VirtualPositions
  <2> QED BY <1>1, <1>2, <1>3, <2>1, EndingEmpty
<1>4. CASE g # n
  <2>1. a * g # a * n
    <3>1. a * (n + 1) <= a * g BY <1>1, <1>2, <1>4, TimesMonotone
    <3>2. a * (n + 1) = a * n + a /\ a * n \in Nat BY <1>1, TimesSuccessor
    <3> QED BY <1>2, <3>1, <3>2
  <2>2. PICK k \in Nat : k = g - n BY <1>1, <1>2
  <2>3. a * g - a * n = a * k BY <1>1, <2>2, SMT
  <2>4. VirtualPositions(m) = VirtualFrom(m)[<<right_child(1), a * k>>]
    BY <1>1, <1>2, <2>1, <2>3, Zenon DEF VirtualPositions
  <2>5. 1 \in Positions(o) /\ Depth[1] = 1 BY <1>1, RootIs
  <2>6. o \in Nat /\ o > 1
    <3>1. o \in Nat /\ o >= 1 BY <1>1, <2>5, SlotsOf
    <3>2. o # 1
      <4> SUFFICES ASSUME o = 1 PROVE FALSE OBVIOUS
      <4>1. o - 1 = 0 OBVIOUS
      <4>2. g = 1 BY <1>2, <4>1, PowerIs
      <4> QED BY <1>1, <1>2, <1>4, <4>2
    <3> QED BY <3>1, <3>2
  <2>7. Width(o, 1) = g /\ Lo(o, 1) = 0
    <3>1. Width(o, 1) = g BY <1>2, <2>5 DEF Width
    <3>2. g + Lo(o, 1) = g * 1 /\ Lo(o, 1) \in Nat BY <1>1, <1>2, <2>5, <3>1, SlotsOf
    <3> QED BY <1>2, <3>1, <3>2
  <2>8. PICK w \in Nat : /\ w = Width(o, right_child(1)) /\ g = 2 * w /\ Lo(o, right_child(1)) = w
                         /\ right_child(1) \in Positions(o)
    <3>1. right_child(1) \in Positions(o) BY <1>1, <2>5, <2>6, ChildSlots
    <3>2. Width(o, right_child(1)) \in Nat BY <1>1, <3>1, SlotsOf
    <3>3. /\ g = 2 * Width(o, right_child(1)) /\ Lo(o, right_child(1)) = 0 + Width(o, right_child(1))
      BY <1>1, <2>5, <2>6, <2>7, ChildSlots
    <3> QED BY <3>1, <3>2, <3>3
  <2>9. k <= w BY <1>1, <1>2, <2>2, <2>8
  <2>10. Ending(o, VirtualFrom(m)[<<right_child(1), a * k>>], w + w - k, w + w)
    BY <1>2, <2>8, <2>9, VirtualRight
  <2>11. w + w - k = n /\ w + w = g BY <1>1, <2>2, <2>8
  <2> QED BY <1>2, <2>4, <2>10, <2>11
<1> QED BY <1>3, <1>4

-----------------------------------------------------------------------------
(* The blocks of an arena *)

\* The marked positions inside an arena of n slots are its blocks; what is beyond the
\* arena is marked too.
Live(n, t) == {p \in Marked(t) : Lo(t.order, p) < n}
Padded(n, t) ==
    \A s \in Nat : n <= s /\ s < pow2[t.order - 1] =>
        \E p \in Marked(t) : /\ n <= Lo(t.order, p) /\ Lo(t.order, p) <= s
                             /\ s < Lo(t.order, p) + Width(t.order, p)

\* The positions toggle_virtual_slots marks are, so that it can release them again.
Wall(n) == {VirtualPositions(BUDDY_ALLOC_ALIGN * n)[i] : i \in 1 .. Len(VirtualPositions(BUDDY_ALLOC_ALIGN * n))}
Walled(n, t) == \A v \in Wall(n) : v \in Marked(t) /\ n <= Lo(t.order, v)

HeapOK(o, n, t) ==
    /\ o \in 1 .. MaxOrder /\ n \in Nat /\ n >= 1 /\ n <= pow2[o - 1]
    /\ t \in TreesOf(o) /\ Sound(t) /\ Padded(n, t) /\ Walled(n, t)
BlocksOf(o, n, t) == {BlockAt(o, p) : p \in Live(n, t)}

LEMMA HeapIs ==
    ASSUME NEW o, NEW n, NEW t, HeapOK(o, n, t)
    PROVE  /\ o \in 1 .. MaxOrder /\ n \in Nat /\ n >= 1 /\ n <= pow2[o - 1] /\ pow2[o - 1] \in Nat
           /\ t \in TreesOf(o) /\ t \in Trees /\ t.order = o /\ Sound(t) /\ Padded(n, t) /\ Walled(n, t)
           /\ \A p \in Marked(t) : p \in Positions(o) /\ Lo(o, p) \in Nat /\ Width(o, p) \in Nat /\ Width(o, p) >= 1
                                   /\ Lo(o, p) + Width(o, p) <= pow2[o - 1]
<1>1. o \in 1 .. MaxOrder /\ t \in Trees /\ t.order = o BY DEF HeapOK, TreesOf
<1>2. \A p \in Marked(t) : p \in Positions(o) BY <1>1 DEF Marked
<1>3. 1 \in Positions(o) BY <1>1, RootIs
<1>4. pow2[o - 1] \in Nat BY <1>1, <1>3, SlotsOf
<1>5. \A p \in Marked(t) : Lo(o, p) \in Nat /\ Width(o, p) \in Nat /\ Width(o, p) >= 1 /\ Lo(o, p) + Width(o, p) <= pow2[o - 1]
  BY <1>1, <1>2, SlotsOf
<1> QED BY <1>1, <1>2, <1>4, <1>5 DEF HeapOK

\* Two marked positions share no slot.
LEMMA MarkedSlots ==
    ASSUME NEW o, NEW n, NEW t, HeapOK(o, n, t), NEW p \in Marked(t), NEW q \in Marked(t), p # q
    PROVE  Apart(o, p, q)
<1>1. o \in 1 .. MaxOrder /\ Sound(t) /\ p \in Positions(o) /\ q \in Positions(o) BY HeapIs
<1>2. ~OnePath(p, q) BY <1>1, MarkedApart
<1> QED BY <1>1, <1>2, ApartIs

\* No block reaches beyond the arena.
LEMMA LiveInside ==
    ASSUME NEW o, NEW n, NEW t, HeapOK(o, n, t), NEW p \in Live(n, t)
    PROVE  /\ p \in Marked(t) /\ p \in Positions(o) /\ Lo(o, p) < n /\ Lo(o, p) + Width(o, p) <= n
           /\ Lo(o, p) \in Nat /\ Width(o, p) \in Nat /\ Width(o, p) >= 1
<1>1. p \in Marked(t) /\ Lo(o, p) < n BY HeapIs DEF Live
<1>2. PICK lo \in Nat, w \in Nat, g \in Nat :
        lo = Lo(o, p) /\ w = Width(o, p) /\ w >= 1 /\ g = pow2[o - 1] /\ lo + w <= g /\ n \in Nat /\ p \in Positions(o)
  BY <1>1, HeapIs
<1>3. lo + w <= n
  <2> SUFFICES ASSUME n < lo + w PROVE FALSE BY <1>2
  <2>1. n < g BY <1>2
  <2>2. PICK q \in Marked(t) : n <= Lo(o, q) /\ Lo(o, q) <= n
    <3>1. t.order = o /\ Padded(n, t) BY HeapIs
    <3> QED BY <1>2, <2>1, <3>1 DEF Padded
  <2>3. PICK x \in Nat, v \in Nat : x = Lo(o, q) /\ v = Width(o, q) /\ v >= 1 BY HeapIs
  <2>4. x = n BY <1>2, <2>2, <2>3
  <2>5. p # q
    <3> SUFFICES ASSUME p = q PROVE FALSE OBVIOUS
    <3>1. lo = n BY <1>2, <2>3, <2>4
    <3> QED BY <1>1, <1>2, <3>1
  <2>6. Apart(o, p, q) BY <1>1, <2>5, MarkedSlots
  <2>7. lo + w <= x \/ x + v <= lo BY <1>2, <2>3, <2>6 DEF Apart
  <2> QED BY <1>1, <1>2, <2>3, <2>4, <2>7
<1> QED BY <1>1, <1>2, <1>3

\* The block of a position and its address determine each other.
LEMMA AddressTells ==
    ASSUME NEW o, NEW n, NEW t, HeapOK(o, n, t), NEW p \in Live(n, t), NEW q \in Live(n, t),
           BUDDY_ALLOC_ALIGN * Lo(o, p) = BUDDY_ALLOC_ALIGN * Lo(o, q)
    PROVE  p = q
<1>1. PICK a \in Nat : a = BUDDY_ALLOC_ALIGN /\ a >= 1 BY AlignIs
<1>2. PICK x \in Nat, y \in Nat, v \in Nat, w \in Nat :
        x = Lo(o, p) /\ y = Lo(o, q) /\ v = Width(o, p) /\ w = Width(o, q) /\ v >= 1 /\ w >= 1
        /\ p \in Marked(t) /\ q \in Marked(t)
  BY LiveInside
<1>3. a * x = a * y BY <1>1, <1>2
<1>4. x = y
  <2>1. (a * x) \div a = x /\ (a * y) \div a = y BY <1>1, ExactQuotient
  <2> QED BY <1>3, <2>1
<1> SUFFICES ASSUME p # q PROVE FALSE OBVIOUS
<1>5. Apart(o, p, q) BY <1>2, MarkedSlots
<1>6. x + v <= y \/ y + w <= x BY <1>2, <1>5 DEF Apart
<1> QED BY <1>2, <1>4, <1>6

\* Marking a position that shares no slot with a marked one adds one block.
LEMMA AddMark ==
    ASSUME NEW o, NEW n, NEW t, HeapOK(o, n, t), NEW r \in Positions(o),
           \A p \in Marked(t) : ~OnePath(p, r)
    PROVE  /\ HeapOK(o, n, tree_mark(t, r))
           /\ Live(n, tree_mark(t, r)) = Live(n, t) \cup {r}
           /\ BlocksOf(o, n, tree_mark(t, r)) = BlocksOf(o, n, t) \cup {BlockAt(o, r)}
           /\ Marked(tree_mark(t, r)) = Marked(t) \cup {r}
<1>1. /\ o \in 1 .. MaxOrder /\ n \in Nat /\ t \in TreesOf(o) /\ t.order = o /\ Sound(t) /\ Padded(n, t)
      /\ pow2[o - 1] \in Nat
  BY HeapIs
<1>2. PICK u : u = tree_mark(t, r) OBVIOUS
<1>3. Sound(u) /\ u.order = o /\ Marked(u) = Marked(t) \cup {r} BY <1>1, <1>2, MarkFree
<1>4. u \in TreesOf(o) BY <1>1, <1>2, TogglesInBounds
<1>5. Padded(n, u) BY <1>1, <1>3 DEF Padded
<1>6. HeapOK(o, n, u)
  <2>1. Walled(n, t) BY HeapIs
  <2>2. Walled(n, u) BY <1>1, <1>3, <2>1 DEF Walled
  <2> QED BY <1>3, <1>4, <1>5, <2>2 DEF HeapOK
<1>7. PICK lo \in Nat, w \in Nat : lo = Lo(o, r) /\ w = Width(o, r) /\ w >= 1 /\ lo + w <= pow2[o - 1]
  BY <1>1, SlotsOf
<1>8. lo < n
  <2> SUFFICES ASSUME n <= lo PROVE FALSE BY <1>1, <1>7
  <2>1. lo < pow2[o - 1] BY <1>1, <1>7
  <2>2. PICK p \in Marked(t) : Lo(o, p) <= lo /\ lo < Lo(o, p) + Width(o, p) BY <1>1, <2>1 DEF Padded
  <2>3. PICK x \in Nat, v \in Nat : x = Lo(o, p) /\ v = Width(o, p) /\ p \in Positions(o) BY HeapIs
  <2>4. ~OnePath(p, r) OBVIOUS
  <2>5. Apart(o, p, r) BY <1>1, <2>3, <2>4, ApartIs
  <2>6. x + v <= lo \/ lo + w <= x BY <1>7, <2>3, <2>5 DEF Apart
  <2> QED BY <1>7, <2>2, <2>3, <2>6
<1>9. Live(n, u) = Live(n, t) \cup {r} BY <1>1, <1>3, <1>7, <1>8 DEF Live
<1>10. BlocksOf(o, n, u) = BlocksOf(o, n, t) \cup {BlockAt(o, r)} BY <1>9 DEF BlocksOf
<1> QED BY <1>2, <1>3, <1>6, <1>9, <1>10

\* Releasing a block takes it away and leaves its slots free.
LEMMA DropMark ==
    ASSUME NEW o, NEW n, NEW t, HeapOK(o, n, t), NEW p \in Live(n, t)
    PROVE  /\ HeapOK(o, n, tree_release(t, p))
           /\ Live(n, tree_release(t, p)) = Live(n, t) \ {p}
           /\ BlocksOf(o, n, tree_release(t, p)) = BlocksOf(o, n, t) \ {BlockAt(o, p)}
           /\ Marked(tree_release(t, p)) = Marked(t) \ {p}
           /\ \A q \in Marked(tree_release(t, p)) : ~OnePath(q, p)
<1>1. /\ o \in 1 .. MaxOrder /\ n \in Nat /\ t \in TreesOf(o) /\ t.order = o /\ Sound(t) /\ Padded(n, t)
  BY HeapIs
<1>2. PICK u : u = tree_release(t, p) OBVIOUS
<1>3. p \in Marked(t) /\ p \in Positions(o) /\ Lo(o, p) < n /\ Lo(o, p) \in Nat BY LiveInside
<1>4. Sound(u) /\ u.order = o /\ Marked(u) = Marked(t) \ {p} BY <1>1, <1>2, <1>3, ReleaseExact
<1>5. u \in TreesOf(o) BY <1>1, <1>2, <1>3, TogglesInBounds
<1>6. Padded(n, u)
  <2> SUFFICES ASSUME NEW s \in Nat, n <= s, s < pow2[o - 1]
               PROVE  \E q \in Marked(u) : n <= Lo(o, q) /\ Lo(o, q) <= s /\ s < Lo(o, q) + Width(o, q)
    BY <1>4 DEF Padded
  <2>1. PICK q \in Marked(t) : n <= Lo(o, q) /\ Lo(o, q) <= s /\ s < Lo(o, q) + Width(o, q) BY <1>1 DEF Padded
  <2>2. q # p
    <3> SUFFICES ASSUME q = p PROVE FALSE OBVIOUS
    <3> QED BY <1>1, <1>3, <2>1
  <2> QED BY <1>4, <2>1, <2>2
<1>7. HeapOK(o, n, u)
  <2>1. Walled(n, t) BY HeapIs
  <2>2. ASSUME NEW v \in Wall(n) PROVE v \in Marked(t) /\ n <= Lo(o, v) /\ v # p
    <3>1. v \in Marked(t) /\ n <= Lo(o, v) BY <1>1, <2>1 DEF Walled
    <3>2. v # p BY <1>1, <1>3, <3>1
    <3> QED BY <3>1, <3>2
  <2>3. Walled(n, u) BY <1>4, <2>2 DEF Walled
  <2> QED BY <1>4, <1>5, <1>6, <2>3 DEF HeapOK
<1>8. Live(n, u) = Live(n, t) \ {p} BY <1>1, <1>4 DEF Live
<1>9. ASSUME NEW q \in Live(n, t), BlockAt(o, q) = BlockAt(o, p) PROVE q = p
  <2>1. BUDDY_ALLOC_ALIGN * Lo(o, q) = BUDDY_ALLOC_ALIGN * Lo(o, p) BY <1>9 DEF BlockAt
  <2> QED BY <2>1, AddressTells
<1>10. BlocksOf(o, n, u) = BlocksOf(o, n, t) \ {BlockAt(o, p)} BY <1>8, <1>9 DEF BlocksOf
<1>11. \A q \in Marked(u) : ~OnePath(q, p) BY <1>1, <1>3, <1>4, MarkedApart
<1> QED BY <1>2, <1>4, <1>7, <1>8, <1>10, <1>11

\* Where malloc and realloc put a request: at a position of its size class that shares
\* no slot with a marked one, if there is one.
LEMMA PlaceRight ==
    ASSUME NEW o, NEW n, NEW t, Arena(memory_size, o, n), HeapOK(o, n, t), NEW requested \in Nat, requested >= 1,
           NEW pos, pos = Place(t, requested)
    PROVE  /\ pos # INVALID_POS => /\ pos \in Positions(o) /\ \A p \in Marked(t) : ~OnePath(p, pos)
                                   /\ requested <= memory_size /\ Depth[pos] = depth_for_size(requested)
           /\ pos = INVALID_POS /\ requested <= memory_size =>
                \A r \in Positions(o) : Depth[r] = depth_for_size(requested) => \E p \in Marked(t) : OnePath(p, r)
<1>1. t.order = o /\ Sound(t) BY HeapIs
<1>2. memory_size \in Nat
  <2>1. n \in Nat /\ memory_size = BUDDY_ALLOC_ALIGN * n BY DEF Arena
  <2> QED BY <2>1, AlignIs
<1>3. CASE requested > memory_size
  <2>1. pos = INVALID_POS BY <1>3 DEF Place
  <2> QED BY <1>2, <1>3, <2>1
<1>4. CASE ~(requested > memory_size)
  <2>1. PICK d : d = depth_for_size(requested) OBVIOUS
  <2>2. d \in 1 .. o
    <3>1. requested \in 1 .. memory_size BY <1>2, <1>4
    <3> QED BY <2>1, <3>1, DepthInTree
  <2>3. pos = tree_find_free(t, d, left_bias) BY <1>4, <2>1 DEF Place
  <2>4. Room(t, d, pos) \/ (pos = INVALID_POS /\ \A q : ~Room(t, d, q)) BY <1>1, <2>2, <2>3, SearchExact
  <2>5. requested <= memory_size BY <1>2, <1>4
  <2>6. CASE Room(t, d, pos)
    <3>1. pos \in Positions(o) /\ Depth[pos] = d BY <1>1, <2>6 DEF Room
    <3>2. \A p \in Marked(t) : ~OnePath(p, pos) BY <1>1, <2>6, <3>1, RoomIs
    <3>3. pos # INVALID_POS
      <4>1. pos >= 1 /\ pos \in Nat
        <5>1. o \in 1 .. MaxOrder BY HeapIs
        <5> QED BY <3>1, <5>1, PositionIs
      <4> QED BY <4>1 DEF INVALID_POS
    <3> QED BY <2>1, <2>5, <3>1, <3>2, <3>3
  <2>7. CASE pos = INVALID_POS /\ \A q : ~Room(t, d, q)
    <3>1. ASSUME NEW r \in Positions(o), Depth[r] = d PROVE \E p \in Marked(t) : OnePath(p, r)
      <4>1. ~Room(t, Depth[r], r) BY <2>7, <3>1
      <4> QED BY <1>1, <4>1, RoomIs
    <3> QED BY <2>1, <2>7, <3>1
  <2> QED BY <2>4, <2>6, <2>7
<1> QED BY <1>3, <1>4

\* The block of a position inside the arena.
LEMMA BlockIs ==
    ASSUME NEW m, NEW o, NEW n, Arena(m, o, n), NEW p \in Positions(o), Lo(o, p) + Width(o, p) <= n
    PROVE  /\ m \in Nat /\ m >= 1 /\ BlockAt(o, p).addr \in Nat /\ BlockAt(o, p).size \in Nat
           /\ BlockAt(o, p).size >= 1 /\ BlockAt(o, p).addr + BlockAt(o, p).size <= m
           /\ BlockAt(o, p).addr = BUDDY_ALLOC_ALIGN * Lo(o, p) /\ BlockAt(o, p).size = BUDDY_ALLOC_ALIGN * Width(o, p)
           /\ BlockAt(o, p) = Heap!Block(BUDDY_ALLOC_ALIGN * Lo(o, p), BUDDY_ALLOC_ALIGN * Width(o, p))
<1>1. o \in 1 .. MaxOrder /\ n \in Nat /\ n >= 1 /\ m = BUDDY_ALLOC_ALIGN * n BY DEF Arena
<1>2. PICK a \in Nat, x \in Nat, w \in Nat :
        a = BUDDY_ALLOC_ALIGN /\ a >= 1 /\ x = Lo(o, p) /\ w = Width(o, p) /\ w >= 1
  <2>1. Lo(o, p) \in Nat /\ Width(o, p) \in Nat /\ Width(o, p) >= 1 BY <1>1, SlotsOf
  <2>2. BUDDY_ALLOC_ALIGN \in Nat /\ BUDDY_ALLOC_ALIGN >= 1 BY AlignIs
  <2> QED BY <2>1, <2>2
<1>3. BlockAt(o, p).addr = a * x /\ BlockAt(o, p).size = a * w /\ BlockAt(o, p) = Heap!Block(a * x, a * w)
  BY <1>2 DEF BlockAt, Heap!Block
<1>4. a * x \in Nat /\ a * w \in Nat /\ a * n \in Nat BY <1>1
<1>5. a * 1 <= a * w /\ a * 1 <= a * n BY <1>1, <1>2, TimesMonotone
<1>6. a * (x + w) <= a * n BY <1>1, <1>2, TimesMonotone
<1>7. a * (x + w) = a * x + a * w BY SMT
<1> QED BY <1>1, <1>2, <1>3, <1>4, <1>5, <1>6, <1>7

LEMMA ApartBlocks ==
    ASSUME NEW o \in 1 .. MaxOrder, NEW p \in Positions(o), NEW q \in Positions(o), Apart(o, p, q)
    PROVE  Heap!Disjoint(BlockAt(o, p), BlockAt(o, q))
<1>1. PICK a \in Nat, x \in Nat, v \in Nat, y \in Nat, w \in Nat :
        a = BUDDY_ALLOC_ALIGN /\ x = Lo(o, p) /\ v = Width(o, p) /\ y = Lo(o, q) /\ w = Width(o, q)
  BY AlignIs, SlotsOf
<1>2. /\ BlockAt(o, p).addr = a * x /\ BlockAt(o, p).size = a * v
      /\ BlockAt(o, q).addr = a * y /\ BlockAt(o, q).size = a * w
  BY <1>1 DEF BlockAt
<1>3. a * (x + v) = a * x + a * v /\ a * (y + w) = a * y + a * w BY SMT
<1>4. a * x \in Nat /\ a * v \in Nat /\ a * y \in Nat /\ a * w \in Nat OBVIOUS
<1>5. CASE x + v <= y
  <2>1. a * (x + v) <= a * y BY <1>5, TimesMonotone
  <2> QED BY <1>2, <1>3, <1>4, <2>1 DEF Heap!Disjoint
<1>6. CASE y + w <= x
  <2>1. a * (y + w) <= a * x BY <1>6, TimesMonotone
  <2> QED BY <1>2, <1>3, <1>4, <2>1 DEF Heap!Disjoint
<1> QED BY <1>1, <1>5, <1>6 DEF Apart

-----------------------------------------------------------------------------
(* The calls keep the heap, and are steps of AbstractHeap *)

\* The inductive invariant: the blocks are exactly the
\* marked positions inside the arena, and the last answer is the address of one.
HeapInv ==
    \E o, n : /\ Arena(memory_size, o, n) /\ HeapOK(o, n, tree) /\ blocks = BlocksOf(o, n, tree)
              /\ left_bias \in BOOLEAN
              /\ answer = Null \/ \E b \in blocks : answer = b.addr

\* A step of the allocator that AbstractHeap allows.
Kept == HeapInv' /\ [Heap!Next]_(Heap!heapVars)

LEMMA HeapNext ==
    ASSUME NEW o, NEW n, Arena(memory_size, o, n), HeapOK(o, n, tree'), blocks' = BlocksOf(o, n, tree'),
           memory_size' = memory_size, left_bias' \in BOOLEAN,
           answer' = Null \/ \E b \in blocks' : answer' = b.addr
    PROVE  HeapInv'
<1>1. Arena(memory_size', o, n) OBVIOUS
<1> QED BY <1>1 DEF HeapInv

LEMMA RefusedStep ==
    ASSUME HeapInv, Refused
    PROVE  Kept
<1>1. PICK o, n : /\ Arena(memory_size, o, n) /\ HeapOK(o, n, tree) /\ blocks = BlocksOf(o, n, tree)
                  /\ left_bias \in BOOLEAN
  BY DEF HeapInv
<1>2. /\ tree' = tree /\ blocks' = blocks /\ memory_size' = memory_size /\ left_bias' = left_bias /\ answer' = Null
  BY DEF Refused
<1>3. HeapOK(o, n, tree') /\ blocks' = BlocksOf(o, n, tree') /\ left_bias' \in BOOLEAN BY <1>1, <1>2
<1>4. HeapInv' BY <1>1, <1>2, <1>3, HeapNext
<1>5. Heap!Refuse BY <1>2 DEF Heap!Refuse
<1> QED BY <1>4, <1>5 DEF Kept, Heap!Next

\* A position that shares no slot with a marked one is a free spot of the heap.
LEMMA SpotFree ==
    ASSUME NEW o, NEW n, NEW t, Arena(memory_size, o, n), HeapOK(o, n, t), NEW r \in Positions(o),
           \A p \in Marked(t) : ~OnePath(p, r)
    PROVE  /\ Handed(r) = BlockAt(o, r) /\ address_for_position(r) = BlockAt(o, r).addr
           /\ \E a \in 0 .. memory_size, k \in 1 .. memory_size :
                /\ BlockAt(o, r) = Heap!Block(a, k) /\ BlockAt(o, r).addr = a
                /\ Heap!FreeSpot(Heap!Block(a, k), BlocksOf(o, n, t))
<1>1. o \in 1 .. MaxOrder BY HeapIs
<1>2. PICK u : u = tree_mark(t, r) OBVIOUS
<1>3. HeapOK(o, n, u) /\ r \in Live(n, u) BY <1>2, AddMark
<1>4. Lo(o, r) + Width(o, r) <= n BY <1>3, LiveInside
<1>5. PICK a, k : a = BlockAt(o, r).addr /\ k = BlockAt(o, r).size OBVIOUS
<1>6. /\ memory_size \in Nat /\ a \in Nat /\ k \in Nat /\ k >= 1 /\ a + k <= memory_size
      /\ a = BUDDY_ALLOC_ALIGN * Lo(o, r) /\ BlockAt(o, r) = Heap!Block(a, k)
  BY <1>4, <1>5, BlockIs
<1>7. Handed(r) = BlockAt(o, r) /\ address_for_position(r) = a BY <1>6, HandedIs
<1>8. ASSUME NEW d \in BlocksOf(o, n, t) PROVE Heap!Disjoint(BlockAt(o, r), d)
  <2>1. PICK p \in Live(n, t) : d = BlockAt(o, p) BY DEF BlocksOf
  <2>2. p \in Marked(t) /\ p \in Positions(o) BY LiveInside
  <2>3. Apart(o, r, p)
    <3>1. ~OnePath(r, p) BY <2>2 DEF OnePath
    <3> QED BY <1>1, <2>2, <3>1, ApartIs
  <2> QED BY <1>1, <2>1, <2>2, <2>3, ApartBlocks
<1>9. Heap!FreeSpot(Heap!Block(a, k), BlocksOf(o, n, t))
  <2>1. PICK b : b = Heap!Block(a, k) /\ b = BlockAt(o, r) BY <1>6
  <2>2. b.addr = a /\ b.size = k BY <1>5, <2>1
  <2>3. b.addr >= 0 /\ b.addr + b.size <= memory_size BY <1>6, <2>2
  <2>4. Heap!FreeSpot(b, BlocksOf(o, n, t)) BY <1>8, <2>1, <2>3 DEF Heap!FreeSpot
  <2> QED BY <2>1, <2>4
<1>10. a \in 0 .. memory_size /\ k \in 1 .. memory_size BY <1>6
<1> QED BY <1>5, <1>6, <1>7, <1>9, <1>10

\* tree_mark of a free position, with its block handed out: malloc, and realloc once
\* the old block is released.
LEMMA MarkStep ==
    ASSUME NEW o, NEW n, NEW t, Arena(memory_size, o, n), HeapOK(o, n, t), NEW r \in Positions(o),
           \A p \in Marked(t) : ~OnePath(p, r), left_bias \in BOOLEAN,
           tree' = tree_mark(t, r), blocks' = BlocksOf(o, n, t) \cup {Handed(r)},
           answer' = address_for_position(r), memory_size' = memory_size, left_bias' = left_bias
    PROVE  /\ HeapInv'
           /\ \E a \in 0 .. memory_size, k \in 1 .. memory_size :
                /\ Heap!FreeSpot(Heap!Block(a, k), BlocksOf(o, n, t))
                /\ blocks' = BlocksOf(o, n, t) \cup {Heap!Block(a, k)} /\ answer' = a
<1>1. /\ Handed(r) = BlockAt(o, r) /\ address_for_position(r) = BlockAt(o, r).addr
      /\ \E a \in 0 .. memory_size, k \in 1 .. memory_size :
           /\ BlockAt(o, r) = Heap!Block(a, k) /\ BlockAt(o, r).addr = a
           /\ Heap!FreeSpot(Heap!Block(a, k), BlocksOf(o, n, t))
  BY SpotFree
<1>2. HeapOK(o, n, tree') /\ blocks' = BlocksOf(o, n, tree') BY <1>1, AddMark
<1>3. \E b \in blocks' : answer' = b.addr BY <1>1
<1>4. HeapInv' BY <1>2, <1>3, HeapNext
<1> QED BY <1>1, <1>4

LEMMA MallocStep ==
    ASSUME HeapInv, NEW requested \in Nat, malloc(requested)
    PROVE  Kept
<1>1. PICK o, n : /\ Arena(memory_size, o, n) /\ HeapOK(o, n, tree) /\ blocks = BlocksOf(o, n, tree)
                  /\ left_bias \in BOOLEAN
  BY DEF HeapInv
<1>2. PICK wanted \in Nat : wanted >= 1 /\ wanted = IF requested = 0 THEN 1 ELSE requested OBVIOUS
<1>3. PICK pos : pos = Place(tree, wanted) OBVIOUS
<1>4. CASE pos = INVALID_POS
  <2>1. Refused BY <1>2, <1>3, <1>4 DEF malloc
  <2> QED BY <2>1, RefusedStep
<1>5. CASE pos # INVALID_POS
  <2>1. pos \in Positions(o) /\ \A p \in Marked(tree) : ~OnePath(p, pos) BY <1>1, <1>2, <1>3, <1>5, PlaceRight
  <2>2. /\ tree' = tree_mark(tree, pos) /\ blocks' = blocks \cup {Handed(pos)}
        /\ answer' = address_for_position(pos) /\ memory_size' = memory_size /\ left_bias' = left_bias
    BY <1>2, <1>3, <1>5 DEF malloc
  <2>3. blocks' = BlocksOf(o, n, tree) \cup {Handed(pos)} BY <1>1, <2>2
  <2>4. /\ HeapInv'
        /\ \E a \in 0 .. memory_size, k \in 1 .. memory_size :
             /\ Heap!FreeSpot(Heap!Block(a, k), BlocksOf(o, n, tree))
             /\ blocks' = BlocksOf(o, n, tree) \cup {Heap!Block(a, k)} /\ answer' = a
    BY <1>1, <2>1, <2>2, <2>3, MarkStep
  <2>5. Heap!Allocate BY <1>1, <2>2, <2>4 DEF Heap!Allocate
  <2> QED BY <2>4, <2>5 DEF Kept, Heap!Next
<1> QED BY <1>4, <1>5

LEMMA BlockFound ==
    ASSUME NEW o, NEW n, HeapOK(o, n, tree), blocks = BlocksOf(o, n, tree), NEW b \in blocks
    PROVE  /\ position_for_address(b.addr) \in Live(n, tree)
           /\ b = BlockAt(o, position_for_address(b.addr))
<1>1. PICK p \in Live(n, tree) : b = BlockAt(o, p) BY DEF BlocksOf
<1>2. p \in Marked(tree) /\ Sound(tree) /\ tree.order = o BY LiveInside, HeapIs
<1>3. b.addr = BUDDY_ALLOC_ALIGN * Lo(o, p) BY <1>1 DEF BlockAt
<1>4. position_for_address(b.addr) = p BY <1>2, <1>3, PositionFound
<1> QED BY <1>1, <1>4

LEMMA FreeStep ==
    ASSUME HeapInv, NEW b \in blocks, free(b)
    PROVE  Kept
<1>1. PICK o, n : /\ Arena(memory_size, o, n) /\ HeapOK(o, n, tree) /\ blocks = BlocksOf(o, n, tree)
                  /\ left_bias \in BOOLEAN
  BY DEF HeapInv
<1>2. PICK p : p = position_for_address(b.addr) /\ p \in Live(n, tree) /\ b = BlockAt(o, p) BY <1>1, BlockFound
<1>3. /\ tree' = tree_release(tree, p) /\ blocks' = blocks \ {b} /\ answer' = Null
      /\ memory_size' = memory_size /\ left_bias' = left_bias
  BY <1>2 DEF free
<1>4. HeapOK(o, n, tree') /\ blocks' = BlocksOf(o, n, tree')
  <2>1. PICK t : t = tree' OBVIOUS
  <2>2. HeapOK(o, n, t) /\ BlocksOf(o, n, t) = BlocksOf(o, n, tree) \ {BlockAt(o, p)}
    <3>0. HeapOK(o, n, tree) /\ p \in Live(n, tree) BY <1>1, <1>2
    <3>1. /\ HeapOK(o, n, tree_release(tree, p))
          /\ BlocksOf(o, n, tree_release(tree, p)) = BlocksOf(o, n, tree) \ {BlockAt(o, p)}
      BY <3>0, DropMark
    <3> QED BY <1>3, <2>1, <3>1, Zenon
  <2> QED BY <1>1, <1>2, <1>3, <2>1, <2>2
<1>5. HeapInv' BY <1>1, <1>3, <1>4, HeapNext
<1>6. Heap!Free BY <1>3 DEF Heap!Free
<1> QED BY <1>5, <1>6 DEF Kept, Heap!Next

LEMMA ReallocStep ==
    ASSUME HeapInv, NEW b \in blocks, NEW requested \in Nat, realloc(b, requested)
    PROVE  Kept
<1>1. PICK o, n : /\ Arena(memory_size, o, n) /\ HeapOK(o, n, tree) /\ blocks = BlocksOf(o, n, tree)
                  /\ left_bias \in BOOLEAN
  BY DEF HeapInv
<1>2. PICK p : p = position_for_address(b.addr) /\ p \in Live(n, tree) /\ b = BlockAt(o, p) BY <1>1, BlockFound
<1>3. PICK t : t = tree_release(tree, p) OBVIOUS
<1>4. PICK pos : pos = Place(t, requested) OBVIOUS
<1>5. /\ HeapOK(o, n, t) /\ BlocksOf(o, n, t) = blocks \ {b} /\ \A q \in Marked(t) : ~OnePath(q, p)
  <2>0. HeapOK(o, n, tree) /\ p \in Live(n, tree) BY <1>1, <1>2
  <2>1. /\ HeapOK(o, n, tree_release(tree, p))
        /\ BlocksOf(o, n, tree_release(tree, p)) = BlocksOf(o, n, tree) \ {BlockAt(o, p)}
        /\ \A q \in Marked(tree_release(tree, p)) : ~OnePath(q, p)
    BY <2>0, DropMark
  <2> QED BY <1>1, <1>2, <1>3, <2>1, Zenon
<1>6. CASE requested = 0
  <2>1. free(b) BY <1>6 DEF realloc
  <2> QED BY <2>1, FreeStep
<1>7. CASE requested # 0 /\ requested > memory_size
  <2>1. Refused BY <1>7 DEF realloc
  <2> QED BY <2>1, RefusedStep
<1>8. CASE requested # 0 /\ ~(requested > memory_size) /\ pos = INVALID_POS
  <2>1. /\ tree' = tree_mark(t, p) /\ answer' = Null /\ blocks' = blocks
        /\ memory_size' = memory_size /\ left_bias' = left_bias
    BY <1>2, <1>3, <1>4, <1>8 DEF realloc
  <2>2. p \in Positions(o) BY <1>1, <1>2, LiveInside
  <2>3. HeapOK(o, n, tree') /\ blocks' = BlocksOf(o, n, tree')
    <3>1. PICK u : u = tree' OBVIOUS
    <3>2. HeapOK(o, n, u) /\ BlocksOf(o, n, u) = BlocksOf(o, n, t) \cup {BlockAt(o, p)}
      BY <1>5, <2>1, <2>2, <3>1, AddMark
    <3>3. (blocks \ {b}) \cup {b} = blocks OBVIOUS
    <3> QED BY <1>2, <1>5, <2>1, <3>1, <3>2, <3>3
  <2>4. HeapInv' BY <1>1, <2>1, <2>3, HeapNext
  <2>5. Heap!Refuse BY <2>1 DEF Heap!Refuse
  <2> QED BY <2>4, <2>5 DEF Kept, Heap!Next
<1>9. CASE requested # 0 /\ ~(requested > memory_size) /\ pos # INVALID_POS
  <2>1. /\ tree' = tree_mark(t, pos) /\ answer' = address_for_position(pos)
        /\ blocks' = (blocks \ {b}) \cup {Handed(pos)}
        /\ memory_size' = memory_size /\ left_bias' = left_bias
    BY <1>2, <1>3, <1>4, <1>9 DEF realloc
  <2>2. pos \in Positions(o) /\ \A q \in Marked(t) : ~OnePath(q, pos)
    <3>1. requested >= 1 BY <1>9
    <3> QED BY <1>1, <1>4, <1>5, <1>9, <3>1, PlaceRight
  <2>3. blocks' = BlocksOf(o, n, t) \cup {Handed(pos)} BY <1>5, <2>1
  <2>4. /\ HeapInv'
        /\ \E a \in 0 .. memory_size, k \in 1 .. memory_size :
             /\ Heap!FreeSpot(Heap!Block(a, k), BlocksOf(o, n, t))
             /\ blocks' = BlocksOf(o, n, t) \cup {Heap!Block(a, k)} /\ answer' = a
    BY <1>1, <1>5, <2>1, <2>2, <2>3, MarkStep
  <2>5. Heap!Move BY <1>5, <2>1, <2>4 DEF Heap!Move
  <2> QED BY <2>4, <2>5 DEF Kept, Heap!Next
<1> QED BY <1>6, <1>7, <1>8, <1>9

LEMMA ProductInNat ==
    ASSUME NEW m \in Nat, m >= 1, NEW k \in Nat, Product(m, k) # Null
    PROVE  Product(m, k) \in Nat
<1>1. Product(m, k) = m * k BY ProductRight
<1> QED BY <1>1

LEMMA CountsAre == Counts \in SUBSET Nat
<1>1. pow2[SizeBits] \in Nat /\ pow2[SizeBits] >= 1 BY WidthAssumption, PowerIs
<1> QED BY <1>1 DEF Counts

LEMMA CallocStep ==
    ASSUME HeapInv, NEW m \in Nat, NEW k \in Nat, calloc(m, k)
    PROVE  Kept
<1>1. CASE m = 0 \/ k = 0
  <2>1. 1 = Null \/ malloc(1) BY <1>1 DEF calloc
  <2>2. CASE 1 = Null
    <3>1. Refused BY <1>1, <2>2 DEF calloc
    <3> QED BY <3>1, RefusedStep
  <2>3. CASE malloc(1) BY <2>3, MallocStep
  <2> QED BY <2>1, <2>2, <2>3
<1>2. CASE ~(m = 0 \/ k = 0)
  <2>1. CASE Product(m, k) = Null
    <3>1. Refused BY <1>2, <2>1 DEF calloc
    <3> QED BY <3>1, RefusedStep
  <2>2. CASE Product(m, k) # Null
    <3>1. malloc(Product(m, k)) BY <1>2, <2>2 DEF calloc
    <3>2. Product(m, k) \in Nat
      <4>1. m >= 1 BY <1>2
      <4> QED BY <2>2, <4>1, ProductInNat
    <3> QED BY <3>1, <3>2, MallocStep
  <2> QED BY <2>1, <2>2
<1> QED BY <1>1, <1>2

LEMMA ReallocarrayStep ==
    ASSUME HeapInv, NEW b \in blocks, NEW m \in Nat, NEW k \in Nat, reallocarray(b, m, k)
    PROVE  Kept
<1>1. CASE m = 0 \/ k = 0
  <2>1. free(b) BY <1>1 DEF reallocarray
  <2> QED BY <2>1, FreeStep
<1>2. CASE ~(m = 0 \/ k = 0)
  <2>1. CASE Product(m, k) = Null
    <3>1. Refused BY <1>2, <2>1 DEF reallocarray
    <3> QED BY <3>1, RefusedStep
  <2>2. CASE Product(m, k) # Null
    <3>1. realloc(b, Product(m, k)) BY <1>2, <2>2 DEF reallocarray
    <3>2. Product(m, k) \in Nat
      <4>1. m >= 1 BY <1>2
      <4> QED BY <2>2, <4>1, ProductInNat
    <3> QED BY <3>1, <3>2, ReallocStep
  <2> QED BY <2>1, <2>2
<1> QED BY <1>1, <1>2

LEMMA BiasStep ==
    ASSUME HeapInv, set_left_bias \/ set_optimal_fit
    PROVE  Kept
<1>1. PICK o, n : Arena(memory_size, o, n) /\ HeapOK(o, n, tree) /\ blocks = BlocksOf(o, n, tree)
  BY DEF HeapInv
<1>2. /\ tree' = tree /\ blocks' = blocks /\ memory_size' = memory_size /\ left_bias' \in BOOLEAN /\ answer' = Null
  BY DEF set_left_bias, set_optimal_fit
<1>3. HeapOK(o, n, tree') /\ blocks' = BlocksOf(o, n, tree') BY <1>1, <1>2
<1>4. HeapInv' BY <1>1, <1>2, <1>3, HeapNext
<1>5. Heap!Refuse BY <1>2 DEF Heap!Refuse
<1> QED BY <1>4, <1>5 DEF Kept, Heap!Next

-----------------------------------------------------------------------------
(* Ranges *)

\* The deepest positions of k + 1 slots from i on, as toggle_range_reservation visits them.
Row(o, i, k) == [j \in 1 .. k + 1 |-> Deepest(o, i + j - 1)]
RowBlocks(o, i, k) == {BlockAt(o, Deepest(o, s)) : s \in i .. i + k}

LEMMA SlotIs ==
    ASSUME NEW o \in 1 .. MaxOrder, NEW s \in Nat, s < pow2[o - 1]
    PROVE  /\ Deepest(o, s) \in Positions(o) /\ Lo(o, Deepest(o, s)) = s /\ Width(o, Deepest(o, s)) = 1
           /\ BlockAt(o, Deepest(o, s)) = Slot(BUDDY_ALLOC_ALIGN * s)
<1>1. Deepest(o, s) \in Positions(o) /\ Lo(o, Deepest(o, s)) = s /\ Width(o, Deepest(o, s)) = 1 BY DeepestIs
<1>2. BUDDY_ALLOC_ALIGN * 1 = BUDDY_ALLOC_ALIGN BY AlignIs
<1> QED BY <1>1, <1>2 DEF BlockAt, Slot

LEMMA SlotsApart ==
    ASSUME NEW o \in 1 .. MaxOrder, NEW s \in Nat, s < pow2[o - 1], NEW p \in Positions(o),
           NEW lo \in Nat, NEW w \in Nat, lo = Lo(o, p), w = Width(o, p), ~(lo <= s /\ s < lo + w)
    PROVE  ~OnePath(p, Deepest(o, s))
<1>1. Deepest(o, s) \in Positions(o) /\ Lo(o, Deepest(o, s)) = s /\ Width(o, Deepest(o, s)) = 1 BY SlotIs
<1>2. Apart(o, p, Deepest(o, s)) BY <1>1 DEF Apart
<1> QED BY <1>1, <1>2, ApartIs

RowRight(o, i, k, row) ==
    /\ row \in Seq(Positions(o)) /\ Len(row) = k + 1
    /\ \A j \in 1 .. k + 1 : i + j - 1 \in i .. i + k /\ row[j] = Deepest(o, i + j - 1)
    /\ {row[j] : j \in 1 .. k + 1} = {Deepest(o, s) : s \in i .. i + k}
    /\ \A x, y \in 1 .. k + 1 : x < y => ~OnePath(row[x], row[y]) /\ row[x] # row[y]

LEMMA RowIs ==
    ASSUME NEW o \in 1 .. MaxOrder, NEW i \in Nat, NEW k \in Nat, i + k < pow2[o - 1]
    PROVE  RowRight(o, i, k, Row(o, i, k))
<1>0. PICK row : row = Row(o, i, k) OBVIOUS
<1>1. pow2[o - 1] \in Nat
  <2>1. 1 \in Positions(o) BY RootIs
  <2> QED BY <2>1, SlotsOf
<1>2. ASSUME NEW j \in 1 .. k + 1
      PROVE  i + j - 1 \in i .. i + k /\ i + j - 1 \in Nat /\ i + j - 1 < pow2[o - 1] /\ row[j] = Deepest(o, i + j - 1)
  BY <1>0, <1>1 DEF Row
<1>3. \A j \in 1 .. k + 1 : row[j] \in Positions(o) BY <1>2, SlotIs
<1>4. row \in [1 .. k + 1 -> Positions(o)] BY <1>0, <1>3 DEF Row
<1>5. row \in Seq(Positions(o)) /\ Len(row) = k + 1 BY <1>4
<1>6. ASSUME NEW s \in i .. i + k PROVE \E j \in 1 .. k + 1 : row[j] = Deepest(o, s)
  <2>1. s - i + 1 \in 1 .. k + 1 /\ i + (s - i + 1) - 1 = s OBVIOUS
  <2>2. row[s - i + 1] = Deepest(o, s) BY <1>2, <2>1
  <2> QED BY <2>1, <2>2
<1>7. {row[j] : j \in 1 .. k + 1} = {Deepest(o, s) : s \in i .. i + k} BY <1>2, <1>6
<1>8. ASSUME NEW x \in 1 .. k + 1, NEW y \in 1 .. k + 1, x < y PROVE ~OnePath(row[x], row[y]) /\ row[x] # row[y]
  <2>1. PICK u \in Nat, v \in Nat : /\ u = i + x - 1 /\ v = i + y - 1 /\ u < v /\ u < pow2[o - 1] /\ v < pow2[o - 1]
                                    /\ row[x] = Deepest(o, u) /\ row[y] = Deepest(o, v)
    <3>1. i + x - 1 < i + y - 1 BY <1>8
    <3> QED BY <1>2, <3>1
  <2>2. Deepest(o, u) \in Positions(o) /\ Lo(o, Deepest(o, u)) = u /\ Width(o, Deepest(o, u)) = 1 BY <2>1, SlotIs
  <2>3. 1 \in Nat /\ ~(u <= v /\ v < u + 1) BY <2>1
  <2>4. ~OnePath(Deepest(o, u), Deepest(o, v)) BY <2>1, <2>2, <2>3, SlotsApart
  <2>5. row[x] # row[y] BY <2>1, <2>4 DEF OnePath, Covers
  <2> QED BY <2>1, <2>4, <2>5
<1>9. RowRight(o, i, k, row) BY <1>2, <1>5, <1>7, <1>8 DEF RowRight
<1> QED BY <1>0, <1>9, Zenon

RowMarked(o, n, t, i, k, u) ==
    /\ HeapOK(o, n, u) /\ BlocksOf(o, n, u) = BlocksOf(o, n, t) \cup RowBlocks(o, i, k)
    /\ \A s \in i .. i + k : Deepest(o, s) \in Live(n, u)
RowReleased(o, n, t, i, k, u) ==
    HeapOK(o, n, u) /\ BlocksOf(o, n, u) = BlocksOf(o, n, t) \ RowBlocks(o, i, k)

LEMMA MarkRow ==
    ASSUME NEW o, NEW n, NEW t, HeapOK(o, n, t), NEW i \in Nat, NEW k \in Nat, i + k < n,
           \A s \in i .. i + k : \A p \in Marked(t) : ~OnePath(p, Deepest(o, s))
    PROVE  RowMarked(o, n, t, i, k, Toggled(t, Row(o, i, k), TRUE))
<1>0. PICK u : u = Toggled(t, Row(o, i, k), TRUE) OBVIOUS
<1>1. /\ o \in 1 .. MaxOrder /\ n \in Nat /\ n <= pow2[o - 1] /\ pow2[o - 1] \in Nat
      /\ t \in TreesOf(o) /\ t.order = o /\ Sound(t) /\ Padded(n, t)
  BY HeapIs
<1>2. PICK row : row = Row(o, i, k) OBVIOUS
<1>3. i + k < pow2[o - 1] BY <1>1
<1>4. /\ row \in Seq(Positions(o)) /\ Len(row) = k + 1
      /\ \A j \in 1 .. k + 1 : i + j - 1 \in i .. i + k /\ row[j] = Deepest(o, i + j - 1)
      /\ {row[j] : j \in 1 .. k + 1} = {Deepest(o, s) : s \in i .. i + k}
      /\ \A x, y \in 1 .. k + 1 : x < y => ~OnePath(row[x], row[y])
  <2>1. RowRight(o, i, k, Row(o, i, k)) BY <1>1, <1>3, RowIs
  <2> QED BY <1>2, <2>1 DEF RowRight
<1>5. \A j \in 1 .. Len(row) : \A p \in Marked(t) : ~OnePath(p, row[j]) BY <1>4
<1>6. u = Toggled(t, row, TRUE) BY <1>0, <1>2
<1>7. u \in TreesOf(o) /\ Sound(u) /\ Marked(u) = Marked(t) \cup {row[j] : j \in 1 .. Len(row)}
  <2>1. \A x, y \in 1 .. Len(row) : x < y => ~OnePath(row[x], row[y]) BY <1>4
  <2>2. Spread(t, row) BY <1>5, <2>1 DEF Spread
  <2>3. AllMarked(o, t, row, Toggled(t, row, TRUE)) BY <1>1, <1>4, <2>2, MarkAll
  <2>4. AllMarked(o, t, row, u) BY <1>6, <2>3, Zenon
  <2> QED BY <2>4 DEF AllMarked
<1>8. Marked(u) = Marked(t) \cup {Deepest(o, s) : s \in i .. i + k} BY <1>4, <1>7
<1>9. u.order = o BY <1>7 DEF TreesOf
<1>10. Padded(n, u) BY <1>1, <1>8, <1>9 DEF Padded
<1>11. HeapOK(o, n, u)
  <2>1. n >= 1 /\ Walled(n, t) BY HeapIs
  <2>2. Walled(n, u) BY <1>1, <1>8, <1>9, <2>1 DEF Walled
  <2> QED BY <1>1, <1>7, <1>10, <2>1, <2>2 DEF HeapOK
<1>12. \A s \in i .. i + k : Lo(o, Deepest(o, s)) < n
  <2> SUFFICES ASSUME NEW s \in i .. i + k PROVE Lo(o, Deepest(o, s)) < n OBVIOUS
  <2>1. s \in Nat /\ s < n /\ s < pow2[o - 1] BY <1>1, <1>3
  <2> QED BY <1>1, <2>1, SlotIs
<1>13. Live(n, u) = Live(n, t) \cup {Deepest(o, s) : s \in i .. i + k} BY <1>1, <1>8, <1>9, <1>12 DEF Live
<1>14. BlocksOf(o, n, u) = BlocksOf(o, n, t) \cup RowBlocks(o, i, k) BY <1>13 DEF BlocksOf, RowBlocks
<1>15. RowMarked(o, n, t, i, k, u) BY <1>11, <1>13, <1>14 DEF RowMarked
<1> QED BY <1>0, <1>15, Zenon

LEMMA DropRow ==
    ASSUME NEW o, NEW n, NEW t, HeapOK(o, n, t), NEW i \in Nat, NEW k \in Nat, i + k < n,
           \A s \in i .. i + k : Deepest(o, s) \in Live(n, t)
    PROVE  RowReleased(o, n, t, i, k, Toggled(t, Row(o, i, k), FALSE))
<1>0. PICK u : u = Toggled(t, Row(o, i, k), FALSE) OBVIOUS
<1>1. /\ o \in 1 .. MaxOrder /\ n \in Nat /\ n >= 1 /\ n <= pow2[o - 1] /\ pow2[o - 1] \in Nat
      /\ t \in TreesOf(o) /\ t.order = o /\ Sound(t) /\ Padded(n, t)
  BY HeapIs
<1>2. PICK row : row = Row(o, i, k) OBVIOUS
<1>3. i + k < pow2[o - 1] BY <1>1
<1>4. /\ row \in Seq(Positions(o)) /\ Len(row) = k + 1
      /\ \A j \in 1 .. k + 1 : i + j - 1 \in i .. i + k /\ row[j] = Deepest(o, i + j - 1)
      /\ {row[j] : j \in 1 .. k + 1} = {Deepest(o, s) : s \in i .. i + k}
      /\ \A x, y \in 1 .. k + 1 : x < y => row[x] # row[y]
  <2>1. RowRight(o, i, k, Row(o, i, k)) BY <1>1, <1>3, RowIs
  <2> QED BY <1>2, <2>1 DEF RowRight
<1>5. \A j \in 1 .. Len(row) : row[j] \in Marked(t) BY <1>4 DEF Live
<1>6. u = Toggled(t, row, FALSE) BY <1>0, <1>2
<1>7. u \in TreesOf(o) /\ Sound(u) /\ Marked(u) = Marked(t) \ {row[j] : j \in 1 .. Len(row)}
  <2>1. \A x, y \in 1 .. Len(row) : x < y => row[x] # row[y] BY <1>4
  <2>2. Releasable(t, row) BY <1>5, <2>1 DEF Releasable
  <2>3. AllReleased(o, t, row, Toggled(t, row, FALSE)) BY <1>1, <1>4, <2>2, ReleaseAll
  <2>4. AllReleased(o, t, row, u) BY <1>6, <2>3, Zenon
  <2> QED BY <2>4 DEF AllReleased
<1>8. PICK D : D = {Deepest(o, s) : s \in i .. i + k} OBVIOUS
<1>9. Marked(u) = Marked(t) \ D BY <1>4, <1>7, <1>8
<1>10. u.order = o BY <1>7 DEF TreesOf
<1>11. \A q \in D : Lo(o, q) < n /\ Lo(o, q) \in Nat /\ q \in Live(n, t)
  <2> SUFFICES ASSUME NEW s \in i .. i + k PROVE Lo(o, Deepest(o, s)) < n /\ Lo(o, Deepest(o, s)) \in Nat BY <1>8
  <2>1. s \in Nat /\ s < n /\ s < pow2[o - 1] BY <1>1, <1>3
  <2> QED BY <1>1, <2>1, SlotIs
<1>12. Padded(n, u)
  <2> SUFFICES ASSUME NEW s \in Nat, n <= s, s < pow2[o - 1]
               PROVE  \E q \in Marked(u) : n <= Lo(o, q) /\ Lo(o, q) <= s /\ s < Lo(o, q) + Width(o, q)
    BY <1>10 DEF Padded
  <2>1. PICK q \in Marked(t) : n <= Lo(o, q) /\ Lo(o, q) <= s /\ s < Lo(o, q) + Width(o, q) BY <1>1 DEF Padded
  <2>2. q \notin D
    <3> SUFFICES ASSUME q \in D PROVE FALSE OBVIOUS
    <3>1. Lo(o, q) < n /\ Lo(o, q) \in Nat BY <1>11
    <3> QED BY <1>1, <2>1, <3>1
  <2> QED BY <1>9, <2>1, <2>2
<1>13. HeapOK(o, n, u)
  <2>1. Walled(n, t) BY HeapIs
  <2>2. ASSUME NEW v \in Wall(n) PROVE v \in Marked(t) /\ n <= Lo(o, v) /\ v \notin D
    <3>1. v \in Marked(t) /\ n <= Lo(o, v) BY <1>1, <2>1 DEF Walled
    <3>2. v \notin D BY <1>1, <1>11, <3>1
    <3> QED BY <3>1, <3>2
  <2>3. Walled(n, u) BY <1>9, <1>10, <2>2 DEF Walled
  <2> QED BY <1>1, <1>7, <1>12, <2>3 DEF HeapOK
<1>14. Live(n, u) = Live(n, t) \ D BY <1>1, <1>9, <1>10 DEF Live
<1>15. ASSUME NEW q \in Live(n, t), NEW p \in D, BlockAt(o, q) = BlockAt(o, p) PROVE q = p
  <2>1. BUDDY_ALLOC_ALIGN * Lo(o, q) = BUDDY_ALLOC_ALIGN * Lo(o, p) BY <1>15 DEF BlockAt
  <2>2. p \in Live(n, t) BY <1>11
  <2> QED BY <2>1, <2>2, AddressTells
<1>16. RowBlocks(o, i, k) = {BlockAt(o, p) : p \in D} BY <1>8 DEF RowBlocks
<1>17. BlocksOf(o, n, u) = BlocksOf(o, n, t) \ RowBlocks(o, i, k) BY <1>14, <1>15, <1>16 DEF BlocksOf
<1>18. RowReleased(o, n, t, i, k, u) BY <1>13, <1>17 DEF RowReleased
<1> QED BY <1>0, <1>18, Zenon

\* The range that starts at slot i and takes requested bytes has k + 1 slots.
RangeOf(i, requested, k) ==
    i \in Nat /\ requested \in Nat /\ requested >= 1 /\ k \in Nat /\ k = (requested - 1) \div BUDDY_ALLOC_ALIGN

LEMMA RangeSlotsAre ==
    ASSUME NEW i, NEW requested, NEW k, RangeOf(i, requested, k)
    PROVE  RangeSlots(BUDDY_ALLOC_ALIGN * i, requested) = {BUDDY_ALLOC_ALIGN * s : s \in i .. i + k}
<1>1. i \in Nat /\ k \in Nat /\ k = (requested - 1) \div BUDDY_ALLOC_ALIGN BY DEF RangeOf
<1>2. PICK a \in Nat : a = BUDDY_ALLOC_ALIGN BY AlignIs
<1>3. RangeSlots(a * i, requested) = {a * i + j * a : j \in 0 .. k} BY <1>1, <1>2 DEF RangeSlots
<1>4. ASSUME NEW j \in 0 .. k PROVE i + j \in i .. i + k /\ a * i + j * a = a * (i + j)
  <2>1. j \in Nat OBVIOUS
  <2>2. a * i + j * a = a * (i + j) BY <1>1, <2>1, SMT
  <2> QED BY <1>1, <2>2
<1>5. ASSUME NEW s \in i .. i + k PROVE \E j \in 0 .. k : a * s = a * i + j * a
  <2>1. s - i \in 0 .. k /\ i + (s - i) = s BY <1>1
  <2> QED BY <1>4, <2>1
<1> QED BY <1>2, <1>3, <1>4, <1>5

LEMMA RangeToggles ==
    ASSUME NEW o, NEW n, HeapOK(o, n, tree), NEW i, NEW requested, NEW k, RangeOf(i, requested, k), NEW state
    PROVE  toggle_range_reservation(BUDDY_ALLOC_ALIGN * i, requested, state) = Toggled(tree, Row(o, i, k), state)
<1>1. i \in Nat /\ k \in Nat /\ k = (requested - 1) \div BUDDY_ALLOC_ALIGN BY DEF RangeOf
<1>2. PICK a \in Nat : a = BUDDY_ALLOC_ALIGN /\ a >= 1 BY AlignIs
<1>3. tree.order = o /\ pow2[o - 1] \in Nat BY HeapIs
<1>4. PICK first \in Nat : first = deepest_position_for_offset(a * i) /\ first = pow2[o - 1] + i
  <2>1. (a * i) \div a = i BY <1>1, <1>2, ExactQuotient
  <2> QED BY <1>1, <1>2, <1>3, <2>1 DEF deepest_position_for_offset, leftmost_child
<1>5. PICK last \in Nat : last = first + (requested - 1) \div BUDDY_ALLOC_ALIGN /\ last - first + 1 = k + 1
  <2>1. first + k \in Nat /\ (first + k) - first + 1 = k + 1 BY <1>1
  <2> QED BY <1>1, <2>1
<1>6. [j \in 1 .. last - first + 1 |-> first + j - 1] = Row(o, i, k)
  <2>1. \A j \in 1 .. k + 1 : first + j - 1 = pow2[o - 1] + (i + j - 1) BY <1>1, <1>3, <1>4
  <2> QED BY <1>5, <2>1 DEF Row, Deepest
<1>7. toggle_range_reservation(a * i, requested, state)
        = Toggled(tree, [j \in 1 .. last - first + 1 |-> first + j - 1], state)
  BY <1>4, <1>5, Zenon DEF toggle_range_reservation
<1> QED BY <1>2, <1>6, <1>7, Zenon

LEMMA SlotBlocksAre ==
    ASSUME NEW o \in 1 .. MaxOrder, NEW i, NEW requested, NEW k, RangeOf(i, requested, k), i + k < pow2[o - 1]
    PROVE  {Slot(x) : x \in RangeSlots(BUDDY_ALLOC_ALIGN * i, requested)} = RowBlocks(o, i, k)
<1>1. i \in Nat /\ k \in Nat BY DEF RangeOf
<1>2. RangeSlots(BUDDY_ALLOC_ALIGN * i, requested) = {BUDDY_ALLOC_ALIGN * s : s \in i .. i + k} BY RangeSlotsAre
<1>3. ASSUME NEW s \in i .. i + k PROVE BlockAt(o, Deepest(o, s)) = Slot(BUDDY_ALLOC_ALIGN * s)
  <2>1. pow2[o - 1] \in Nat
    <3>1. 1 \in Positions(o) BY RootIs
    <3> QED BY <3>1, SlotsOf
  <2>2. s \in Nat /\ s < pow2[o - 1] BY <1>1, <2>1
  <2> QED BY <2>2, SlotIs
<1> QED BY <1>2, <1>3 DEF RowBlocks

\* A range inside the arena ends at one of its slots.
LEMMA RangeInside ==
    ASSUME NEW n \in Nat, NEW i, NEW requested, NEW k, RangeOf(i, requested, k),
           BUDDY_ALLOC_ALIGN * i + requested <= BUDDY_ALLOC_ALIGN * n
    PROVE  i + k < n
<1>1. i \in Nat /\ k \in Nat /\ requested \in Nat /\ requested >= 1 /\ k = (requested - 1) \div BUDDY_ALLOC_ALIGN
  BY DEF RangeOf
<1>2. PICK a \in Nat : a = BUDDY_ALLOC_ALIGN /\ a >= 1 BY AlignIs
<1>3. requested - 1 \in Nat BY <1>1
<1>4. a * k <= requested - 1 BY <1>1, <1>2, <1>3, Quotient
<1>5. a * (i + k) = a * i + a * k /\ a * i \in Nat /\ a * k \in Nat /\ a * n \in Nat BY <1>1, SMT
<1>6. a * (i + k) < a * n BY <1>1, <1>2, <1>4, <1>5
<1> QED BY <1>1, <1>6, TimesStrict

\* Slots that share no byte with a block share no slot with a marked position.
LEMMA RangeFree ==
    ASSUME NEW o, NEW n, HeapOK(o, n, tree), blocks = BlocksOf(o, n, tree), NEW s \in Nat, s < n,
           \A b \in blocks : Bytes(Slot(BUDDY_ALLOC_ALIGN * s)) \cap Bytes(b) = {}
    PROVE  /\ \A p \in Marked(tree) : ~OnePath(p, Deepest(o, s))
           /\ Slot(BUDDY_ALLOC_ALIGN * s) \notin blocks
<1>1. /\ o \in 1 .. MaxOrder /\ n \in Nat /\ n <= pow2[o - 1] /\ pow2[o - 1] \in Nat /\ tree.order = o BY HeapIs
<1>2. PICK a \in Nat : a = BUDDY_ALLOC_ALIGN /\ a >= 1 BY AlignIs
<1>3. s < pow2[o - 1] BY <1>1
<1>4. PICK x \in Nat : x = a * s OBVIOUS
<1>5. x \in Bytes(Slot(a * s)) BY <1>2, <1>4 DEF Bytes, Slot
<1>6. ASSUME NEW p \in Marked(tree) PROVE ~OnePath(p, Deepest(o, s))
  <2>1. PICK lo \in Nat, w \in Nat : lo = Lo(o, p) /\ w = Width(o, p) /\ p \in Positions(o) BY HeapIs
  <2>2. ~(lo <= s /\ s < lo + w)
    <3> SUFFICES ASSUME lo <= s, s < lo + w PROVE FALSE OBVIOUS
    <3>1. p \in Live(n, tree)
      <4>1. lo < n BY <1>1
      <4> QED BY <1>1, <2>1, <4>1 DEF Live
    <3>2. BlockAt(o, p) \in blocks BY <3>1 DEF BlocksOf
    <3>3. a * lo <= a * s BY TimesMonotone
    <3>4. a * (s + 1) <= a * (lo + w) BY TimesMonotone
    <3>5. a * (s + 1) = a * s + a /\ a * (lo + w) = a * lo + a * w /\ a * lo \in Nat /\ a * w \in Nat BY SMT
    <3>6. x \in Bytes(BlockAt(o, p))
      <4>1. a * lo <= x /\ x <= a * lo + a * w - 1 BY <1>2, <1>4, <3>3, <3>4, <3>5
      <4>2. Bytes(BlockAt(o, p)) = a * lo .. a * lo + a * w - 1 BY <1>2, <2>1 DEF Bytes, BlockAt
      <4> QED BY <3>5, <4>1, <4>2
    <3> QED BY <1>2, <1>5, <3>2, <3>6
  <2> QED BY <1>1, <1>3, <2>1, <2>2, SlotsApart
<1>7. Slot(a * s) \notin blocks BY <1>2, <1>5
<1> QED BY <1>2, <1>6, <1>7

\* Each block is a free spot among the others.
LEMMA LiveSpot ==
    ASSUME NEW o, NEW n, NEW t, Arena(memory_size, o, n), HeapOK(o, n, t), NEW p \in Live(n, t)
    PROVE  Heap!FreeSpot(BlockAt(o, p), BlocksOf(o, n, t) \ {BlockAt(o, p)})
<1>1. /\ o \in 1 .. MaxOrder /\ p \in Marked(t) /\ p \in Positions(o) /\ Lo(o, p) + Width(o, p) <= n
  BY HeapIs, LiveInside
<1>2. BlockAt(o, p).addr >= 0 /\ BlockAt(o, p).addr + BlockAt(o, p).size <= memory_size BY <1>1, BlockIs
<1>3. ASSUME NEW d \in BlocksOf(o, n, t) \ {BlockAt(o, p)} PROVE Heap!Disjoint(BlockAt(o, p), d)
  <2>1. PICK q \in Live(n, t) : d = BlockAt(o, q) BY DEF BlocksOf
  <2>2. p # q BY <2>1
  <2>3. q \in Marked(t) /\ q \in Positions(o) BY LiveInside
  <2>4. Apart(o, p, q) BY <1>1, <2>2, <2>3, MarkedSlots
  <2> QED BY <1>1, <2>1, <2>3, <2>4, ApartBlocks
<1> QED BY <1>2, <1>3 DEF Heap!FreeSpot

\* Where k + 1 slots lie, in bytes.
LEMMA SlotsBetween ==
    ASSUME NEW a \in Nat, a >= 1, NEW i \in Nat, NEW k \in Nat, NEW lo \in Nat, NEW w \in Nat, w >= 1
    PROVE  a * i <= a * lo /\ a * lo + a * w <= a * i + a * (k + 1) <=> i <= lo /\ lo + w <= i + k + 1
<1>1. a * (lo + w) = a * lo + a * w /\ a * (i + (k + 1)) = a * i + a * (k + 1) BY SMT
<1>2. a * i <= a * lo <=> i <= lo
  <2>1. i <= lo => a * i <= a * lo BY TimesMonotone
  <2>2. a * lo < a * i => lo < i BY TimesStrict
  <2>3. lo + 1 <= i => a * (lo + 1) <= a * i BY TimesMonotone
  <2>4. a * (lo + 1) = a * lo + a /\ a * lo \in Nat /\ a * i \in Nat BY TimesSuccessor
  <2> QED BY <2>1, <2>3, <2>4
<1>3. a * (lo + w) <= a * (i + (k + 1)) <=> lo + w <= i + (k + 1)
  <2>1. PICK x \in Nat, y \in Nat : x = lo + w /\ y = i + (k + 1) OBVIOUS
  <2>2. x <= y => a * x <= a * y BY TimesMonotone
  <2>3. y + 1 <= x => a * (y + 1) <= a * x BY TimesMonotone
  <2>4. a * (y + 1) = a * y + a /\ a * x \in Nat /\ a * y \in Nat BY TimesSuccessor
  <2> QED BY <2>1, <2>2, <2>3, <2>4
<1> QED BY <1>1, <1>2, <1>3

LEMMA ReserveStep ==
    ASSUME HeapInv, NEW i \in Nat, NEW requested \in Nat, requested >= 1,
           reserve_range(BUDDY_ALLOC_ALIGN * i, requested)
    PROVE  Kept
<1>1. PICK o, n : /\ Arena(memory_size, o, n) /\ HeapOK(o, n, tree) /\ blocks = BlocksOf(o, n, tree)
                  /\ left_bias \in BOOLEAN
  BY DEF HeapInv
<1>2. PICK a \in Nat : a = BUDDY_ALLOC_ALIGN /\ a >= 1 BY AlignIs
<1>3. PICK k : RangeOf(i, requested, k)
  <2>1. requested - 1 \in Nat OBVIOUS
  <2>2. (requested - 1) \div a \in Nat BY <1>2, <2>1, Quotient
  <2> QED BY <1>2, <2>2 DEF RangeOf
<1>4. k \in Nat BY <1>3 DEF RangeOf
<1>5. n \in Nat /\ memory_size = a * n BY <1>1, <1>2 DEF Arena
<1>6. /\ o \in 1 .. MaxOrder /\ n <= pow2[o - 1] /\ pow2[o - 1] \in Nat BY <1>1, HeapIs
<1>7. /\ a * i + requested <= memory_size
      /\ \A x \in RangeSlots(a * i, requested), b \in blocks : Bytes(Slot(x)) \cap Bytes(b) = {}
      /\ tree' = toggle_range_reservation(a * i, requested, TRUE)
      /\ blocks' = blocks \cup {Slot(x) : x \in RangeSlots(a * i, requested)}
      /\ answer' = Null /\ memory_size' = memory_size /\ left_bias' = left_bias
  BY <1>2 DEF reserve_range
<1>8. i + k < n BY <1>2, <1>3, <1>5, <1>7, RangeInside
<1>9. i + k < pow2[o - 1] BY <1>4, <1>5, <1>6, <1>8
<1>10. RangeSlots(a * i, requested) = {a * s : s \in i .. i + k} BY <1>2, <1>3, RangeSlotsAre
<1>11. ASSUME NEW s \in i .. i + k
       PROVE  /\ s \in Nat /\ s < n /\ s < pow2[o - 1]
              /\ \A p \in Marked(tree) : ~OnePath(p, Deepest(o, s))
              /\ Slot(a * s) \notin blocks
  <2>1. s \in Nat /\ s < n /\ s < pow2[o - 1] BY <1>4, <1>5, <1>6, <1>8, <1>9
  <2>2. \A b \in blocks : Bytes(Slot(a * s)) \cap Bytes(b) = {} BY <1>7, <1>10
  <2> QED BY <1>1, <1>2, <2>1, <2>2, RangeFree
<1>12. tree' = Toggled(tree, Row(o, i, k), TRUE)
  <2>1. PICK state : state = TRUE OBVIOUS
  <2>2. toggle_range_reservation(BUDDY_ALLOC_ALIGN * i, requested, state) = Toggled(tree, Row(o, i, k), state)
    BY <1>1, <1>3, RangeToggles
  <2> QED BY <1>2, <1>7, <2>1, <2>2, Zenon
<1>13. {Slot(x) : x \in RangeSlots(a * i, requested)} = RowBlocks(o, i, k)
  BY <1>2, <1>3, <1>6, <1>9, SlotBlocksAre
<1>14. PICK t : t = tree' OBVIOUS
<1>15. /\ HeapOK(o, n, t) /\ BlocksOf(o, n, t) = BlocksOf(o, n, tree) \cup RowBlocks(o, i, k)
       /\ \A s \in i .. i + k : Deepest(o, s) \in Live(n, t)
  <2>1. HeapOK(o, n, tree) /\ \A s \in i .. i + k : \A p \in Marked(tree) : ~OnePath(p, Deepest(o, s)) BY <1>1, <1>11
  <2>2. RowMarked(o, n, tree, i, k, Toggled(tree, Row(o, i, k), TRUE)) BY <1>4, <1>8, <2>1, MarkRow
  <2>3. RowMarked(o, n, tree, i, k, t) BY <1>12, <1>14, <2>2, Zenon
  <2> QED BY <2>3 DEF RowMarked
<1>16. blocks' = BlocksOf(o, n, t) BY <1>1, <1>7, <1>13, <1>15
<1>17. HeapInv'
  <2>1. HeapOK(o, n, tree') /\ blocks' = BlocksOf(o, n, tree') BY <1>14, <1>15, <1>16
  <2> QED BY <1>1, <1>7, <2>1, HeapNext
<1>18. ASSUME NEW s \in i .. i + k
       PROVE  /\ BlockAt(o, Deepest(o, s)) = Slot(a * s)
              /\ Heap!FreeSpot(Slot(a * s), blocks' \ {Slot(a * s)})
              /\ Heap!Between(Slot(a * s), a * i, a * (k + 1))
              /\ Slot(a * s) \in blocks' /\ Slot(a * s) \notin blocks
  <2>1. s \in Nat /\ s < n /\ s < pow2[o - 1] /\ Slot(a * s) \notin blocks BY <1>11
  <2>2. BlockAt(o, Deepest(o, s)) = Slot(a * s) BY <1>2, <1>6, <2>1, SlotIs
  <2>3. Heap!FreeSpot(BlockAt(o, Deepest(o, s)), BlocksOf(o, n, t) \ {BlockAt(o, Deepest(o, s))})
    BY <1>1, <1>15, LiveSpot
  <2>4. i <= s /\ s + 1 <= i + k + 1 /\ 1 \in Nat /\ 1 >= 1 BY <1>4
  <2>5. a * i <= a * s /\ a * s + a * 1 <= a * i + a * (k + 1) BY <1>2, <1>4, <2>1, <2>4, SlotsBetween
  <2>6. a * 1 = a OBVIOUS
  <2>7. Heap!Between(Slot(a * s), a * i, a * (k + 1)) BY <1>2, <2>5, <2>6 DEF Heap!Between, Slot
  <2>8. Slot(a * s) \in blocks' BY <1>7, <1>10
  <2> QED BY <1>16, <2>1, <2>2, <2>3, <2>7, <2>8
<1>19. ASSUME NEW x \in a * i .. a * i + a * (k + 1) - 1
       PROVE  \E s \in i .. i + k : Slot(a * s).addr <= x /\ x < Slot(a * s).addr + Slot(a * s).size
  <2>1. a * i \in Nat /\ a * (k + 1) \in Nat /\ x \in Nat /\ a * i + a * (k + 1) = a * (i + (k + 1))
    <3>1. a * i \in Nat /\ a * (k + 1) \in Nat BY <1>4
    <3>2. x \in Nat BY <3>1
    <3>3. a * i + a * (k + 1) = a * (i + (k + 1)) BY <1>4, SMT
    <3> QED BY <3>1, <3>2, <3>3
  <2>2. PICK s \in Nat : s = x \div a /\ a * s <= x /\ x + 1 <= a * (s + 1) BY <1>2, <2>1, Quotient
  <2>3. a * (s + 1) = a * s + a /\ a * s \in Nat BY TimesSuccessor
  <2>4. i <= s
    <3>1. a * i < a * (s + 1) BY <2>1, <2>2, <2>3
    <3>2. i < s + 1 BY <3>1, TimesStrict
    <3> QED BY <3>2
  <2>5. s <= i + k
    <3>1. a * s < a * (i + (k + 1)) BY <2>1, <2>2, <2>3
    <3>2. s < i + (k + 1) BY <1>4, <3>1, TimesStrict
    <3> QED BY <1>4, <3>2
  <2>6. s \in i .. i + k BY <1>4, <2>4, <2>5
  <2>7. Slot(a * s).addr = a * s /\ Slot(a * s).size = a BY <1>2 DEF Slot
  <2>8. a * s <= x /\ x < a * s + a BY <2>1, <2>2, <2>3
  <2> QED BY <2>6, <2>7, <2>8
<1>20. a * i \in 0 .. memory_size /\ a * (k + 1) \in 1 .. memory_size
  <2>1. i + (k + 1) <= n BY <1>4, <1>5, <1>8
  <2>2. a * (i + (k + 1)) <= a * n /\ a * 1 <= a * (k + 1) BY <1>4, <1>5, <2>1, TimesMonotone
  <2>3. a * i + a * (k + 1) = a * (i + (k + 1)) BY <1>4, SMT
  <2>4. a * i \in Nat /\ a * (k + 1) \in Nat /\ a * n \in Nat BY <1>4, <1>5
  <2> QED BY <1>2, <1>5, <2>2, <2>3, <2>4
<1>21. Heap!Reserve
  <2> DEFINE added == {b \in blocks' : b \notin blocks}
  <2>1. ASSUME NEW b \in added PROVE \E s \in i .. i + k : b = Slot(a * s) BY <1>7, <1>10
  <2>2. \A b \in added : Heap!FreeSpot(b, blocks' \ {b}) /\ Heap!Between(b, a * i, a * (k + 1)) BY <1>18, <2>1
  <2>3. \A x \in a * i .. a * i + a * (k + 1) - 1 : \E b \in added : b.addr <= x /\ x < b.addr + b.size
    BY <1>18, <1>19
  <2>4. blocks \subseteq blocks' BY <1>7
  <2> HIDE DEF added
  <2>5. PICK y, z : y = a * i /\ z = a * (k + 1) OBVIOUS
  <2>6. /\ y \in 0 .. memory_size /\ z \in 1 .. memory_size
        /\ \A b \in added : Heap!FreeSpot(b, blocks' \ {b}) /\ Heap!Between(b, y, z)
        /\ \A x \in y .. y + z - 1 : \E b \in added : b.addr <= x /\ x < b.addr + b.size
    BY <1>20, <2>2, <2>3, <2>5
  <2> QED BY <1>7, <2>4, <2>6 DEF Heap!Reserve, added
<1> QED BY <1>17, <1>21 DEF Kept, Heap!Next

LEMMA ReleaseStep ==
    ASSUME HeapInv, NEW i \in Nat, NEW requested \in Nat, requested >= 1,
           unsafe_release_range(BUDDY_ALLOC_ALIGN * i, requested)
    PROVE  Kept
<1>1. PICK o, n : /\ Arena(memory_size, o, n) /\ HeapOK(o, n, tree) /\ blocks = BlocksOf(o, n, tree)
                  /\ left_bias \in BOOLEAN
  BY DEF HeapInv
<1>2. PICK a \in Nat : a = BUDDY_ALLOC_ALIGN /\ a >= 1 BY AlignIs
<1>3. PICK k : RangeOf(i, requested, k)
  <2>1. requested - 1 \in Nat OBVIOUS
  <2>2. (requested - 1) \div a \in Nat BY <1>2, <2>1, Quotient
  <2> QED BY <1>2, <2>2 DEF RangeOf
<1>4. k \in Nat BY <1>3 DEF RangeOf
<1>5. n \in Nat /\ memory_size = a * n BY <1>1, <1>2 DEF Arena
<1>6. /\ o \in 1 .. MaxOrder /\ n <= pow2[o - 1] /\ pow2[o - 1] \in Nat BY <1>1, HeapIs
<1>7. /\ {Slot(x) : x \in RangeSlots(a * i, requested)} \subseteq blocks
      /\ tree' = toggle_range_reservation(a * i, requested, FALSE)
      /\ blocks' = blocks \ {Slot(x) : x \in RangeSlots(a * i, requested)}
      /\ answer' = Null /\ memory_size' = memory_size /\ left_bias' = left_bias
  BY <1>2 DEF unsafe_release_range
<1>8. RangeSlots(a * i, requested) = {a * s : s \in i .. i + k} BY <1>2, <1>3, RangeSlotsAre
<1>9. ASSUME NEW s \in i .. i + k
      PROVE  s \in Nat /\ \E p \in Live(n, tree) : Lo(o, p) = s /\ BlockAt(o, p) = Slot(a * s)
  <2>1. s \in Nat BY <1>4
  <2>2. PICK p \in Live(n, tree) : BlockAt(o, p) = Slot(a * s)
    <3>1. Slot(a * s) \in blocks BY <1>7, <1>8
    <3> QED BY <1>1, <3>1 DEF BlocksOf
  <2>3. PICK lo \in Nat : lo = Lo(o, p) BY <1>1, LiveInside
  <2>4. a * lo = a * s BY <1>2, <2>2, <2>3 DEF BlockAt, Slot
  <2>5. (a * lo) \div a = lo /\ (a * s) \div a = s BY <1>2, <2>1, ExactQuotient
  <2> QED BY <2>1, <2>2, <2>3, <2>4, <2>5
<1>10. i + k < n
  <2>1. i + k \in i .. i + k BY <1>4
  <2>2. PICK p \in Live(n, tree) : Lo(o, p) = i + k BY <1>9, <2>1
  <2>3. Lo(o, p) < n BY <1>1, LiveInside
  <2> QED BY <2>2, <2>3
<1>11. i + k < pow2[o - 1] BY <1>4, <1>5, <1>6, <1>10
<1>12. ASSUME NEW s \in i .. i + k PROVE Deepest(o, s) \in Live(n, tree)
  <2>1. PICK p \in Live(n, tree) : Lo(o, p) = s /\ BlockAt(o, p) = Slot(a * s) BY <1>9
  <2>2. s \in Nat /\ s < pow2[o - 1] BY <1>4, <1>6, <1>11
  <2>3. Deepest(o, s) \in Positions(o) /\ Lo(o, Deepest(o, s)) = s /\ Width(o, Deepest(o, s)) = 1 BY <1>6, <2>2, SlotIs
  <2>4. Width(o, p) = 1
    <3>1. PICK w \in Nat : w = Width(o, p) BY <1>1, LiveInside
    <3>2. a * w = a * 1 BY <1>2, <2>1, <3>1 DEF BlockAt, Slot
    <3>3. (a * w) \div a = w /\ (a * 1) \div a = 1 BY <1>2, ExactQuotient
    <3> QED BY <3>1, <3>2, <3>3
  <2>5. p \in Positions(o) BY <1>1, LiveInside
  <2>6. pow2[o - 1] + s = p /\ Deepest(o, s) = p
    <3>1. pow2[o - 1] + Lo(o, p) = Width(o, p) * p /\ p \in Nat BY <1>6, <2>5, SlotsOf
    <3> QED BY <1>6, <2>1, <2>4, <3>1 DEF Deepest
  <2> QED BY <2>6
<1>13. tree' = Toggled(tree, Row(o, i, k), FALSE)
  <2>1. PICK state : state = FALSE OBVIOUS
  <2>2. toggle_range_reservation(BUDDY_ALLOC_ALIGN * i, requested, state) = Toggled(tree, Row(o, i, k), state)
    BY <1>1, <1>3, RangeToggles
  <2> QED BY <1>2, <1>7, <2>1, <2>2, Zenon
<1>14. {Slot(x) : x \in RangeSlots(a * i, requested)} = RowBlocks(o, i, k)
  BY <1>2, <1>3, <1>6, <1>11, SlotBlocksAre
<1>15. PICK t : t = tree' OBVIOUS
<1>16. HeapOK(o, n, t) /\ BlocksOf(o, n, t) = BlocksOf(o, n, tree) \ RowBlocks(o, i, k)
  <2>1. HeapOK(o, n, tree) /\ \A s \in i .. i + k : Deepest(o, s) \in Live(n, tree) BY <1>1, <1>12
  <2>2. RowReleased(o, n, tree, i, k, Toggled(tree, Row(o, i, k), FALSE)) BY <1>4, <1>10, <2>1, DropRow
  <2>3. RowReleased(o, n, tree, i, k, t) BY <1>13, <1>15, <2>2, Zenon
  <2> QED BY <2>3 DEF RowReleased
<1>17. blocks' = BlocksOf(o, n, t) BY <1>1, <1>7, <1>14, <1>16
<1>18. HeapInv'
  <2>1. HeapOK(o, n, tree') /\ blocks' = BlocksOf(o, n, tree') BY <1>15, <1>16, <1>17
  <2> QED BY <1>1, <1>7, <2>1, HeapNext
<1>19. a * i \in 0 .. memory_size /\ a * (k + 1) \in 1 .. memory_size
  <2>1. i + (k + 1) <= n BY <1>4, <1>5, <1>10
  <2>2. a * (i + (k + 1)) <= a * n /\ a * 1 <= a * (k + 1) BY <1>4, <1>5, <2>1, TimesMonotone
  <2>3. a * i + a * (k + 1) = a * (i + (k + 1)) BY <1>4, SMT
  <2>4. a * i \in Nat /\ a * (k + 1) \in Nat /\ a * n \in Nat BY <1>4, <1>5
  <2> QED BY <1>2, <1>5, <2>2, <2>3, <2>4
\* What lies in the range is one of its slots: two blocks with one address are one.
<1>20. ASSUME NEW b \in blocks
       PROVE  Heap!Between(b, a * i, a * (k + 1)) <=> \E s \in i .. i + k : b = Slot(a * s)
  <2>1. PICK p \in Live(n, tree) : b = BlockAt(o, p) BY <1>1 DEF BlocksOf
  <2>2. PICK lo \in Nat, w \in Nat : lo = Lo(o, p) /\ w = Width(o, p) /\ w >= 1 BY <1>1, LiveInside
  <2>3. b.addr = a * lo /\ b.size = a * w BY <1>2, <2>1, <2>2 DEF BlockAt
  <2>4. Heap!Between(b, a * i, a * (k + 1)) <=> i <= lo /\ lo + w <= i + k + 1
    <3>1. a * i <= a * lo /\ a * lo + a * w <= a * i + a * (k + 1) <=> i <= lo /\ lo + w <= i + k + 1
      BY <1>2, <1>4, <2>2, SlotsBetween
    <3> QED BY <2>3, <3>1 DEF Heap!Between
  <2>5. ASSUME Heap!Between(b, a * i, a * (k + 1)) PROVE \E s \in i .. i + k : b = Slot(a * s)
    <3>1. lo \in i .. i + k
      <4>1. i <= lo /\ lo + w <= i + k + 1 BY <2>4, <2>5
      <4> QED BY <1>4, <2>2, <4>1
    <3>2. PICK q \in Live(n, tree) : Lo(o, q) = lo /\ BlockAt(o, q) = Slot(a * lo) BY <1>9, <3>1
    <3>3. BUDDY_ALLOC_ALIGN * Lo(o, p) = BUDDY_ALLOC_ALIGN * Lo(o, q) BY <2>2, <3>2
    <3>4. p = q BY <1>1, <3>3, AddressTells
    <3> QED BY <2>1, <3>1, <3>2, <3>4
  <2>6. ASSUME NEW s \in i .. i + k, b = Slot(a * s) PROVE Heap!Between(b, a * i, a * (k + 1))
    <3>1. s \in Nat /\ a * lo = a * s /\ a * w = a * 1 BY <1>2, <1>4, <2>3, <2>6 DEF Slot
    <3>2. (a * lo) \div a = lo /\ (a * s) \div a = s /\ (a * w) \div a = w /\ (a * 1) \div a = 1
      BY <1>2, <3>1, ExactQuotient
    <3>3. lo = s /\ w = 1 BY <3>1, <3>2
    <3> QED BY <1>4, <2>4, <3>3
  <2> QED BY <2>5, <2>6
<1>21. Heap!Release
  <2>1. blocks' = {b \in blocks : ~Heap!Between(b, a * i, a * (k + 1))} BY <1>7, <1>8, <1>20
  <2> QED BY <1>7, <1>19, <2>1 DEF Heap!Release
<1> QED BY <1>18, <1>21 DEF Kept, Heap!Next

LEMMA CallsKeep ==
    ASSUME HeapInv, [Calls]_buddyVars
    PROVE  Kept
<1>1. memory_size \in Nat
  <2>1. PICK o, n : Arena(memory_size, o, n) BY DEF HeapInv
  <2>2. n \in Nat /\ memory_size = BUDDY_ALLOC_ALIGN * n BY <2>1 DEF Arena
  <2> QED BY <2>2, AlignIs
<1>2. \A r \in Requests : r \in Nat BY <1>1 DEF Requests
<1>3. ASSUME NEW r \in Requests, malloc(r) PROVE Kept BY <1>2, <1>3, MallocStep
<1>4. ASSUME NEW m \in Counts, NEW k \in Counts, calloc(m, k) PROVE Kept BY <1>4, CallocStep, CountsAre
<1>5. ASSUME NEW b \in blocks, free(b) PROVE Kept BY <1>5, FreeStep
<1>6. ASSUME NEW b \in blocks, NEW r \in Requests, safe_free(b, r) PROVE Kept
  <2>1. Refused \/ free(b) BY <1>6 DEF safe_free
  <2> QED BY <1>5, <2>1, RefusedStep
<1>7. ASSUME NEW b \in blocks, NEW r \in Requests, realloc(b, r) PROVE Kept BY <1>2, <1>7, ReallocStep
<1>8. ASSUME NEW b \in blocks, NEW m \in Counts, NEW k \in Counts, reallocarray(b, m, k) PROVE Kept
  BY <1>8, ReallocarrayStep, CountsAre
<1>9. CASE set_left_bias \/ set_optimal_fit BY <1>9, BiasStep
<1>10. ASSUME NEW n \in 1 .. MaxSlots, NEW r \in Requests \ {0},
              \/ reserve_range((n - 1) * BUDDY_ALLOC_ALIGN, r)
              \/ unsafe_release_range((n - 1) * BUDDY_ALLOC_ALIGN, r)
       PROVE  Kept
  <2>1. PICK i \in Nat : i = n - 1 BY WidthAssumption
  <2>2. (n - 1) * BUDDY_ALLOC_ALIGN = BUDDY_ALLOC_ALIGN * i BY <2>1, AlignIs
  <2>3. r \in Nat /\ r >= 1 BY <1>2
  <2>4. reserve_range(BUDDY_ALLOC_ALIGN * i, r) \/ unsafe_release_range(BUDDY_ALLOC_ALIGN * i, r) BY <1>10, <2>2
  <2> QED BY <2>3, <2>4, ReserveStep, ReleaseStep
<1>11. CASE UNCHANGED buddyVars
  <2>1. PICK o, n : /\ Arena(memory_size, o, n) /\ HeapOK(o, n, tree) /\ blocks = BlocksOf(o, n, tree)
                    /\ left_bias \in BOOLEAN /\ (answer = Null \/ \E b \in blocks : answer = b.addr)
    BY DEF HeapInv
  <2>2. /\ tree' = tree /\ blocks' = blocks /\ memory_size' = memory_size /\ left_bias' = left_bias /\ answer' = answer
    BY <1>11 DEF buddyVars
  <2>3. /\ HeapOK(o, n, tree') /\ blocks' = BlocksOf(o, n, tree') /\ left_bias' \in BOOLEAN
        /\ answer' = Null \/ \E b \in blocks' : answer' = b.addr
    BY <2>1, <2>2
  <2>4. HeapInv' BY <2>1, <2>2, <2>3, HeapNext
  <2> QED BY <2>2, <2>4 DEF Kept, Heap!heapVars
<1> QED BY <1>3, <1>4, <1>5, <1>6, <1>7, <1>8, <1>9, <1>10, <1>11 DEF Calls

-----------------------------------------------------------------------------
(* A new arena *)

LEMMA EmptyTree ==
    ASSUME NEW o \in 1 .. MaxOrder
    PROVE  tree_init(o) \in TreesOf(o) /\ Sound(tree_init(o)) /\ Marked(tree_init(o)) = {}
<1>1. PICK t : t = tree_init(o) OBVIOUS
<1>2. t.order = o /\ t.bits = {} /\ t \in Trees BY <1>1 DEF tree_init, Trees
<1>3. t \in TreesOf(o) BY <1>2 DEF TreesOf
<1>4. \A p : tree_status(t, p) = 0 BY <1>2 DEF tree_status, read_from
<1>5. \A p : Settled(t, p)
  <2>1. TargetParent(0, 0) = 0 BY DEF TargetParent
  <2> QED BY <1>4, <2>1 DEF Settled
<1>6. Sound(t) BY <1>2, <1>5 DEF Sound
<1>7. ASSUME NEW p \in Positions(o) PROVE ~InUse(t, p)
  <2>1. local_offset(t, p) >= 1 /\ local_offset(t, p) \in Nat BY <1>2, StatusRange
  <2> QED BY <1>4, <2>1 DEF InUse
<1>8. Marked(t) = {} BY <1>2, <1>7 DEF Marked
<1> QED BY <1>1, <1>3, <1>6, <1>8

\* The virtual slots of an arena.
LEMMA WallIs ==
    ASSUME NEW m, NEW o, NEW n, Arena(m, o, n), NEW v, v = VirtualPositions(m)
    PROVE  /\ v \in Seq(Positions(o)) /\ Wall(n) = {v[i] : i \in 1 .. Len(v)}
           /\ \A i \in 1 .. Len(v) : v[i] \in Positions(o) /\ n <= Lo(o, v[i])
           /\ \A i, j \in 1 .. Len(v) : i < j => ~OnePath(v[i], v[j])
           /\ \A s \in Nat : n <= s /\ s < pow2[o - 1] =>
                \E x \in Wall(n) : Lo(o, x) <= s /\ s < Lo(o, x) + Width(o, x)
<1>1. o \in 1 .. MaxOrder /\ m = BUDDY_ALLOC_ALIGN * n BY DEF Arena
<1>2. Ending(o, v, n, pow2[o - 1]) BY VirtualPositionsAre
<1>3. Wall(n) = {v[i] : i \in 1 .. Len(v)} BY <1>1, Zenon DEF Wall
<1>4. /\ v \in Seq(Positions(o))
      /\ \A i \in 1 .. Len(v) : n <= Lo(o, v[i])
      /\ \A i, j \in 1 .. Len(v) : i < j => Lo(o, v[j]) + Width(o, v[j]) <= Lo(o, v[i])
      /\ \A s \in Nat : n <= s /\ s < pow2[o - 1] =>
           \E i \in 1 .. Len(v) : Lo(o, v[i]) <= s /\ s < Lo(o, v[i]) + Width(o, v[i])
  BY <1>2 DEF Ending
<1>5. \A i \in 1 .. Len(v) : v[i] \in Positions(o) BY <1>4
<1>6. ASSUME NEW i \in 1 .. Len(v), NEW j \in 1 .. Len(v), i < j PROVE ~OnePath(v[i], v[j])
  <2>1. Apart(o, v[i], v[j]) BY <1>4, <1>6 DEF Apart
  <2> QED BY <1>1, <1>5, <2>1, ApartIs
<1>7. \A s \in Nat : n <= s /\ s < pow2[o - 1] =>
         \E x \in Wall(n) : Lo(o, x) <= s /\ s < Lo(o, x) + Width(o, x)
  BY <1>3, <1>4
<1> QED BY <1>3, <1>4, <1>5, <1>6, <1>7

WithWall(m, e) == toggle_virtual_slots(e, m, TRUE)

\* Nothing is marked from slot n on.
Inside(o, n, e) == \A p \in Marked(e) : Lo(o, p) + Width(o, p) <= n

\* Marking the virtual slots around what is inside the arena makes it a heap, whose
\* blocks are what was marked before.
LEMMA WallUp ==
    ASSUME NEW m, NEW o, NEW n, NEW e, Arena(m, o, n), e \in TreesOf(o), Sound(e), Inside(o, n, e),
           NEW t, t = WithWall(m, e)
    PROVE  HeapOK(o, n, t) /\ Live(n, t) = Marked(e)
<1>1. o \in 1 .. MaxOrder /\ n \in Nat /\ n >= 1 /\ n <= pow2[o - 1] BY DEF Arena
<1>2. e.order = o /\ e \in Trees BY DEF TreesOf
<1>3. PICK v : v = VirtualPositions(m) OBVIOUS
<1>4. /\ v \in Seq(Positions(o)) /\ Wall(n) = {v[i] : i \in 1 .. Len(v)}
      /\ \A i \in 1 .. Len(v) : v[i] \in Positions(o) /\ n <= Lo(o, v[i])
      /\ \A i, j \in 1 .. Len(v) : i < j => ~OnePath(v[i], v[j])
      /\ \A s \in Nat : n <= s /\ s < pow2[o - 1] =>
           \E x \in Wall(n) : Lo(o, x) <= s /\ s < Lo(o, x) + Width(o, x)
  BY <1>3, WallIs
<1>5. ASSUME NEW p \in Marked(e)
      PROVE  p \in Positions(o) /\ Lo(o, p) \in Nat /\ Width(o, p) \in Nat /\ Width(o, p) >= 1 /\ Lo(o, p) < n
  <2>1. p \in Positions(o) BY <1>2 DEF Marked
  <2>2. Lo(o, p) \in Nat /\ Width(o, p) \in Nat /\ Width(o, p) >= 1 BY <1>1, <2>1, SlotsOf
  <2>3. Lo(o, p) + Width(o, p) <= n BY DEF Inside
  <2> QED BY <1>1, <2>1, <2>2, <2>3
<1>6. Spread(e, v)
  <2>1. ASSUME NEW i \in 1 .. Len(v), NEW p \in Marked(e) PROVE ~OnePath(p, v[i])
    <3>1. PICK x \in Nat : x = Lo(o, v[i]) BY <1>1, <1>4, SlotsOf
    <3>2. Lo(o, p) + Width(o, p) <= Lo(o, v[i]) BY <1>1, <1>4, <1>5, <3>1 DEF Inside
    <3>3. Apart(o, p, v[i]) BY <3>2 DEF Apart
    <3> QED BY <1>1, <1>4, <1>5, <3>3, ApartIs
  <2> QED BY <1>4, <2>1 DEF Spread
<1>7. AllMarked(o, e, v, t)
  <2>1. AllMarked(o, e, v, Toggled(e, v, TRUE)) BY <1>1, <1>4, <1>6, MarkAll
  <2> QED BY <1>3, <2>1, Zenon DEF toggle_virtual_slots, WithWall
<1>8. t \in TreesOf(o) /\ Sound(t) /\ Marked(t) = Marked(e) \cup Wall(n) BY <1>4, <1>7 DEF AllMarked
<1>9. t.order = o BY <1>8 DEF TreesOf
<1>10. \A x \in Wall(n) : x \in Positions(o) /\ n <= Lo(o, x) BY <1>4
<1>11. Padded(n, t) BY <1>4, <1>8, <1>9, <1>10 DEF Padded
<1>12. Walled(n, t) BY <1>8, <1>9, <1>10 DEF Walled
<1>13. HeapOK(o, n, t) BY <1>1, <1>8, <1>11, <1>12 DEF HeapOK
<1>14. Live(n, t) = Marked(e)
  <2>1. \A x \in Wall(n) : Lo(o, x) \in Nat BY <1>1, <1>10, SlotsOf
  <2>2. \A x \in Wall(n) : ~(Lo(o, x) < n) BY <1>1, <1>10, <2>1
  <2> QED BY <1>5, <1>8, <1>9, <2>2 DEF Live
<1> QED BY <1>13, <1>14

\* buddy_init and its virtual slots: no blocks, and everything beyond the arena marked.
LEMMA NewArena ==
    ASSUME NEW m, NEW o, NEW n, Arena(m, o, n), NEW t, t = WithWall(m, tree_init(o))
    PROVE  HeapOK(o, n, t) /\ BlocksOf(o, n, t) = {}
<1>1. o \in 1 .. MaxOrder BY DEF Arena
<1>2. PICK e : e = tree_init(o) OBVIOUS
<1>3. e \in TreesOf(o) /\ Sound(e) /\ Marked(e) = {} BY <1>1, <1>2, EmptyTree
<1>4. t = WithWall(m, e) BY <1>2, Zenon
<1>5. HeapOK(o, n, t) /\ Live(n, t) = {}
  <2>1. Inside(o, n, e) BY <1>3 DEF Inside
  <2>2. HeapOK(o, n, t) /\ Live(n, t) = Marked(e) BY <1>3, <1>4, <2>1, WallUp
  <2> QED BY <1>3, <2>2
<1> QED BY <1>5 DEF BlocksOf

LEMMA HeapStarts ==
    ASSUME Init
    PROVE  HeapInv /\ Heap!Init
<1>1. PICK k \in InitSlots : /\ memory_size = TrimDown(k * BUDDY_ALLOC_ALIGN + 1)
                             /\ tree = toggle_virtual_slots(tree_init(tree_order_for_memory(memory_size)), memory_size, TRUE)
  <2>1. PICK m \in {k * BUDDY_ALLOC_ALIGN + 1 : k \in InitSlots} :
          /\ memory_size = TrimDown(m)
          /\ tree = toggle_virtual_slots(tree_init(tree_order_for_memory(TrimDown(m))), TrimDown(m), TRUE)
    BY Zenon DEF Init
  <2>2. PICK k \in InitSlots : m = k * BUDDY_ALLOC_ALIGN + 1 OBVIOUS
  <2>3. tree = toggle_virtual_slots(tree_init(tree_order_for_memory(memory_size)), memory_size, TRUE) BY <2>1, Zenon
  <2> QED BY <2>1, <2>2, <2>3, Zenon
<1>2. left_bias = FALSE /\ blocks = {} /\ answer = Null BY DEF Init
<1>3. WholeSlots(memory_size)
  <2>1. k \in 1 .. MaxSlots BY SlotsAssumption
  <2> QED BY <1>1, <2>1, TrimmedSlots, Zenon
<1>4. PICK o, n : Arena(memory_size, o, n) BY <1>3, ArenaIs
<1>5. o = tree_order_for_memory(memory_size) /\ n \in Nat /\ memory_size = BUDDY_ALLOC_ALIGN * n BY <1>4 DEF Arena
<1>6. tree = WithWall(memory_size, tree_init(o)) BY <1>1, <1>5, Zenon DEF WithWall
<1>7. HeapOK(o, n, tree) /\ BlocksOf(o, n, tree) = {} BY <1>4, <1>6, NewArena, Zenon
<1>8. HeapInv BY <1>2, <1>4, <1>7 DEF HeapInv
<1>9. Heap!Init BY <1>2, <1>5, AlignIs DEF Heap!Init
<1> QED BY <1>8, <1>9

LEMMA HeapAlways == FixedSpec => []HeapInv
<1>1. Init => HeapInv BY HeapStarts
<1>2. HeapInv /\ [Calls]_buddyVars => HeapInv' BY CallsKeep DEF Kept
<1> QED BY <1>1, <1>2, PTL DEF FixedSpec

-----------------------------------------------------------------------------
(* What holds of an arena that is not resized *)

\* The tree implements a set of disjoint blocks, for arenas of any size: whatever is
\* allocated, freed, moved, reserved and released, no two blocks overlap, none
\* reaches into the virtual slots, and free, safe_free and realloc find the block of
\* the pointer they are given (buddy_malloc, buddy_free, buddy_realloc and the rest).
THEOREM FixedArenaImplementsHeap == FixedSpec => ImplementsHeap
<1>1. Init => Heap!Init BY HeapStarts
<1>2. HeapInv /\ [Calls]_buddyVars => [Heap!Next]_(Heap!heapVars) BY CallsKeep DEF Kept
<1> QED BY <1>1, <1>2, HeapAlways, PTL DEF FixedSpec, ImplementsHeap, Heap!Spec

LEMMA TypeFrom == HeapInv => BuddyTypeOK
<1> SUFFICES ASSUME HeapInv PROVE BuddyTypeOK OBVIOUS
<1>1. PICK o, n : /\ Arena(memory_size, o, n) /\ HeapOK(o, n, tree) /\ blocks = BlocksOf(o, n, tree)
                  /\ left_bias \in BOOLEAN /\ (answer = Null \/ \E b \in blocks : answer = b.addr)
  BY DEF HeapInv
<1>2. n \in Nat /\ n >= 1 /\ n <= MaxSlots /\ memory_size = BUDDY_ALLOC_ALIGN * n /\ o = tree_order_for_memory(memory_size)
  BY <1>1 DEF Arena
<1>3. memory_size \in {k * BUDDY_ALLOC_ALIGN : k \in 1 .. MaxSlots}
  <2>1. n \in 1 .. MaxSlots /\ memory_size = n * BUDDY_ALLOC_ALIGN BY <1>2, AlignIs, WidthAssumption
  <2> QED BY <2>1
<1>4. tree.order = tree_order_for_memory(memory_size) /\ tree.bits \subseteq 0 .. SizeForOrder[tree.order][0] - 1
  <2>1. tree \in TreesOf(o) /\ tree.order = o BY <1>1, HeapIs
  <2>2. tree.bits \subseteq 0 .. SizeForOrder[o][0] - 1 BY <2>1 DEF TreesOf
  <2> QED BY <1>2, <2>1, <2>2
<1>5. ASSUME NEW b \in blocks
      PROVE  b \in [addr : 0 .. memory_size - 1, size : 1 .. memory_size] /\ b.addr \in 0 .. memory_size - 1
  <2>1. PICK p \in Live(n, tree) : b = BlockAt(o, p) BY <1>1 DEF BlocksOf
  <2>2. p \in Positions(o) /\ Lo(o, p) + Width(o, p) <= n BY <1>1, LiveInside
  <2>3. /\ memory_size \in Nat /\ b.addr \in Nat /\ b.size \in Nat /\ b.size >= 1 /\ b.addr + b.size <= memory_size
    BY <1>1, <2>1, <2>2, BlockIs
  <2>4. b.addr \in 0 .. memory_size - 1 /\ b.size \in 1 .. memory_size BY <2>3
  <2>5. b = [addr |-> b.addr, size |-> b.size] BY <2>1 DEF BlockAt
  <2> QED BY <2>4, <2>5
<1> QED BY <1>1, <1>3, <1>4, <1>5 DEF BuddyTypeOK

\* The bits of the tree stay in front of the table that populate_size_for_order keeps
\* behind them, for arenas of any size, and every block and every answer lies inside
\* the arena.
THEOREM FixedArenaTyped == FixedSpec => []BuddyTypeOK
BY HeapAlways, TypeFrom, PTL

-----------------------------------------------------------------------------
(* Bytes and slots *)

LEMMA ByteSlot ==
    ASSUME NEW a \in Nat, a >= 1, NEW x \in Nat, NEW s \in Nat, s = x \div a, NEW y \in Nat
    PROVE  a * y <= x <=> y <= s
<1>1. a * s <= x /\ x + 1 <= a * (s + 1) BY Quotient
<1>2. y <= s => a * y <= a * s BY TimesMonotone
<1>3. s + 1 <= y => a * (s + 1) <= a * y BY TimesMonotone
<1>4. a * s \in Nat /\ a * y \in Nat /\ a * (s + 1) \in Nat OBVIOUS
<1> QED BY <1>1, <1>2, <1>3, <1>4

\* The bytes of a block are those of its slots.
LEMMA BytesAre ==
    ASSUME NEW o \in 1 .. MaxOrder, NEW p \in Positions(o), NEW x
    PROVE  x \in Bytes(BlockAt(o, p)) <=>
             x \in Nat /\ Lo(o, p) <= x \div BUDDY_ALLOC_ALIGN /\ x \div BUDDY_ALLOC_ALIGN < Lo(o, p) + Width(o, p)
<1>1. PICK a \in Nat : a = BUDDY_ALLOC_ALIGN /\ a >= 1 BY AlignIs
<1>2. PICK lo \in Nat, w \in Nat : lo = Lo(o, p) /\ w = Width(o, p) BY SlotsOf
<1>3. Bytes(BlockAt(o, p)) = a * lo .. a * lo + a * w - 1 BY <1>1, <1>2 DEF Bytes, BlockAt
<1>4. a * lo + a * w = a * (lo + w) /\ a * lo \in Nat /\ a * w \in Nat BY SMT
<1>5. x \in Bytes(BlockAt(o, p)) <=> x \in Nat /\ a * lo <= x /\ ~(a * (lo + w) <= x) BY <1>3, <1>4
<1>6. ASSUME x \in Nat PROVE /\ x \div a \in Nat
                             /\ a * lo <= x <=> lo <= x \div a
                             /\ a * (lo + w) <= x <=> lo + w <= x \div a
  <2>1. x \div a \in Nat BY <1>1, <1>6, Quotient
  <2>2. \A y \in Nat : a * y <= x <=> y <= x \div a BY <1>1, <1>6, <2>1, ByteSlot
  <2>3. lo + w \in Nat OBVIOUS
  <2> QED BY <2>1, <2>2, <2>3
<1>7. CASE x \in Nat
  <2>1. ~(lo + w <= x \div a) <=> x \div a < lo + w BY <1>6, <1>7
  <2> QED BY <1>1, <1>2, <1>5, <1>6, <1>7, <2>1
<1> QED BY <1>1, <1>2, <1>5, <1>7

LEMMA FirstByte ==
    ASSUME NEW s \in Nat
    PROVE  BUDDY_ALLOC_ALIGN * s \in Nat /\ (BUDDY_ALLOC_ALIGN * s) \div BUDDY_ALLOC_ALIGN = s
<1>1. PICK a \in Nat : a = BUDDY_ALLOC_ALIGN /\ a >= 1 BY AlignIs
<1>2. (a * s) \div a = s BY <1>1, ExactQuotient
<1> QED BY <1>1, <1>2

\* The bytes of one position are bytes of another when it is that one or below it.
LEMMA BytesCover ==
    ASSUME NEW o \in 1 .. MaxOrder, NEW p \in Positions(o), NEW q \in Positions(o)
    PROVE  Bytes(BlockAt(o, q)) \subseteq Bytes(BlockAt(o, p)) <=> Covers(p, q)
<1>1. PICK a \in Nat : a = BUDDY_ALLOC_ALIGN /\ a >= 1 BY AlignIs
<1>2. PICK lo \in Nat, w \in Nat, x \in Nat, v \in Nat :
        lo = Lo(o, p) /\ w = Width(o, p) /\ x = Lo(o, q) /\ v = Width(o, q) /\ v >= 1
  BY SlotsOf
<1>3. ASSUME Covers(p, q) PROVE Bytes(BlockAt(o, q)) \subseteq Bytes(BlockAt(o, p))
  <2>1. lo <= x /\ x + v <= lo + w BY <1>2, <1>3, CoversInside
  <2> SUFFICES ASSUME NEW y \in Bytes(BlockAt(o, q)) PROVE y \in Bytes(BlockAt(o, p)) OBVIOUS
  <2>2. y \in Nat /\ x <= y \div a /\ y \div a < x + v BY <1>1, <1>2, BytesAre
  <2>3. y \div a \in Nat BY <1>1, <2>2, Quotient
  <2>4. lo <= y \div a /\ y \div a < lo + w BY <2>1, <2>2, <2>3
  <2> QED BY <1>1, <1>2, <2>2, <2>4, BytesAre
<1>4. ASSUME Bytes(BlockAt(o, q)) \subseteq Bytes(BlockAt(o, p)) PROVE Covers(p, q)
  <2>1. ASSUME NEW s \in Nat, x <= s, s < x + v PROVE lo <= s /\ s < lo + w
    <3>1. a * s \in Nat /\ (a * s) \div a = s BY <1>1, FirstByte
    <3>2. a * s \in Bytes(BlockAt(o, q)) BY <1>1, <1>2, <2>1, <3>1, BytesAre
    <3>3. a * s \in Bytes(BlockAt(o, p)) BY <1>4, <3>2
    <3> QED BY <1>1, <1>2, <3>1, <3>3, BytesAre
  <2>2. lo <= x
    <3>1. x <= x /\ x < x + v BY <1>2
    <3> QED BY <2>1, <3>1
  <2>3. x + v <= lo + w
    <3>1. x + v - 1 \in Nat /\ x <= x + v - 1 /\ x + v - 1 < x + v BY <1>2
    <3>2. x + v - 1 < lo + w BY <2>1, <3>1
    <3> QED BY <3>2
  <2> QED BY <1>2, <2>2, <2>3, InsideCovers
<1> QED BY <1>3, <1>4

\* A position is free of blocks and virtual slots, byte by byte, exactly when it shares
\* no slot with a marked one.
LEMMA UsedIs ==
    ASSUME NEW o, NEW n, Arena(memory_size, o, n), HeapOK(o, n, tree), blocks = BlocksOf(o, n, tree),
           NEW q \in Positions(o)
    PROVE  /\ BytesOf(q) = Bytes(BlockAt(o, q))
           /\ BytesOf(q) \cap Used = {} <=> \A p \in Marked(tree) : ~OnePath(p, q)
<1>1. /\ o \in 1 .. MaxOrder /\ n \in Nat /\ n >= 1 /\ n <= pow2[o - 1] /\ pow2[o - 1] \in Nat /\ tree.order = o
      /\ Padded(n, tree)
  BY HeapIs
<1>2. PICK a \in Nat, g \in Nat : a = BUDDY_ALLOC_ALIGN /\ a >= 1 /\ g = pow2[o - 1] BY <1>1, AlignIs
<1>3. memory_size = a * n /\ effective_memory_size(memory_size) = a * g BY <1>2 DEF Arena
<1>4. BytesOf(q) = Bytes(BlockAt(o, q)) BY HandedIs DEF BytesOf
<1>5. PICK lo \in Nat, w \in Nat : lo = Lo(o, q) /\ w = Width(o, q) /\ w >= 1 /\ lo + w <= g BY <1>1, <1>2, SlotsOf
<1>6. \A x : x \in memory_size .. effective_memory_size(memory_size) - 1 <=> x \in Nat /\ n <= x \div a /\ x \div a < g
  <2> SUFFICES ASSUME NEW x PROVE x \in a * n .. a * g - 1 <=> x \in Nat /\ n <= x \div a /\ x \div a < g BY <1>3
  <2>1. a * n \in Nat /\ a * g \in Nat BY <1>1
  <2>2. x \in a * n .. a * g - 1 <=> x \in Nat /\ a * n <= x /\ ~(a * g <= x) BY <2>1
  <2>3. CASE x \in Nat
    <3>1. x \div a \in Nat BY <1>2, <2>3, Quotient
    <3>2. \A y \in Nat : a * y <= x <=> y <= x \div a BY <1>2, <2>3, <3>1, ByteSlot
    <3>3. /\ a * n <= x <=> n <= x \div a
          /\ a * g <= x <=> g <= x \div a
      BY <1>1, <3>2
    <3>4. ~(g <= x \div a) <=> x \div a < g BY <3>1
    <3> QED BY <2>2, <2>3, <3>3, <3>4
  <2> QED BY <2>2, <2>3
\* A slot of q that is in use.
<1>7. ASSUME NEW p \in Marked(tree), OnePath(p, q) PROVE BytesOf(q) \cap Used # {}
  <2>1. PICK x \in Nat, v \in Nat : x = Lo(o, p) /\ v = Width(o, p) /\ v >= 1 /\ x + v <= g /\ p \in Positions(o)
    <3>1. p \in Positions(o) BY HeapIs
    <3> QED BY <1>1, <1>2, <3>1, SlotsOf
  <2>2. ~(x + v <= lo) /\ ~(lo + w <= x)
    <3>1. ~Apart(o, p, q) BY <1>1, <1>7, <2>1, ApartIs
    <3> QED BY <1>5, <2>1, <3>1 DEF Apart
  <2>3. PICK s \in Nat : lo <= s /\ s < lo + w /\ x <= s /\ s < x + v
    <3>1. CASE x <= lo BY <1>5, <2>1, <2>2, <3>1
    <3>2. CASE lo <= x BY <1>5, <2>1, <2>2, <3>2
    <3> QED BY <3>1, <3>2
  <2>4. PICK y \in Nat : y = a * s /\ y \div a = s
    <3>1. a * s \in Nat /\ (a * s) \div a = s BY <1>2, FirstByte
    <3> QED BY <3>1
  <2>5. y \in BytesOf(q) BY <1>1, <1>2, <1>4, <1>5, <2>3, <2>4, BytesAre
  <2>6. y \in Used
    <3>1. CASE x < n
      <4>1. p \in Live(n, tree) BY <1>1, <2>1, <3>1 DEF Live
      <4>2. BlockAt(o, p) \in blocks BY <4>1 DEF BlocksOf
      <4>3. y \in Bytes(BlockAt(o, p)) BY <1>1, <1>2, <2>1, <2>3, <2>4, BytesAre
      <4> QED BY <4>2, <4>3 DEF Used
    <3>2. CASE n <= x
      <4>1. n <= s /\ s < g BY <1>1, <2>1, <2>3, <3>2
      <4>2. y \in memory_size .. effective_memory_size(memory_size) - 1 BY <1>6, <2>4, <4>1
      <4> QED BY <4>2 DEF Used
    <3> QED BY <1>1, <2>1, <3>1, <3>2
  <2> QED BY <2>5, <2>6
<1>8. ASSUME NEW y \in BytesOf(q), y \in Used PROVE \E p \in Marked(tree) : OnePath(p, q)
  <2>1. PICK s \in Nat : y \in Nat /\ s = y \div a /\ lo <= s /\ s < lo + w
    <3>1. y \in Nat /\ lo <= y \div a /\ y \div a < lo + w BY <1>1, <1>2, <1>4, <1>5, <1>8, BytesAre
    <3>2. y \div a \in Nat BY <1>2, <3>1, Quotient
    <3> QED BY <3>1, <3>2
  <2>2. PICK p \in Marked(tree) : Lo(o, p) <= s /\ s < Lo(o, p) + Width(o, p)
    <3>1. CASE \E b \in blocks : y \in Bytes(b)
      <4>1. PICK p \in Live(n, tree) : y \in Bytes(BlockAt(o, p)) BY <3>1 DEF BlocksOf
      <4>2. p \in Marked(tree) /\ p \in Positions(o) BY LiveInside
      <4> QED BY <1>1, <1>2, <2>1, <4>1, <4>2, BytesAre
    <3>2. CASE y \in memory_size .. effective_memory_size(memory_size) - 1
      <4>1. n <= s /\ s < g BY <1>6, <2>1, <3>2
      <4> QED BY <1>1, <1>2, <4>1 DEF Padded
    <3> QED BY <1>8, <3>1, <3>2 DEF Used
  <2>3. PICK x \in Nat, v \in Nat : x = Lo(o, p) /\ v = Width(o, p) /\ p \in Positions(o) BY HeapIs
  <2>4. ~Apart(o, p, q)
    <3> SUFFICES ASSUME Apart(o, p, q) PROVE FALSE OBVIOUS
    <3>1. x + v <= lo \/ lo + w <= x BY <1>5, <2>3 DEF Apart
    <3> QED BY <1>5, <2>1, <2>2, <2>3, <3>1
  <2> QED BY <1>1, <2>3, <2>4, ApartIs
<1> QED BY <1>4, <1>7, <1>8

LEMMA FullFrom == HeapInv => RefusedOnlyWhenFull
<1> SUFFICES ASSUME HeapInv, NEW requested \in 1 .. memory_size, Place(tree, requested) = INVALID_POS,
                    NEW pos \in Positions(tree.order), Depth[pos] = depth_for_size(requested)
             PROVE  BytesOf(pos) \cap Used # {}
  BY DEF RefusedOnlyWhenFull
<1>1. PICK o, n : Arena(memory_size, o, n) /\ HeapOK(o, n, tree) /\ blocks = BlocksOf(o, n, tree) BY DEF HeapInv
<1>2. pos \in Positions(o) BY <1>1, HeapIs
<1>3. requested \in Nat /\ requested >= 1 /\ requested <= memory_size
  <2>1. n \in Nat /\ memory_size = BUDDY_ALLOC_ALIGN * n BY <1>1 DEF Arena
  <2> QED BY <2>1, AlignIs
<1>4. \E p \in Marked(tree) : OnePath(p, pos) BY <1>1, <1>2, <1>3, PlaceRight
<1> QED BY <1>1, <1>2, <1>4, UsedIs

\* No false refusal, for arenas of any size and however they are fragmented: a request
\* is refused only when no position of its size class is free (buddy_malloc,
\* buddy_tree_find_free).
THEOREM FixedArenaRefusals == FixedSpec => []RefusedOnlyWhenFull
BY HeapAlways, FullFrom, PTL

-----------------------------------------------------------------------------
(* Statuses *)

\* Below a position that is not full and not part of a block there is room as many
\* levels down as its status says.
LEMMA RoomBelow ==
    ASSUME NEW t, Sound(t), NEW x \in Positions(t.order), \A p \in Positions(t.order) : Above(p, x) => ~InUse(t, p),
           tree_status(t, x) <= t.order - Depth[x]
    PROVE  \E q \in Positions(t.order) : Covers(x, q) /\ Room(t, Depth[x] + tree_status(t, x), q)
<1>1. t \in Trees /\ t.order \in 1 .. MaxOrder BY SoundIs
<1>2. PICK o \in Nat : o = t.order BY <1>1, OrderAssumption
<1> DEFINE Free(y) == \A p \in Positions(o) : Above(p, y) => ~InUse(t, p)
           Found(y) == \E q \in Positions(o) : Covers(y, q) /\ Room(t, Depth[y] + tree_status(t, y), q)
           P == {i \in Nat : \A y \in Positions(o) :
                     o - Depth[y] <= i /\ Free(y) /\ tree_status(t, y) <= o - Depth[y] => Found(y)}
<1>3. ASSUME NEW y \in Positions(o)
      PROVE  /\ Depth[y] \in Nat /\ Depth[y] <= o /\ tree_status(t, y) \in Nat /\ y \in Nat
             /\ local_offset(t, y) = o - Depth[y] + 1
  BY <1>1, <1>2, DepthIs, StatusRange, PositionIs DEF InRow
<1>4. ASSUME NEW y \in Positions(o), Free(y), tree_status(t, y) = 0 PROVE Found(y)
  <2>1. Depth[y] + tree_status(t, y) = Depth[y] BY <1>3, <1>4
  <2>2. Room(t, Depth[y], y) BY <1>2, <1>4 DEF Room
  <2> QED BY <2>1, <2>2 DEF Covers
<1>5. ASSUME NEW y \in Positions(o), Free(y), tree_status(t, y) # 0, tree_status(t, y) <= o - Depth[y]
      PROVE  \E c \in Positions(o) : /\ parent(c) = y /\ Free(c) /\ Depth[c] = Depth[y] + 1
                                     /\ tree_status(t, y) = tree_status(t, c) + 1
  <2>1. PICK s \in Nat, d \in Nat : s = tree_status(t, y) /\ d = Depth[y] /\ s # 0 /\ s <= o - d /\ d < o
    <3>1. tree_status(t, y) \in Nat /\ Depth[y] \in Nat /\ Depth[y] < o BY <1>3, <1>5
    <3> QED BY <1>5, <3>1
  <2>2. PICK l, r : l = left_child(y) /\ r = right_child(y) OBVIOUS
  <2>3. /\ l \in Positions(o) /\ r \in Positions(o) /\ Depth[l] = Depth[y] + 1 /\ Depth[r] = Depth[y] + 1
        /\ parent(l) = y /\ parent(r) = y
    BY <1>1, <1>2, <1>3, <2>1, <2>2, ChildSlots, ParentOfChild
  <2>4. ~InUse(t, y)
    <3>1. local_offset(t, y) = o - d + 1 BY <1>3, <2>1
    <3>2. tree_status(t, y) # local_offset(t, y) BY <2>1, <3>1
    <3> QED BY <3>2 DEF InUse
  <2>5. Settled(t, y) BY <1>2, <2>1, <2>4 DEF Sound
  <2>6. PICK u \in Nat, v \in Nat : u = tree_status(t, l) /\ v = tree_status(t, r) BY <1>3, <2>3
  <2>7. s = IF u = 0 /\ v = 0 THEN 0 ELSE IF u <= v THEN u + 1 ELSE v + 1
    <3>1. tree_status(t, y) = TargetParent(u, v) BY <2>2, <2>5, <2>6 DEF Settled
    <3>2. TargetParent(u, v) = IF u = 0 /\ v = 0 THEN 0 ELSE IF u <= v THEN u + 1 ELSE v + 1
      BY TargetIs, Zenon
    <3> QED BY <2>1, <3>1, <3>2
  <2>8. ASSUME NEW c \in {l, r} PROVE Free(c)
    <3>1. c \in Nat /\ parent(c) = y BY <1>3, <2>3, <2>8
    <3>2. \A p : Above(p, c) => p = y \/ Above(p, y) BY <3>1, AboveIs
    <3> QED BY <1>5, <2>4, <3>2
  <2>9. s = u + 1 \/ s = v + 1 BY <2>1, <2>7
  <2>10. CASE s = u + 1 BY <2>1, <2>3, <2>6, <2>8, <2>10
  <2>11. CASE s = v + 1 BY <2>1, <2>3, <2>6, <2>8, <2>11
  <2> QED BY <2>9, <2>10, <2>11
<1> HIDE DEF Free
<1>6. 0 \in P
  <2> SUFFICES ASSUME NEW y \in Positions(o), o - Depth[y] <= 0, Free(y), tree_status(t, y) <= o - Depth[y]
               PROVE  Found(y)
    OBVIOUS
  <2>1. tree_status(t, y) = 0 BY <1>3
  <2> QED BY <1>4, <2>1
<1>7. ASSUME NEW i \in P PROVE i + 1 \in P
  <2> SUFFICES ASSUME NEW y \in Positions(o), o - Depth[y] <= i + 1, Free(y), tree_status(t, y) <= o - Depth[y]
               PROVE  Found(y)
    BY <1>7
  <2>1. CASE tree_status(t, y) = 0 BY <1>4, <2>1
  <2>2. CASE tree_status(t, y) # 0
    <3>1. PICK c \in Positions(o) : /\ parent(c) = y /\ Free(c) /\ Depth[c] = Depth[y] + 1
                                    /\ tree_status(t, y) = tree_status(t, c) + 1
      BY <1>5, <2>2
    <3>2. /\ Depth[y] \in Nat /\ Depth[c] \in Nat /\ tree_status(t, c) \in Nat /\ tree_status(t, y) \in Nat
          /\ c \in Nat /\ i \in Nat
      BY <1>3, <1>7
    <3>3. o - Depth[c] <= i /\ tree_status(t, c) <= o - Depth[c] BY <3>1, <3>2
    <3>4. PICK q \in Positions(o) : Covers(c, q) /\ Room(t, Depth[c] + tree_status(t, c), q) BY <1>7, <3>1, <3>3
    <3>5. Depth[c] + tree_status(t, c) = Depth[y] + tree_status(t, y) BY <3>1, <3>2
    <3>6. Covers(y, c) BY <3>1, <3>2, AboveIs DEF Covers
    <3>7. Covers(y, q)
      <4>1. q \in Nat BY <1>3
      <4> QED BY <3>4, <3>6, <4>1, CoversTrans
    <3> QED BY <3>4, <3>5, <3>7
  <2> QED BY <2>1, <2>2
<1>8. P = Nat
  <2>1. P \in SUBSET Nat OBVIOUS
  <2> HIDE DEF P
  <2> QED BY <1>6, <1>7, <2>1, NumbersUpwards
<1>9. o - Depth[x] \in P /\ o - Depth[x] <= o - Depth[x]
  <2>1. o - Depth[x] \in Nat BY <1>2, <1>3
  <2> QED BY <1>8, <2>1
<1>10. Free(x) BY <1>2 DEF Free
<1>11. Found(x) BY <1>2, <1>9, <1>10
<1> QED BY <1>2, <1>11

\* check_invariant finds nothing in a sound tree.
LEMMA InvariantChecked ==
    ASSUME NEW t, Sound(t), NEW pos \in Positions(t.order)
    PROVE  ~check_invariant(t, pos)
<1> SUFFICES ASSUME check_invariant(t, pos) PROVE FALSE OBVIOUS
<1>1. t \in Trees /\ t.order \in 1 .. MaxOrder BY SoundIs
<1>2. left_child(pos) \in Positions(t.order) BY DEF check_invariant, tree_valid
<1>3. Depth[pos] < t.order BY <1>1, <1>2, ChildrenAre DEF left_child
<1>4. PICK l \in Nat, r \in Nat, s \in Nat :
        l = tree_status(t, left_child(pos)) /\ r = tree_status(t, right_child(pos)) /\ s = tree_status(t, pos)
  BY <1>1, <1>3, ChildrenInTree
<1>5. Settled(t, pos) \/ InUse(t, pos) BY <1>3 DEF Sound
<1>6. PICK m \in Nat : m = Min({l, r}) BY MinTwo
<1>7. CASE l # 0 \/ r # 0
  <2>1. s # m + 1 BY <1>4, <1>6, <1>7 DEF check_invariant
  <2>2. Settled(t, pos) BY <1>3, <1>4, <1>5, <1>7 DEF InUse
  <2>3. s = m + 1 BY <1>4, <1>6, <1>7, <2>2 DEF Settled, TargetParent
  <2> QED BY <2>1, <2>3
<1>8. CASE ~(l # 0 \/ r # 0)
  <2>1. s > 0 /\ s < local_offset(t, pos) BY <1>4, <1>8 DEF check_invariant
  <2>2. CASE Settled(t, pos)
    <3>1. s = 0 BY <1>4, <1>8, <2>2 DEF Settled, TargetParent
    <3> QED BY <2>1, <3>1
  <2>3. CASE InUse(t, pos)
    <3>1. s = local_offset(t, pos) BY <1>4, <2>3 DEF InUse
    <3> QED BY <2>1, <3>1
  <2> QED BY <1>5, <2>2, <2>3
<1> QED BY <1>7, <1>8

\* A status tells how many levels down the largest free position is.
LEMMA StatusTells ==
    ASSUME NEW o, NEW n, Arena(memory_size, o, n), HeapOK(o, n, tree), blocks = BlocksOf(o, n, tree),
           NEW pos \in Positions(o), \A p \in Marked(tree) : ~Above(p, pos)
    PROVE  tree_status(tree, pos) = LevelsToFree(pos)
<1>1. o \in 1 .. MaxOrder /\ o \in Nat /\ tree.order = o /\ Sound(tree) /\ tree \in Trees BY HeapIs, OrderAssumption
<1>2. PICK s \in Nat, d \in Nat : /\ s = tree_status(tree, pos) /\ d = Depth[pos] /\ d <= o
                                  /\ s <= local_offset(tree, pos) /\ local_offset(tree, pos) = o - d + 1
  BY <1>1, StatusRange, DepthIs DEF InRow
<1> DEFINE below == {q \in Positions(o) : BytesOf(q) \subseteq BytesOf(pos) /\ BytesOf(q) \cap Used = {}}
           depths == {Depth[q] : q \in below}
<1>3. LevelsToFree(pos) = IF below = {} THEN local_offset(tree, pos) ELSE Min(depths) - Depth[pos]
  BY <1>1, Zenon DEF LevelsToFree
<1>4. ASSUME NEW q \in Positions(o)
      PROVE  q \in below <=> Covers(pos, q) /\ \A p \in Marked(tree) : ~OnePath(p, q)
  <2>1. BytesOf(q) = Bytes(BlockAt(o, q)) /\ BytesOf(pos) = Bytes(BlockAt(o, pos)) BY UsedIs
  <2>2. BytesOf(q) \subseteq BytesOf(pos) <=> Covers(pos, q) BY <1>1, <2>1, BytesCover
  <2>3. BytesOf(q) \cap Used = {} <=> \A p \in Marked(tree) : ~OnePath(p, q) BY UsedIs
  <2> QED BY <2>2, <2>3
<1>5. \A q \in below : q \in Positions(o) OBVIOUS
<1> HIDE DEF below
<1>6. ASSUME NEW q \in below PROVE Depth[q] \in Nat /\ Depth[q] <= o /\ s <= Depth[q] - d
  <2>1. q \in Positions(o) BY <1>5
  <2>2. Covers(pos, q) /\ \A p \in Marked(tree) : ~OnePath(p, q) BY <1>4, <2>1
  <2>3. Room(tree, Depth[q], q) BY <1>1, <2>1, <2>2, RoomIs
  <2>4. s <= Depth[q] - d BY <1>1, <1>2, <2>2, <2>3, RoomShows DEF Covers
  <2> QED BY <1>1, <2>1, <2>4, DepthIs DEF InRow
<1>7. ASSUME s <= o - d PROVE \E q \in below : Depth[q] = d + s
  <2>1. \A p \in Positions(o) : Above(p, pos) => ~InUse(tree, p) BY <1>1 DEF Marked
  <2>2. PICK q \in Positions(o) : Covers(pos, q) /\ Room(tree, d + s, q) BY <1>1, <1>2, <1>7, <2>1, RoomBelow
  <2>3. Depth[q] = d + s BY <2>2 DEF Room
  <2>4. \A p \in Marked(tree) : ~OnePath(p, q) BY <1>1, <2>2, <2>3, RoomIs
  <2>5. q \in below BY <1>4, <2>2, <2>4
  <2> QED BY <2>3, <2>5
<1>8. CASE below = {}
  <2>1. ~(s <= o - d) BY <1>7, <1>8
  <2> QED BY <1>1, <1>2, <1>3, <1>8, <2>1
<1>9. CASE below # {}
  <2>1. s <= o - d
    <3>1. PICK q \in below : TRUE BY <1>9
    <3> QED BY <1>1, <1>2, <1>6, <3>1
  <2>2. PICK q \in below : Depth[q] = d + s BY <1>7, <2>1
  <2>3. d + s \in depths BY <2>2
  <2>4. depths \in SUBSET Int /\ depths # {} /\ \A x \in depths : d + s <= x BY <1>2, <1>6, <2>2
  <2> HIDE DEF depths
  <2>5. d + s \in Int OBVIOUS
  <2>6. Min(depths) \in depths /\ \A y \in depths : Min(depths) <= y BY <2>4, <2>5, MinOf
  <2>7. Min(depths) = d + s
    <3>1. PICK m \in Int : m = Min(depths) BY <2>4, <2>6
    <3>2. m <= d + s /\ d + s <= m BY <2>3, <2>4, <2>6, <3>1
    <3> QED BY <3>1, <3>2
  <2> QED BY <1>2, <1>3, <1>9, <2>7
<1> QED BY <1>8, <1>9

LEMMA StatusesFrom == HeapInv => StatusExact
<1> SUFFICES ASSUME HeapInv, NEW pos \in Positions(tree.order)
             PROVE  /\ ~InsideBlock(pos) /\ ~Virtual(pos) => tree_status(tree, pos) = LevelsToFree(pos)
                    /\ InsideBlock(pos) => tree_status(tree, pos) = 0
                    /\ ~check_invariant(tree, pos)
  BY DEF StatusExact
<1>1. PICK o, n : Arena(memory_size, o, n) /\ HeapOK(o, n, tree) /\ blocks = BlocksOf(o, n, tree) BY DEF HeapInv
<1>2. o \in 1 .. MaxOrder /\ tree.order = o /\ Sound(tree) /\ pos \in Positions(o) /\ n \in Nat BY <1>1, HeapIs
<1>3. BytesOf(pos) = Bytes(BlockAt(o, pos)) BY <1>1, <1>2, UsedIs
<1>4. ASSUME InsideBlock(pos) PROVE tree_status(tree, pos) = 0
  <2>1. PICK b \in blocks : BytesOf(pos) \subseteq Bytes(b) /\ BytesOf(pos) # Bytes(b) BY <1>4 DEF InsideBlock
  <2>2. PICK p \in Live(n, tree) : b = BlockAt(o, p) BY <1>1, <2>1 DEF BlocksOf
  <2>3. p \in Marked(tree) /\ p \in Positions(o) BY <1>1, LiveInside
  <2>4. Covers(p, pos) BY <1>2, <1>3, <2>1, <2>2, <2>3, BytesCover
  <2>5. p # pos BY <1>3, <2>1, <2>2
  <2> QED BY <1>2, <2>3, <2>4, <2>5, AroundMarked DEF Covers
<1>5. ASSUME ~InsideBlock(pos), ~Virtual(pos) PROVE tree_status(tree, pos) = LevelsToFree(pos)
  <2>1. PICK a \in Nat, lo \in Nat : a = BUDDY_ALLOC_ALIGN /\ a >= 1 /\ lo = Lo(o, pos)
    <3>1. Lo(o, pos) \in Nat BY <1>2, SlotsOf
    <3> QED BY <3>1, AlignIs
  <2>2. lo < n
    <3>1. ~(a * lo >= a * n)
      <4>1. address_for_position(pos) = a * lo BY <1>1, <1>2, <2>1, HandedIs
      <4>2. memory_size = a * n BY <1>1, <2>1 DEF Arena
      <4> QED BY <1>5, <4>1, <4>2 DEF Virtual
    <3>2. n <= lo => a * n <= a * lo BY <1>2, TimesMonotone
    <3> QED BY <1>2, <3>1, <3>2
  <2>3. ASSUME NEW p \in Marked(tree), Above(p, pos) PROVE FALSE
    <3>1. p \in Positions(o) BY <1>1, HeapIs
    <3>2. PICK x \in Nat, w \in Nat, v \in Nat : x = Lo(o, p) /\ w = Width(o, p) /\ v = Width(o, pos) BY <1>2, <3>1, SlotsOf
    <3>3. Covers(p, pos) BY <2>3 DEF Covers
    <3>4. x <= lo BY <1>2, <2>1, <3>1, <3>2, <3>3, CoversInside
    <3>5. p \in Live(n, tree)
      <4>1. x < n BY <1>2, <2>2, <3>4
      <4> QED BY <1>2, <3>2, <4>1 DEF Live
    <3>6. BlockAt(o, p) \in blocks BY <1>1, <3>5 DEF BlocksOf
    <3>7. BytesOf(pos) \subseteq Bytes(BlockAt(o, p)) BY <1>2, <1>3, <3>1, <3>3, BytesCover
    <3>8. BytesOf(pos) # Bytes(BlockAt(o, p))
      <4> SUFFICES ASSUME BytesOf(pos) = Bytes(BlockAt(o, p)) PROVE FALSE OBVIOUS
      <4>1. Bytes(BlockAt(o, p)) \subseteq Bytes(BlockAt(o, pos)) BY <1>3
      <4>2. Covers(pos, p) BY <1>2, <3>1, <4>1, BytesCover
      <4>3. v < w BY <1>2, <2>3, <3>1, <3>2, AboveWider
      <4>4. Lo(o, pos) <= Lo(o, p) /\ Lo(o, p) + Width(o, p) <= Lo(o, pos) + Width(o, pos)
        BY <1>2, <3>1, <4>2, CoversInside
      <4> QED BY <2>1, <3>2, <3>4, <4>3, <4>4
    <3> QED BY <1>5, <3>6, <3>7, <3>8 DEF InsideBlock
  <2> QED BY <1>1, <1>2, <2>3, StatusTells
<1>6. ~check_invariant(tree, pos) BY <1>2, InvariantChecked
<1> QED BY <1>4, <1>5, <1>6

\* Every status is exact in trees of any order: it tells how far down the largest free
\* block is, although update_parent_chain stops at the first ancestor that does not
\* change and a release clears one bit, and check_invariant never complains.
THEOREM FixedArenaStatuses == FixedSpec => []StatusExact
BY HeapAlways, StatusesFrom, PTL

-----------------------------------------------------------------------------
(* Moving the contents of a block *)

\* The part of two positions that realloc copies fits both, and when it does not start
\* at or below the old contents it starts behind them.
LEMMA CopySafe ==
    ASSUME NEW o \in 1 .. MaxOrder, NEW p \in Positions(o), NEW q \in Positions(o), NEW d,
           d \in {Depth[p], Depth[q]}, Depth[p] <= d, Depth[q] <= d
    PROVE  /\ d \in 1 .. o
           /\ pow2[o - d] \in Nat /\ pow2[o - d] <= Width(o, p) /\ pow2[o - d] <= Width(o, q)
           /\ Lo(o, q) <= Lo(o, p) \/ Lo(o, q) >= Lo(o, p) + pow2[o - d]
<1>1. PICK a \in Nat, v \in Nat, b \in Nat, w \in Nat :
        /\ a = Lo(o, p) /\ v = Width(o, p) /\ b = Lo(o, q) /\ w = Width(o, q)
  BY SlotsOf
<1>2. o \in Nat /\ o >= 1 BY SlotsOf
<1>3. PICK c \in Nat, e \in Nat : c = Depth[p] /\ c >= 1 /\ c <= o /\ e = Depth[q] /\ e >= 1 /\ e <= o
  BY DepthIs DEF InRow
<1>4. d \in Nat /\ d >= 1 /\ d <= o /\ c <= d /\ e <= d /\ (d = c \/ d = e) BY <1>3
<1>5. o - d \in Nat /\ o - c \in Nat /\ o - e \in Nat /\ o - d <= o - c /\ o - d <= o - e BY <1>2, <1>3, <1>4
<1>6. v = pow2[o - c] /\ w = pow2[o - e] BY <1>1, <1>3 DEF Width
<1>7. PICK n \in Nat : n = pow2[o - d] /\ n <= v /\ n <= w /\ (d = c => n = v) /\ (d = e => n = w)
  <2>1. pow2[o - d] \in Nat BY <1>5, PowerIs
  <2>2. pow2[o - d] <= pow2[o - c] /\ pow2[o - d] <= pow2[o - e] BY <1>5, PowerGrows
  <2> QED BY <1>6, <2>1, <2>2
<1>8. b <= a \/ b >= a + n
  <2>1. CASE Apart(o, p, q)
    <3>1. a + v <= b \/ b + w <= a BY <1>1, <2>1 DEF Apart
    <3> QED BY <1>7, <3>1
  <2>2. CASE Covers(q, p)
    <3>1. Lo(o, q) <= Lo(o, p) BY <2>2, CoversInside
    <3> QED BY <1>1, <3>1
  <2>3. CASE Covers(p, q) /\ d = c
    <3>1. Lo(o, p) <= Lo(o, q) /\ Lo(o, q) + Width(o, q) <= Lo(o, p) + Width(o, p) BY <2>3, CoversInside
    <3>2. a <= b /\ b + w <= a + v BY <1>1, <3>1
    <3>3. v <= w BY <1>7, <2>3
    <3> QED BY <3>2, <3>3
  <2>4. CASE d = e
    <3>1. PICK f \in Nat : f = d - c /\ (o - d) + f = o - c BY <1>2, <1>3, <1>4
    <3>2. pow2[(o - d) + f] = pow2[o - d] * pow2[f] BY <1>5, PowerSum, Zenon
    <3>3. PICK h \in Nat : h = pow2[f] BY PowerIs
    <3>4. v = n * h BY <1>6, <1>7, <3>1, <3>2, <3>3
    <3>5. PICK i \in Nat, j \in Nat : i = p - pow2[c - 1] /\ j = q - pow2[e - 1]
      <4>1. p - pow2[Depth[p] - 1] \in Nat /\ q - pow2[Depth[q] - 1] \in Nat BY FieldIs
      <4> QED BY <1>3, <4>1
    <3>6. a = v * i /\ b = w * j BY <1>1, <1>3, <3>5 DEF Lo
    <3>7. b = n * j BY <1>7, <2>4, <3>6
    <3>8. PICK k \in Nat : k = h * i OBVIOUS
    <3>9. n * k = (n * h) * i BY <3>8, TimesSum
    <3>10. a = n * k BY <3>4, <3>6, <3>9
    <3>11. CASE a < b
      <4>1. k < j BY <3>7, <3>10, <3>11, TimesStrict
      <4>2. n * (k + 1) <= n * j BY <4>1, TimesMonotone
      <4>3. n * (k + 1) = n * k + n BY TimesSuccessor
      <4>4. n * (k + 1) <= b /\ n * (k + 1) = a + n BY <3>7, <3>10, <4>2, <4>3
      <4> QED BY <4>4
    <3> QED BY <3>11
  <2>5. Apart(o, p, q) \/ Covers(p, q) \/ Covers(q, p) BY ApartIs DEF OnePath
  <2> QED BY <1>4, <2>1, <2>2, <2>3, <2>4, <2>5
<1> QED BY <1>1, <1>2, <1>4, <1>7, <1>8

LEMMA ReallocFrom == HeapInv => ReallocKeepsContents
<1> SUFFICES ASSUME HeapInv PROVE ReallocKeepsContents OBVIOUS
<1>1. PICK o, n : Arena(memory_size, o, n) /\ HeapOK(o, n, tree) /\ blocks = BlocksOf(o, n, tree) BY DEF HeapInv
<1>2. o \in 1 .. MaxOrder BY <1>1 DEF Arena
<1> SUFFICES ASSUME NEW x \in blocks, NEW requested \in 1 .. memory_size,
                    NEW p, p = position_for_address(x.addr),
                    NEW q, q = Place(tree_release(tree, p), requested), q # INVALID_POS,
                    NEW s, s = CopyLength(p, q)
             PROVE  /\ s <= x.size /\ s <= size_for_depth(memory_size, Depth[q])
                    /\ address_for_position(q) <= x.addr \/ address_for_position(q) >= x.addr + s
  BY DEF ReallocKeepsContents
<1>3. p \in Live(n, tree) /\ x = BlockAt(o, p) BY <1>1, BlockFound
<1>4. p \in Positions(o) BY <1>1, <1>3, HeapIs DEF Live
<1>5. HeapOK(o, n, tree_release(tree, p)) BY <1>1, <1>3, DropMark
<1>6. q \in Positions(o)
  <2>1. requested \in Nat /\ requested >= 1 OBVIOUS
  <2> HIDE DEF INVALID_POS
  <2> QED BY <1>1, <1>5, <2>1, PlaceRight
<1>7. PICK d : d = Max({Depth[p], Depth[q]}) /\ d \in {Depth[p], Depth[q]} /\ Depth[p] <= d /\ Depth[q] <= d
  <2> DEFINE S == {Depth[p], Depth[q]}
  <2>1. Depth[p] \in Nat /\ Depth[q] \in Nat /\ Depth[p] <= o /\ Depth[q] <= o /\ o \in Nat
    BY <1>2, <1>4, <1>6, DepthIs, SlotsOf DEF InRow
  <2>2. S \in SUBSET Int /\ S # {} /\ o \in Int /\ \A y \in S : y <= o BY <2>1
  <2>3. Max(S) \in S /\ \A y \in S : y <= Max(S) BY <2>2, MaxOf
  <2> HIDE DEF Max
  <2> QED BY <2>3
<1>8. /\ d \in 1 .. o
      /\ pow2[o - d] \in Nat /\ pow2[o - d] <= Width(o, p) /\ pow2[o - d] <= Width(o, q)
      /\ Lo(o, q) <= Lo(o, p) \/ Lo(o, q) >= Lo(o, p) + pow2[o - d]
  BY <1>2, <1>4, <1>6, <1>7, CopySafe
<1>9. s = BUDDY_ALLOC_ALIGN * pow2[o - d] BY <1>1, <1>7, <1>8, SizesAre DEF CopyLength
<1>10. PICK g \in Nat, k \in Nat, a \in Nat, v \in Nat, b \in Nat, w \in Nat :
         /\ g = BUDDY_ALLOC_ALIGN /\ k = pow2[o - d] /\ a = Lo(o, p) /\ v = Width(o, p)
         /\ b = Lo(o, q) /\ w = Width(o, q)
  BY <1>2, <1>4, <1>6, <1>8, AlignIs, SlotsOf
<1>11. k <= v /\ k <= w /\ (b <= a \/ a + k <= b) /\ a + k \in Nat BY <1>8, <1>10
<1>12. /\ g * k <= g * v /\ g * k <= g * w /\ (b <= a => g * b <= g * a)
       /\ (a + k <= b => g * (a + k) <= g * b)
  BY <1>11, TimesMonotone
<1>13. g * (a + k) = g * a + g * k BY SMT
<1>14. x.addr = g * a /\ x.size = g * v BY <1>3, <1>10 DEF BlockAt
<1>15. address_for_position(q) = g * b /\ size_for_depth(memory_size, Depth[q]) = g * w BY <1>1, <1>6, <1>10, HandedIs
<1>16. s = g * k BY <1>9, <1>10
<1>17. g * a \in Nat /\ g * b \in Nat /\ g * k \in Nat OBVIOUS
<1>18. g * b <= g * a \/ g * b >= g * a + g * k BY <1>11, <1>12, <1>13, <1>17
<1> QED BY <1>12, <1>14, <1>15, <1>16, <1>18, Zenon

\* realloc keeps the contents in arenas of any size: what it copies lies inside the old
\* and the new block, and its upward memmove never reads a byte it has already written.
THEOREM FixedArenaRealloc == FixedSpec => []ReallocKeepsContents
BY HeapAlways, ReallocFrom, PTL

-----------------------------------------------------------------------------
(* Resizing: the virtual slots *)

\* The first step of buddy_resize_standard: r is tree t without its virtual slots.
Lowered(m, t, r) == r = toggle_virtual_slots(t, m, FALSE)
OnlyLive(o, n, t, r) == r \in TreesOf(o) /\ Sound(r) /\ Marked(r) = Live(n, t)

\* Releasing the virtual slots leaves exactly the blocks marked.
LEMMA WallDown ==
    ASSUME NEW m, NEW o, NEW n, NEW t, Arena(m, o, n), HeapOK(o, n, t),
           NEW r, Lowered(m, t, r)
    PROVE  OnlyLive(o, n, t, r)
<1>1. /\ o \in 1 .. MaxOrder /\ n \in Nat /\ pow2[o - 1] \in Nat /\ t \in TreesOf(o) /\ t.order = o /\ Sound(t)
      /\ Walled(n, t)
  BY HeapIs
<1>2. PICK v : v = VirtualPositions(m) OBVIOUS
<1>3. /\ v \in Seq(Positions(o)) /\ Wall(n) = {v[i] : i \in 1 .. Len(v)}
      /\ \A i \in 1 .. Len(v) : v[i] \in Positions(o) /\ n <= Lo(o, v[i])
      /\ \A i, j \in 1 .. Len(v) : i < j => ~OnePath(v[i], v[j])
      /\ \A s \in Nat : n <= s /\ s < pow2[o - 1] =>
           \E x \in Wall(n) : Lo(o, x) <= s /\ s < Lo(o, x) + Width(o, x)
  BY <1>2, WallIs
<1>4. \A x \in Wall(n) : x \in Marked(t) /\ n <= Lo(o, x) BY <1>1 DEF Walled
<1>5. Releasable(t, v)
  <2>1. \A p : OnePath(p, p) BY DEF OnePath, Covers
  <2>2. \A i, j \in 1 .. Len(v) : i < j => v[i] # v[j] BY <1>3, <2>1
  <2>3. \A i \in 1 .. Len(v) : v[i] \in Marked(t) BY <1>3, <1>4
  <2> QED BY <2>2, <2>3 DEF Releasable
<1>6. AllReleased(o, t, v, r)
  <2>1. AllReleased(o, t, v, Toggled(t, v, FALSE)) BY <1>1, <1>3, <1>5, ReleaseAll
  <2> QED BY <1>2, <2>1, Zenon DEF toggle_virtual_slots, Lowered
<1>7. r \in TreesOf(o) /\ Sound(r) /\ Marked(r) = Marked(t) \ Wall(n) BY <1>3, <1>6 DEF AllReleased
<1>8. ASSUME NEW p \in Marked(t), ~(Lo(o, p) < n) PROVE p \in Wall(n)
  <2>1. PICK lo \in Nat, w \in Nat : lo = Lo(o, p) /\ w = Width(o, p) /\ w >= 1 /\ lo + w <= pow2[o - 1] BY HeapIs
  <2>2. n <= lo /\ lo < pow2[o - 1] BY <1>1, <1>8, <2>1
  <2>3. PICK x \in Wall(n) : Lo(o, x) <= lo /\ lo < Lo(o, x) + Width(o, x) BY <1>3, <2>2
  <2>4. x \in Marked(t) BY <1>4
  <2>5. PICK y \in Nat, u \in Nat : y = Lo(o, x) /\ u = Width(o, x) BY <2>4, HeapIs
  <2>6. CASE x # p
    <3>1. Apart(o, p, x) BY <2>4, <2>6, MarkedSlots
    <3>2. lo + w <= y \/ y + u <= lo BY <2>1, <2>5, <3>1 DEF Apart
    <3> QED BY <2>1, <2>3, <2>5, <3>2
  <2> QED BY <2>6
<1>9. ASSUME NEW p \in Marked(t), Lo(o, p) < n PROVE p \notin Wall(n)
  <2>1. Lo(o, p) \in Nat BY HeapIs
  <2> QED BY <1>1, <1>4, <1>9, <2>1
<1>10. Live(n, t) = Marked(t) \ Wall(n) BY <1>1, <1>8, <1>9 DEF Live
<1> QED BY <1>7, <1>10 DEF OnlyLive


-----------------------------------------------------------------------------
(* Resizing: one order up *)

\* The rows of a larger tree are further up, and twice as long.
LEMMA RowsGrow ==
    ASSUME NEW o \in Nat, NEW h \in 0 .. o
    PROVE  /\ size_for_order(o)[h] \in Nat /\ size_for_order(o + 1)[h] \in Nat
           /\ size_for_order(o)[h] < size_for_order(o + 1)[h]
<1> DEFINE S == size_for_order(o)
           T == size_for_order(o + 1)
           P == {k \in Nat : k <= o => S[o - k] < T[o - k]}
<1>0. o + 1 \in Nat OBVIOUS
<1>1. \A to \in 0 .. o : S[to] \in Nat /\ S[to] = IF to = o THEN 0 ELSE S[to + 1] + (to + 1) * pow2[o - (to + 1)]
  BY SizesUnfold
<1>2. \A to \in 0 .. o + 1 : T[to] \in Nat /\ T[to] =
         IF to = o + 1 THEN 0 ELSE T[to + 1] + (to + 1) * pow2[(o + 1) - (to + 1)]
  BY <1>0, SizesUnfold
<1> HIDE DEF S, T
<1>3. P = Nat
  <2>1. 0 \in P
    <3>1. o \in 0 .. o /\ o \in 0 .. o + 1 /\ o # o + 1 /\ o - 0 = o /\ (o + 1) - (o + 1) = 0 /\ o + 1 \in 0 .. o + 1
      OBVIOUS
    <3>2. S[o] = 0 BY <1>1, <3>1
    <3>3. T[o] = T[o + 1] + (o + 1) * pow2[0] /\ T[o + 1] \in Nat BY <1>2, <3>1
    <3>4. (o + 1) * pow2[0] = o + 1 BY PowerIs
    <3>5. S[o] < T[o] BY <3>2, <3>3, <3>4
    <3> QED BY <3>1, <3>5
  <2>2. ASSUME NEW k \in P PROVE k + 1 \in P
    <3> SUFFICES ASSUME k + 1 <= o PROVE S[o - (k + 1)] < T[o - (k + 1)] BY <2>2
    <3>1. PICK to \in Nat : to = o - (k + 1) /\ to + 1 = o - k /\ to # o /\ to # o + 1 BY <2>2
    <3>2. to \in 0 .. o /\ to \in 0 .. o + 1 /\ to + 1 \in 0 .. o /\ to + 1 \in 0 .. o + 1 /\ to + 1 \in Nat BY <2>2, <3>1
    <3>3. PICK e \in Nat : e = o - (to + 1) /\ e + 1 = (o + 1) - (to + 1) BY <2>2, <3>1
    <3>4. PICK w \in Nat : w = (to + 1) * pow2[e]
      <4>1. pow2[e] \in Nat BY PowerIs
      <4> QED BY <3>2, <4>1
    <3>5. (to + 1) * pow2[e + 1] = 2 * w
      <4>1. pow2[e + 1] = 2 * pow2[e] /\ pow2[e] \in Nat BY PowerIs
      <4>2. (to + 1) * (2 * pow2[e]) = 2 * ((to + 1) * pow2[e]) BY <3>2, <4>1
      <4> QED BY <3>4, <4>1, <4>2
    <3>6. S[to] = S[to + 1] + w /\ S[to + 1] \in Nat BY <1>1, <3>1, <3>2, <3>3, <3>4
    <3>7. T[to] = T[to + 1] + 2 * w /\ T[to + 1] \in Nat BY <1>2, <3>1, <3>2, <3>3, <3>5
    <3>8. S[to + 1] < T[to + 1] BY <2>2, <3>1
    <3>9. S[to] < T[to] BY <3>6, <3>7, <3>8
    <3> QED BY <3>1, <3>9
  <2>3. P \in SUBSET Nat OBVIOUS
  <2> HIDE DEF P
  <2> QED BY <2>1, <2>2, <2>3, NumbersUpwards
<1>4. o - h \in Nat /\ o - h <= o /\ o - (o - h) = h /\ h \in 0 .. o + 1 OBVIOUS
<1>5. S[h] < T[h]
  <2>1. \A k \in Nat : k <= o => S[o - k] < T[o - k] BY <1>3
  <2> QED BY <1>4, <2>1
<1> QED BY <1>1, <1>2, <1>4, <1>5 DEF S, T

\* What a turn of the loop does: w bits from c on move to n, where 2 * w bits belong
\* to the row; what is in front stays, and what is behind.
Moved(b, c, n, w, r) ==
    \A x \in Nat : x \in r <=> \/ x < c /\ x \in b
                               \/ n <= x /\ x < n + w /\ x - (n - c) \in b
                               \/ n + 2 * w <= x /\ x \in b

RowShift(b, c, n, w) == bitset_clear_range(bitset_shift_right(b, c, c + w, n - c), n + w, n + 2 * w - 1)

MovedSet(b, c, n, w, r) == Moved(b, c, n, w, r) /\ r \in SUBSET Nat

LEMMA ShiftMoves ==
    ASSUME NEW b \in SUBSET Nat, NEW c \in Nat, NEW n \in Nat, NEW w \in Nat, c < n, w >= 1,
           NEW r, r = RowShift(b, c, n, w)
    PROVE  MovedSet(b, c, n, w, r)
<1> DEFINE C == {at + (n - c) : at \in b \cap (c .. c + w)}
<1>1. r = (((b \ (c + (n - c) .. c + w + (n - c))) \cup C) \ (c .. c + (n - c) - 1)) \ (n + w .. n + 2 * w - 1)
  BY DEF RowShift, bitset_clear_range, bitset_shift_right
<1>2. c + (n - c) = n /\ c + w + (n - c) = n + w /\ c + (n - c) - 1 = n - 1 OBVIOUS
<1>3. r = (((b \ (n .. n + w)) \cup C) \ (c .. n - 1)) \ (n + w .. n + 2 * w - 1) BY <1>1, <1>2
<1>4. \A x \in Nat : x \in C <=> x - (n - c) \in b /\ c <= x - (n - c) /\ x - (n - c) <= c + w
  <2> SUFFICES ASSUME NEW x \in Nat
               PROVE  x \in C <=> x - (n - c) \in b /\ c <= x - (n - c) /\ x - (n - c) <= c + w
    OBVIOUS
  <2>1. ASSUME x \in C PROVE x - (n - c) \in b /\ c <= x - (n - c) /\ x - (n - c) <= c + w
    <3>1. PICK at \in b \cap (c .. c + w) : x = at + (n - c) BY <2>1
    <3>2. x - (n - c) = at BY <3>1
    <3> QED BY <3>1, <3>2
  <2>2. ASSUME x - (n - c) \in b, c <= x - (n - c), x - (n - c) <= c + w PROVE x \in C
    <3>1. PICK at \in Nat : at = x - (n - c) /\ at + (n - c) = x BY <2>2
    <3> QED BY <2>2, <3>1
  <2> QED BY <2>1, <2>2
<1>5. C \in SUBSET Nat OBVIOUS
<1> HIDE DEF C
<1>6. \A x \in Nat : x \in r <=> /\ ~(c <= x /\ x <= n - 1) /\ ~(n + w <= x /\ x <= n + 2 * w - 1)
                                 /\ x \in C \/ (x \in b /\ ~(n <= x /\ x <= n + w))
  BY <1>3
<1>7. Moved(b, c, n, w, r)
  <2> SUFFICES ASSUME NEW x \in Nat
               PROVE  x \in r <=> \/ x < c /\ x \in b
                                  \/ n <= x /\ x < n + w /\ x - (n - c) \in b
                                  \/ n + 2 * w <= x /\ x \in b
    BY DEF Moved
  <2>1. x \in r <=> /\ ~(c <= x /\ x <= n - 1) /\ ~(n + w <= x /\ x <= n + 2 * w - 1)
                    /\ x \in C \/ (x \in b /\ ~(n <= x /\ x <= n + w))
    BY <1>6
  <2>2. x \in C <=> x - (n - c) \in b /\ n <= x /\ x <= n + w
    <3>1. (c <= x - (n - c) <=> n <= x) /\ (x - (n - c) <= c + w <=> x <= n + w) OBVIOUS
    <3> QED BY <1>4, <3>1
  <2> QED BY <2>1, <2>2
<1>8. r \in SUBSET Nat BY <1>3, <1>5
<1> QED BY <1>7, <1>8 DEF MovedSet

\* The rows of height h: where they start, and the length of the one in the smaller tree.
LEMMA RowGrows ==
    ASSUME NEW o \in 1 .. MaxOrder, o + 1 \in 1 .. MaxOrder, NEW h \in 1 .. o, NEW b \in SUBSET Nat,
           NEW c, c = size_for_order(o)[h], NEW n, n = size_for_order(o + 1)[h],
           NEW w, w = h * pow2[o - h], NEW r, r = GrowRow(b, o, o + 1 - h)
    PROVE  /\ c \in Nat /\ n \in Nat /\ w \in Nat /\ c < n /\ w >= 1
           /\ size_for_order(o)[h - 1] = c + w /\ size_for_order(o + 1)[h - 1] = n + 2 * w
           /\ Moved(b, c, n, w, r) /\ r \in SUBSET Nat
<1>1. /\ o \in Nat /\ o + 1 \in Nat /\ h \in Nat /\ h >= 1 /\ h \in 0 .. o /\ h \in 0 .. o + 1
      /\ h - 1 \in 0 .. o /\ h - 1 \in 0 .. o + 1 /\ h - 1 # o /\ h - 1 # o + 1 /\ (h - 1) + 1 = h
  BY OrderAssumption
<1>2. PICK e \in Nat : e = o - h /\ e + 1 = (o + 1) - h BY <1>1
<1>3. pow2[e] \in Nat /\ pow2[e] >= 1 /\ pow2[e + 1] = 2 * pow2[e] /\ pow2[e + 1] \in Nat BY PowerIs
<1>4. w \in Nat /\ w >= 1 /\ h * pow2[e + 1] = 2 * w
  <2>1. w = h * pow2[e] BY <1>2
  <2>2. h * pow2[e] \in Nat /\ h * (2 * pow2[e]) = 2 * (h * pow2[e]) BY <1>1, <1>3
  <2>3. h * 1 <= h * pow2[e] /\ h * 1 = h BY <1>1, <1>3, TimesMonotone
  <2> QED BY <1>1, <1>3, <2>1, <2>2, <2>3
<1>5. c \in Nat /\ n \in Nat /\ c < n BY <1>1, RowsGrow
<1>6. size_for_order(o)[h - 1] = c + w
  <2>1. size_for_order(o)[h - 1] = size_for_order(o)[(h - 1) + 1] + ((h - 1) + 1) * pow2[o - ((h - 1) + 1)]
    BY <1>1, SizesUnfold
  <2> QED BY <1>1, <2>1
<1>7. size_for_order(o + 1)[h - 1] = n + 2 * w
  <2>1. size_for_order(o + 1)[h - 1] =
          size_for_order(o + 1)[(h - 1) + 1] + ((h - 1) + 1) * pow2[(o + 1) - ((h - 1) + 1)]
    BY <1>1, SizesUnfold
  <2>2. size_for_order(o + 1)[h - 1] = n + h * pow2[e + 1] BY <1>1, <1>2, <2>1
  <2> QED BY <1>4, <2>2
<1> DEFINE d == o + 1 - h
<1>8. d \in Nat /\ d >= 1 /\ d <= o /\ d - 1 = e /\ d + 1 \in Nat /\ (d + 1) - 1 = e + 1 /\ o - d + 1 = h
      /\ (o + 1) - (d + 1) + 1 = h
  BY <1>1, <1>2
<1>9. PICK x : x = leftmost_child(d) OBVIOUS
<1>10. PICK y : y = leftmost_child(d + 1) OBVIOUS
<1>11. x = pow2[e] /\ y = pow2[e + 1] BY <1>8, <1>9, <1>10 DEF leftmost_child
<1>12. x \in Positions(o) /\ Depth[x] = d
  <2>1. e < o /\ e + 1 <= o /\ e + 1 \in Nat BY <1>2, <1>1
  <2>2. pow2[e + 1] <= pow2[o] /\ pow2[o] \in Nat BY <1>1, <2>1, PowerGrows, PowerIs
  <2>3. x \in Positions(o) BY <1>3, <1>11, <2>2 DEF Positions
  <2>4. InRow(x, e + 1) BY <1>3, <1>11, <2>1 DEF InRow
  <2>5. InRow(x, Depth[x]) BY <2>3, DepthIs
  <2>6. e + 1 = d BY <1>8
  <2> QED BY <2>3, <2>4, <2>5, <2>6, <1>3, <1>11, RowUnique
<1>13. y \in Positions(o + 1) /\ Depth[y] = d + 1
  <2>1. (e + 1) + 1 <= o + 1 /\ (e + 1) + 1 \in Nat /\ e + 1 \in Nat BY <1>2, <1>1
  <2>2. pow2[(e + 1) + 1] <= pow2[o + 1] /\ pow2[o + 1] \in Nat /\ pow2[(e + 1) + 1] = 2 * pow2[e + 1]
    BY <1>1, <2>1, PowerGrows, PowerIs
  <2>3. y \in Positions(o + 1) BY <1>3, <1>11, <2>2 DEF Positions
  <2>4. InRow(y, (e + 1) + 1) BY <1>3, <1>11, <2>1, <2>2 DEF InRow
  <2>5. InRow(y, Depth[y]) BY <2>3, DepthIs
  <2>6. (e + 1) + 1 = d + 1 BY <1>8
  <2> QED BY <2>3, <2>4, <2>5, <2>6, <1>3, <1>11, RowUnique
<1>14. internal_position[o][x].local_offset = h /\ internal_position[o][x].at = c
  <2>1. /\ internal_position[o][x].local_offset = o - d + 1
        /\ internal_position[o][x].at = size_for_order(o)[o - d + 1] + (o - d + 1) * (x - pow2[d - 1])
    BY <1>12, FieldIs
  <2>2. x - pow2[d - 1] = 0 BY <1>3, <1>8, <1>11
  <2>3. h * 0 = 0 BY <1>1
  <2> QED BY <1>5, <1>8, <2>1, <2>2, <2>3
<1>15. internal_position[o + 1][y].local_offset = h /\ internal_position[o + 1][y].at = n
  <2>1. /\ internal_position[o + 1][y].local_offset = (o + 1) - (d + 1) + 1
        /\ internal_position[o + 1][y].at =
             size_for_order(o + 1)[(o + 1) - (d + 1) + 1] + ((o + 1) - (d + 1) + 1) * (y - pow2[(d + 1) - 1])
    BY <1>13, FieldIs
  <2>2. y - pow2[(d + 1) - 1] = 0 BY <1>3, <1>8, <1>11
  <2>3. h * 0 = 0 BY <1>1
  <2> QED BY <1>5, <1>8, <2>1, <2>2, <2>3
<1>16. h * pow2[d - 1] = w BY <1>2, <1>8
<1>17. r = RowShift(b, c, n, w)
  <2> HIDE DEF d
  <2>1. GrowRow(b, o, d) = bitset_clear_range(
            bitset_shift_right(b, c, c + h * pow2[d - 1], n - c),
            n + h * pow2[d - 1], n + 2 * (h * pow2[d - 1]) - 1)
    BY <1>9, <1>10, <1>14, <1>15, Zenon DEF GrowRow
  <2>2. r = GrowRow(b, o, d) BY DEF d
  <2> QED BY <1>16, <2>1, <2>2, Zenon DEF RowShift
<1>18. Moved(b, c, n, w, r) /\ r \in SUBSET Nat
  <2> HIDE DEF d
  <2>1. c \in Nat /\ n \in Nat /\ w \in Nat /\ c < n /\ w >= 1 BY <1>4, <1>5
  <2>2. MovedSet(b, c, n, w, r) BY <1>17, <2>1, ShiftMoves, Zenon
  <2> QED BY <2>2 DEF MovedSet
<1> QED BY <1>4, <1>5, <1>6, <1>7, <1>18, Zenon

\* The loop of GrowOnce, by the number of rows it has moved.
GrowLoop(t) ==
    LET grown[i \in 0 .. t.order] ==
            IF i = 0 THEN t.bits ELSE GrowRow(grown[i - 1], t.order, t.order + 1 - i)
    IN  grown

LEMMA GrowLoopUnfolds ==
    ASSUME NEW o \in 1 .. MaxOrder, o + 1 \in 1 .. MaxOrder, NEW t \in Trees, t.order = o
    PROVE  /\ GrowOnce(t) = update_parent_chain[<<Trim(o + 1, GrowLoop(t)[o]), right_child(1), 0>>]
           /\ \A i \in 0 .. o : GrowLoop(t)[i] \in SUBSET Nat
           /\ GrowLoop(t)[0] = t.bits
           /\ \A i \in 1 .. o : GrowLoop(t)[i] = GrowRow(GrowLoop(t)[i - 1], o, o + 1 - i)
<1> DEFINE D == 0 .. o
           T == SUBSET Nat
           Go(x, i) == GrowRow(x, o, o + 1 - i)
           Step(i, f) == IF i = 0 THEN t.bits ELSE Go(f[i - 1], i)
           m == [i \in D |-> i]
           G == [i \in D |-> [f \in [D -> T] |-> Step(i, f)]]
<1>0. o \in Nat /\ t.order = o /\ t.bits \in T BY OrderAssumption DEF Trees
<1>1. ASSUME NEW i \in D, i # 0 PROVE i - 1 \in D /\ i - 1 < i BY <1>0, <1>1
<1>2. ASSUME NEW i \in D, i # 0, NEW x \in T PROVE Go(x, i) \in T
  <2>1. i \in 1 .. o BY <1>0, <1>2
  <2> QED BY <2>1, RowGrows
<1> HIDE DEF Go
<1>3. G \in [D -> [[D -> T] -> T]]
  <2> SUFFICES ASSUME NEW i \in D, NEW f \in [D -> T] PROVE Step(i, f) \in T OBVIOUS
  <2>1. CASE i = 0 BY <1>0, <2>1
  <2>2. CASE i # 0
    <3>1. f[i - 1] \in T BY <1>1, <2>2
    <3> HIDE DEF T
    <3>2. Go(f[i - 1], i) \in T BY <1>2, <2>2, <3>1
    <3> QED BY <2>2, <3>2
  <2> QED BY <2>1, <2>2
<1>4. Descends(D, T, m, G)
  <2> SUFFICES ASSUME NEW i \in D, NEW f \in [D -> T], NEW g \in [D -> T],
                      \A j \in D : m[j] < m[i] => f[j] = g[j]
               PROVE  Step(i, f) = Step(i, g)
    BY DEF Descends
  <2>1. i # 0 => f[i - 1] = g[i - 1] BY <1>1
  <2> QED BY <2>1
<1>5. PICK f : Solves(D, T, G, f)
  <2>1. m \in [D -> Nat] OBVIOUS
  <2>2. T # {} OBVIOUS
  <2>3. WellDefined(D, T, m, G) BY <1>3, <1>4, <2>1, <2>2 DEF WellDefined
  <2> HIDE DEF D, T, m, G
  <2> QED BY <2>3, RecursionExists, Zenon
<1>6. f \in [D -> T] /\ f = [i \in D |-> Step(i, f)] BY <1>5 DEF Solves
<1> DEFINE L == GrowLoop(t)
           U(h) == h = [i \in D |-> Step(i, h)]
<1>7. L = CHOOSE h : U(h) BY <1>0, Zenon DEF GrowLoop, Go
<1>8. U(L) BY <1>6, <1>7, Zenon
<1>9. GrowOnce(t) = update_parent_chain[<<Trim(o + 1, L[o]), right_child(1), 0>>]
  BY <1>0, Zenon DEF GrowOnce, GrowLoop
<1> HIDE DEF L
<1>10. \A i \in D : L[i] = Step(i, L) BY <1>8, Zenon
<1>11. L[0] = t.bits
  <2>1. 0 \in D BY <1>0
  <2> QED BY <1>10, <2>1
<1>12. ASSUME NEW i \in 1 .. o PROVE L[i] = Go(L[i - 1], i)
  <2>1. i \in D /\ i # 0 BY <1>0
  <2> QED BY <1>10, <2>1, Zenon
<1>13. \A i \in D : L[i] \in T
  <2> DEFINE P == {n \in Nat : n \in D => L[n] \in T}
  <2>1. 0 \in P BY <1>0, <1>11
  <2>2. ASSUME NEW n \in P PROVE n + 1 \in P
    <3> SUFFICES ASSUME n + 1 \in D PROVE L[n + 1] \in T BY <2>2
    <3>1. n \in D /\ n + 1 # 0 /\ (n + 1) - 1 = n /\ n + 1 \in 1 .. o BY <1>0, <2>2
    <3>2. L[n] \in T BY <2>2, <3>1
    <3>3. L[n + 1] = Go(L[n], n + 1) BY <1>12, <3>1
    <3> HIDE DEF T
    <3> QED BY <1>2, <3>1, <3>2, <3>3
  <2>3. P \in SUBSET Nat OBVIOUS
  <2> HIDE DEF P
  <2>4. P = Nat BY <2>1, <2>2, <2>3, NumbersUpwards
  <2> QED BY <1>0, <2>4 DEF P
<1> QED BY <1>9, <1>11, <1>12, <1>13, Zenon DEF L, Go

\* After i turns the rows of heights 1 .. i are where they belong, with nothing in
\* their right halves, and the higher rows have not been touched.
RowsMoved(o, bits, i, b) ==
    /\ \A x \in Nat : x < size_for_order(o)[i] => (x \in b <=> x \in bits)
    /\ \A h \in 1 .. i : \A j \in Nat : j < 2 * (h * pow2[o - h]) =>
         (size_for_order(o + 1)[h] + j \in b <=> j < h * pow2[o - h] /\ size_for_order(o)[h] + j \in bits)

LEMMA RowTurn ==
    ASSUME NEW o \in 1 .. MaxOrder, o + 1 \in 1 .. MaxOrder, NEW bits \in SUBSET Nat, NEW b \in SUBSET Nat,
           NEW i \in Nat, i + 1 <= o, RowsMoved(o, bits, i, b), NEW r, r = GrowRow(b, o, o + 1 - (i + 1))
    PROVE  RowsMoved(o, bits, i + 1, r)
<1>1. PICK k \in 1 .. o : k = i + 1 /\ k - 1 = i BY OrderAssumption
<1>2. PICK c, n, w : c = size_for_order(o)[k] /\ n = size_for_order(o + 1)[k] /\ w = k * pow2[o - k] OBVIOUS
<1>3. r = GrowRow(b, o, o + 1 - k) BY <1>1
<1>4. /\ c \in Nat /\ n \in Nat /\ w \in Nat /\ c < n /\ w >= 1
      /\ size_for_order(o)[k - 1] = c + w /\ size_for_order(o + 1)[k - 1] = n + 2 * w
      /\ Moved(b, c, n, w, r)
  BY <1>2, <1>3, RowGrows
<1>5. size_for_order(o)[i] = c + w /\ size_for_order(o + 1)[i] = n + 2 * w BY <1>1, <1>4
<1>6. \A x \in Nat : x \in r <=> \/ x < c /\ x \in b
                                 \/ n <= x /\ x < n + w /\ x - (n - c) \in b
                                 \/ n + 2 * w <= x /\ x \in b
  BY <1>4 DEF Moved
<1>7. \A x \in Nat : x < c + w => (x \in b <=> x \in bits) BY <1>5 DEF RowsMoved
<1>8. \A x \in Nat : x < c => (x \in r <=> x \in bits) BY <1>4, <1>6, <1>7
<1>10. ASSUME NEW j \in Nat, j < 2 * w PROVE n + j \in r <=> j < w /\ c + j \in bits
  <2>1. n + j \in Nat /\ (n + j) - (n - c) = c + j /\ c + j \in Nat BY <1>4
  <2>2. n + j \in r <=> \/ n + j < c /\ n + j \in b
                        \/ n <= n + j /\ n + j < n + w /\ c + j \in b
                        \/ n + 2 * w <= n + j /\ n + j \in b
    BY <1>6, <2>1
  <2>3. n + j \in r <=> j < w /\ c + j \in b BY <1>4, <1>10, <2>2
  <2>4. j < w => (c + j \in b <=> c + j \in bits) BY <1>4, <1>7, <2>1
  <2> QED BY <2>3, <2>4
<1>11. ASSUME NEW h \in 1 .. i, NEW j \in Nat, j < 2 * (h * pow2[o - h])
       PROVE  size_for_order(o + 1)[h] + j \in r <=> j < h * pow2[o - h] /\ size_for_order(o)[h] + j \in bits
  <2>1. size_for_order(o + 1)[h] + j \in b <=> j < h * pow2[o - h] /\ size_for_order(o)[h] + j \in bits
    BY <1>11 DEF RowsMoved
  <2>2. PICK x \in Nat : x = size_for_order(o + 1)[h] + j /\ n + 2 * w <= x
    <3>1. o + 1 \in Nat /\ h \in 0 .. o + 1 /\ i \in 0 .. o + 1 /\ h <= i BY OrderAssumption
    <3>2. size_for_order(o + 1)[i] <= size_for_order(o + 1)[h] BY <3>1, RowsDescend
    <3>3. size_for_order(o + 1)[h] \in Nat BY <3>1, SizesUnfold
    <3>4. PICK s \in Nat : s = size_for_order(o + 1)[h] BY <3>3
    <3>5. n + 2 * w <= s /\ s + j \in Nat BY <1>4, <1>5, <3>2, <3>4
    <3>6. n + 2 * w <= s + j BY <1>4, <3>5
    <3> QED BY <3>4, <3>5, <3>6
  <2>3. x \in r <=> x \in b BY <1>4, <1>6, <2>2
  <2> QED BY <2>1, <2>2, <2>3
<1>12. RowsMoved(o, bits, k, r)
  <2>1. \A x \in Nat : x < size_for_order(o)[k] => (x \in r <=> x \in bits) BY <1>2, <1>8
  <2>2. ASSUME NEW h \in 1 .. k, NEW j \in Nat, j < 2 * (h * pow2[o - h])
        PROVE  size_for_order(o + 1)[h] + j \in r <=> j < h * pow2[o - h] /\ size_for_order(o)[h] + j \in bits
    <3>1. CASE h = k BY <1>2, <1>10, <2>2, <3>1
    <3>2. CASE h # k
      <4>1. h \in 1 .. i BY <1>1, <3>2
      <4> QED BY <1>11, <2>2, <4>1
    <3> QED BY <3>1, <3>2
  <2> QED BY <2>1, <2>2 DEF RowsMoved
<1> QED BY <1>1, <1>12

LEMMA RowsAllMoved ==
    ASSUME NEW o \in 1 .. MaxOrder, o + 1 \in 1 .. MaxOrder, NEW t \in TreesOf(o)
    PROVE  RowsMoved(o, t.bits, o, GrowLoop(t)[o]) /\ GrowLoop(t)[o] \in SUBSET Nat
<1>0. o \in Nat /\ o >= 1 /\ t.bits \in SUBSET Nat /\ t \in Trees /\ t.order = o BY OrderAssumption DEF TreesOf, Trees
<1> DEFINE L == GrowLoop(t)
           P == {i \in Nat : i <= o => RowsMoved(o, t.bits, i, L[i])}
<1>1. /\ \A i \in 0 .. o : L[i] \in SUBSET Nat
      /\ L[0] = t.bits
      /\ \A i \in 1 .. o : L[i] = GrowRow(L[i - 1], o, o + 1 - i)
  BY <1>0, GrowLoopUnfolds
<1> HIDE DEF L
<1>2. 0 \in P
  <2>1. RowsMoved(o, t.bits, 0, L[0])
    <3>1. 1 .. 0 = {} OBVIOUS
    <3> QED BY <1>1, <3>1 DEF RowsMoved
  <2> QED BY <2>1
<1>3. ASSUME NEW i \in P PROVE i + 1 \in P
  <2> SUFFICES ASSUME i + 1 <= o PROVE RowsMoved(o, t.bits, i + 1, L[i + 1]) BY <1>3
  <2>1. i \in Nat /\ i \in 0 .. o /\ i + 1 \in 1 .. o /\ (i + 1) - 1 = i BY <1>0, <1>3
  <2>2. RowsMoved(o, t.bits, i, L[i]) BY <1>0, <1>3, <2>1
  <2>3. L[i] \in SUBSET Nat /\ L[i + 1] = GrowRow(L[i], o, o + 1 - (i + 1)) BY <1>1, <2>1
  <2>4. PICK bits, b, r : bits = t.bits /\ b = L[i] /\ r = L[i + 1] OBVIOUS
  <2>5. bits \in SUBSET Nat /\ b \in SUBSET Nat /\ RowsMoved(o, bits, i, b) /\ r = GrowRow(b, o, o + 1 - (i + 1))
    BY <1>0, <2>2, <2>3, <2>4
  <2>6. RowsMoved(o, bits, i + 1, r)
    BY <2>1, <2>5, RowTurn, Zenon
  <2> QED BY <2>4, <2>6
<1>4. P \in SUBSET Nat OBVIOUS
<1>5. P = Nat
  <2> HIDE DEF P
  <2> QED BY <1>2, <1>3, <1>4, NumbersUpwards
<1>6. RowsMoved(o, t.bits, o, L[o]) BY <1>0, <1>5
<1>7. L[o] \in SUBSET Nat BY <1>0, <1>1
<1> QED BY <1>6, <1>7, Zenon DEF L

\* Reading a field depends on its bits, not on where they are.
SameBits(b, x, c, y) ==
    /\ x.at \in Nat /\ y.at \in Nat /\ x.local_offset \in Nat /\ x.local_offset >= 1
    /\ y.local_offset = x.local_offset
    /\ \A j \in Nat : j < x.local_offset => (x.at + j \in b <=> y.at + j \in c)

LEMMA ReadMoved ==
    ASSUME NEW b, NEW c, NEW x, NEW y, SameBits(b, x, c, y)
    PROVE  read_from(c, y) = read_from(b, x)
<1>1. PICK a \in Nat, e \in Nat, h \in Nat :
        a = x.at /\ e = y.at /\ h = x.local_offset /\ h = y.local_offset /\ h >= 1
  BY DEF SameBits
<1>2. \A j \in Nat : j < h => (a + j \in b <=> e + j \in c) BY <1>1 DEF SameBits
<1> DEFINE I == a .. a + h - 1
           A == b \cap I
           E == c \cap (e .. e + h - 1)
           f == [i \in A |-> i + (e - a)]
<1>3. a \in b <=> e \in c
  <2>1. 0 \in Nat /\ 0 < h /\ a + 0 = a /\ e + 0 = e BY <1>1
  <2> QED BY <1>2, <2>1
<1>4. Cardinality(E) = Cardinality(A)
  <2>1. IsFiniteSet(A)
    <3>1. a \in Int /\ a + h - 1 \in Int OBVIOUS
    <3>2. IsFiniteSet(I) BY <3>1, FS_Interval
    <3>3. A \in SUBSET I OBVIOUS
    <3> HIDE DEF A, I
    <3> QED BY <3>2, <3>3, FS_Subset
  <2>2. ASSUME NEW i \in A PROVE i \in Int /\ i + (e - a) \in E
    <3>1. PICK j \in Nat : j = i - a /\ j < h /\ a + j = i /\ e + j = i + (e - a) BY <2>2
    <3>2. e + j \in c BY <1>2, <2>2, <3>1
    <3> QED BY <3>1, <3>2
  <2>3. ASSUME NEW k \in E PROVE \E i \in A : i + (e - a) = k
    <3>1. PICK j \in Nat : j = k - e /\ j < h /\ e + j = k /\ (a + j) + (e - a) = k BY <2>3
    <3>2. a + j \in b BY <1>2, <2>3, <3>1
    <3>3. a + j \in A BY <3>1, <3>2
    <3> QED BY <3>1, <3>3
  <2>4. \A i, k \in A : i + (e - a) = k + (e - a) => i = k BY <2>2
  <2> HIDE DEF A, E
  <2>5. f \in [A -> E] BY <2>2
  <2>6. \A k \in E : \E i \in A : f[i] = k BY <2>3
  <2>7. \A i, k \in A : f[i] = f[k] => i = k BY <2>4
  <2> HIDE DEF f
  <2>8. f \in Bijection(A, E) BY <2>5, <2>6, <2>7 DEF Bijection, Injection, Surjection, IsInjective
  <2>9. ExistsBijection(A, E) BY <2>8 DEF ExistsBijection
  <2> QED BY <2>1, <2>9, FS_Bijection
<1>5. read_from(b, x) = IF a \notin b THEN 0 ELSE Cardinality(A)
  BY <1>1, Zenon DEF read_from, bitset_count_range
<1>6. read_from(c, y) = IF e \notin c THEN 0 ELSE Cardinality(E)
  BY <1>1, Zenon DEF read_from, bitset_count_range
<1> HIDE DEF A, E
<1>7. CASE a \in b BY <1>3, <1>4, <1>5, <1>6, <1>7
<1>8. CASE a \notin b BY <1>3, <1>5, <1>6, <1>8
<1> QED BY <1>7, <1>8

\* The position of the larger tree that covers the same slots.
Lift(p) == p + pow2[Depth[p] - 1]
\* The positions of the right half.
RightHalf(q) == Depth[q] >= 2 /\ q - pow2[Depth[q] - 1] >= pow2[Depth[q] - 2]

LEMMA LiftIs ==
    ASSUME NEW o \in 1 .. MaxOrder, o + 1 \in 1 .. MaxOrder, NEW p \in Positions(o)
    PROVE  /\ Lift(p) \in Positions(o + 1) /\ Depth[Lift(p)] = Depth[p] + 1 /\ Lift(p) # 1
           /\ Lift(p) - pow2[(Depth[p] + 1) - 1] = p - pow2[Depth[p] - 1]
           /\ Width(o + 1, Lift(p)) = Width(o, p) /\ Lo(o + 1, Lift(p)) = Lo(o, p)
<1>1. o \in Nat /\ o + 1 \in Nat /\ p \in Nat /\ p >= 1 /\ InRow(p, Depth[p]) /\ Depth[p] <= o
  BY OrderAssumption, PositionIs, DepthIs
<1>2. PICK d \in Nat : d = Depth[p] /\ d >= 1 /\ d <= o /\ pow2[d - 1] <= p /\ p < pow2[d] BY <1>1 DEF InRow
<1>3. PICK e \in Nat : e = d - 1 /\ e + 1 = d /\ (d + 1) - 1 = d /\ d + 1 \in Nat BY <1>2
<1>4. PICK w \in Nat : w = pow2[e] /\ w >= 1 /\ pow2[d] = 2 * w /\ pow2[d + 1] = 4 * w
  <2>1. pow2[e] \in Nat /\ pow2[e] >= 1 /\ pow2[e + 1] = 2 * pow2[e] /\ pow2[d + 1] = 2 * pow2[d] BY PowerIs
  <2> QED BY <1>3, <2>1
<1>5. PICK q \in Nat : q = Lift(p) /\ q = p + w BY <1>1, <1>2, <1>3, <1>4 DEF Lift
<1>6. InRow(q, d + 1) BY <1>1, <1>2, <1>3, <1>4, <1>5 DEF InRow
<1>7. q \in Positions(o + 1)
  <2>1. pow2[d + 1] <= pow2[o + 1] /\ pow2[o + 1] \in Nat
    <3>1. d + 1 <= o + 1 BY <1>1, <1>2
    <3> QED BY <1>1, <1>3, <3>1, PowerGrows, PowerIs
  <2> QED BY <1>2, <1>4, <1>5, <2>1 DEF Positions
<1>8. Depth[q] = d + 1
  <2>1. InRow(q, Depth[q]) BY <1>7, DepthIs
  <2> QED BY <1>6, <2>1, RowUnique
<1>9. q # 1 BY <1>1, <1>4, <1>5
<1>10. q - pow2[(d + 1) - 1] = p - pow2[d - 1] BY <1>1, <1>2, <1>3, <1>4, <1>5
<1>11. Width(o + 1, q) = Width(o, p)
  <2>1. (o + 1) - (d + 1) = o - d BY <1>1
  <2> QED BY <1>2, <1>8, <2>1 DEF Width
<1>12. Lo(o + 1, q) = Lo(o, p) BY <1>2, <1>8, <1>10, <1>11, Zenon DEF Lo
<1> QED BY <1>2, <1>5, <1>7, <1>8, <1>9, <1>10, <1>11, <1>12

LEMMA LiftChildren ==
    ASSUME NEW o \in 1 .. MaxOrder, o + 1 \in 1 .. MaxOrder, NEW p \in Positions(o), Depth[p] < o
    PROVE  /\ left_child(p) \in Positions(o) /\ right_child(p) \in Positions(o)
           /\ left_child(Lift(p)) = Lift(left_child(p)) /\ right_child(Lift(p)) = Lift(right_child(p))
<1>1. /\ left_child(p) \in Positions(o) /\ right_child(p) \in Positions(o)
      /\ Depth[left_child(p)] = Depth[p] + 1 /\ Depth[right_child(p)] = Depth[p] + 1
  BY ChildSlots
<1>2. p \in Nat /\ InRow(p, Depth[p]) BY PositionIs, DepthIs
<1>3. PICK d \in Nat : d = Depth[p] /\ d >= 1 BY <1>2 DEF InRow
<1>4. PICK e \in Nat : e = d - 1 /\ e + 1 = (d + 1) - 1 BY <1>3
<1>5. PICK w \in Nat : w = pow2[e] /\ pow2[e + 1] = 2 * w BY PowerIs
<1>6. Lift(p) = p + w BY <1>3, <1>4, <1>5 DEF Lift
<1>7. Lift(left_child(p)) = 2 * p + 2 * w BY <1>1, <1>3, <1>4, <1>5 DEF Lift, left_child
<1>8. Lift(right_child(p)) = 2 * p + 1 + 2 * w BY <1>1, <1>3, <1>4, <1>5 DEF Lift, right_child
<1>9. left_child(Lift(p)) = 2 * (p + w) /\ right_child(Lift(p)) = 2 * (p + w) + 1
  BY <1>6 DEF left_child, right_child
<1>10. 2 * (p + w) = 2 * p + 2 * w /\ 2 * (p + w) + 1 = 2 * p + 1 + 2 * w BY <1>2
<1> QED BY <1>1, <1>7, <1>8, <1>9, <1>10

\* A position of the larger tree is its root, or in the left half, or in the right one.
LEMMA LiftOrRight ==
    ASSUME NEW o \in 1 .. MaxOrder, o + 1 \in 1 .. MaxOrder, NEW q \in Positions(o + 1), q # 1
    PROVE  (\E p \in Positions(o) : q = Lift(p)) \/ RightHalf(q)
<1>1. o \in Nat /\ q \in Nat /\ q >= 1 /\ InRow(q, Depth[q]) /\ Depth[q] <= o + 1
  BY OrderAssumption, PositionIs, DepthIs
<1>2. PICK d \in Nat : d = Depth[q] /\ d >= 1 /\ d <= o + 1 /\ pow2[d - 1] <= q /\ q < pow2[d] BY <1>1 DEF InRow
<1>3. d >= 2
  <2>1. d = 1 => q < 2 BY <1>2, PowerTable
  <2> QED BY <1>1, <1>2, <2>1
<1>4. PICK e \in Nat : e = d - 2 /\ e + 1 = d - 1 /\ (e + 1) + 1 = d /\ e + 1 \in Nat /\ (e + 1) - 1 = e BY <1>3
<1>5. PICK w \in Nat : w = pow2[e] /\ pow2[e + 1] = 2 * w /\ pow2[d] = 4 * w /\ w >= 1
  <2>1. pow2[e] \in Nat /\ pow2[e] >= 1 /\ pow2[e + 1] = 2 * pow2[e] /\ pow2[(e + 1) + 1] = 2 * pow2[e + 1] BY <1>4, PowerIs
  <2> QED BY <1>4, <2>1
<1>6. CASE q - 2 * w >= w BY <1>2, <1>3, <1>4, <1>5, <1>6 DEF RightHalf
<1>7. CASE q - 2 * w < w
  <2>1. PICK p \in Nat : p = q - w /\ p >= w /\ p < 2 * w /\ p + w = q BY <1>1, <1>2, <1>4, <1>5, <1>7
  <2>2. InRow(p, e + 1) BY <1>4, <1>5, <2>1 DEF InRow
  <2>3. p \in Positions(o)
    <3>1. e + 1 <= o BY <1>1, <1>2, <1>4
    <3>2. pow2[e + 1] <= pow2[o] /\ pow2[o] \in Nat BY <1>1, <1>4, <3>1, PowerGrows, PowerIs
    <3> QED BY <1>5, <2>1, <3>2 DEF Positions
  <2>4. Depth[p] = e + 1
    <3>1. InRow(p, Depth[p]) BY <2>3, DepthIs
    <3> QED BY <2>2, <3>1, RowUnique
  <2>5. Lift(p) = q BY <1>4, <1>5, <2>1, <2>4 DEF Lift
  <2> QED BY <2>3, <2>5
<1>8. q - 2 * w \in Int BY <1>1
<1> QED BY <1>6, <1>7, <1>8

LEMMA RightChildren ==
    ASSUME NEW o \in 1 .. MaxOrder, NEW q \in Positions(o), Depth[q] < o, RightHalf(q)
    PROVE  RightHalf(left_child(q)) /\ RightHalf(right_child(q))
<1>1. Depth[left_child(q)] = Depth[q] + 1 /\ Depth[right_child(q)] = Depth[q] + 1 BY ChildSlots
<1>2. q \in Nat /\ InRow(q, Depth[q]) BY PositionIs, DepthIs
<1>3. PICK d \in Nat : d = Depth[q] /\ d >= 2 BY <1>2 DEF InRow, RightHalf
<1>4. PICK e \in Nat : e = d - 2 /\ e + 1 = d - 1 /\ (d + 1) - 1 = d /\ (d + 1) - 2 = e + 1 /\ (e + 1) + 1 = d /\ e + 1 \in Nat
  BY <1>3
<1>5. PICK w \in Nat : w = pow2[e] /\ pow2[e + 1] = 2 * w /\ pow2[d] = 4 * w
  <2>1. pow2[e] \in Nat /\ pow2[e + 1] = 2 * pow2[e] /\ pow2[(e + 1) + 1] = 2 * pow2[e + 1] BY <1>4, PowerIs
  <2> QED BY <1>4, <2>1
<1>6. q - 2 * w >= w BY <1>3, <1>4, <1>5 DEF RightHalf
<1>7. 2 * q - 4 * w >= 2 * w /\ (2 * q + 1) - 4 * w >= 2 * w BY <1>2, <1>6
<1>8. RightHalf(2 * q)
  <2>1. Depth[2 * q] = d + 1 BY <1>1, <1>3 DEF left_child
  <2> QED BY <1>3, <1>4, <1>5, <1>7, <2>1 DEF RightHalf
<1>9. RightHalf(2 * q + 1)
  <2>1. Depth[2 * q + 1] = d + 1 BY <1>1, <1>3 DEF right_child
  <2> QED BY <1>3, <1>4, <1>5, <1>7, <2>1 DEF RightHalf
<1> QED BY <1>8, <1>9 DEF left_child, right_child

\* The tree between the loop of GrowOnce and the update of its root.
LEMMA RowsInPlace ==
    ASSUME NEW o \in 1 .. MaxOrder, o + 1 \in 1 .. MaxOrder, NEW t \in TreesOf(o),
           NEW u, u = Trim(o + 1, GrowLoop(t)[o])
    PROVE  /\ u \in TreesOf(o + 1)
           /\ \A p \in Positions(o) : tree_status(u, Lift(p)) = tree_status(t, p)
           /\ \A q \in Positions(o + 1) : RightHalf(q) => tree_status(u, q) = 0
<1>1. o \in Nat /\ o >= 1 /\ o + 1 \in Nat /\ t.order = o BY OrderAssumption DEF TreesOf
<1>2. PICK L : L = GrowLoop(t)[o] OBVIOUS
<1>3. RowsMoved(o, t.bits, o, L) /\ L \in SUBSET Nat BY <1>2, RowsAllMoved
<1>4. PICK top \in Nat : top = size_for_order(o + 1)[0] /\ top = SizeForOrder[o + 1][0]
  <2>1. 0 \in 0 .. o + 1 BY <1>1
  <2>2. size_for_order(o + 1)[0] \in Nat BY <1>1, <2>1, SizesUnfold
  <2>3. SizeForOrder[o + 1] = size_for_order(o + 1) BY Zenon DEF SizeForOrder
  <2> QED BY <2>2, <2>3
<1>5. u.order = o + 1 /\ u.bits = L \cap (0 .. top - 1) BY <1>2, <1>4 DEF Trim
<1>6. u \in TreesOf(o + 1)
  <2>1. u = [order |-> o + 1, bits |-> L \cap (0 .. top - 1)] BY <1>2, <1>4 DEF Trim
  <2>2. L \cap (0 .. top - 1) \in SUBSET Nat BY <1>3
  <2>3. u \in Trees BY <2>1, <2>2 DEF Trees
  <2> QED BY <1>4, <1>5, <2>3 DEF TreesOf
<1>7. \A h \in 1 .. o : \A j \in Nat : j < 2 * (h * pow2[o - h]) =>
        (size_for_order(o + 1)[h] + j \in L <=> j < h * pow2[o - h] /\ size_for_order(o)[h] + j \in t.bits)
  BY <1>3 DEF RowsMoved
<1>8. ASSUME NEW p \in Positions(o) PROVE tree_status(u, Lift(p)) = tree_status(t, p)
  <2>1. PICK d, q : d = Depth[p] /\ q = Lift(p) OBVIOUS
  <2>2. PICK x, y : x = internal_position[o][p] /\ y = internal_position[o + 1][q] OBVIOUS
  <2>3. q \in Positions(o + 1) /\ Depth[q] = d + 1 /\ q - pow2[(d + 1) - 1] = p - pow2[d - 1]
    BY <2>1, LiftIs
  <2>4. /\ d \in Nat /\ 1 <= d /\ d <= o /\ p - pow2[d - 1] \in Nat /\ p - pow2[d - 1] < pow2[d - 1]
        /\ x.local_offset = o - d + 1
        /\ x.at = size_for_order(o)[o - d + 1] + (o - d + 1) * (p - pow2[d - 1])
    BY <2>1, <2>2, FieldIs
  <2>5. /\ y.local_offset = (o + 1) - (d + 1) + 1
        /\ y.at = size_for_order(o + 1)[(o + 1) - (d + 1) + 1] + ((o + 1) - (d + 1) + 1) * (q - pow2[(d + 1) - 1])
    BY <2>2, <2>3, FieldIs
  <2>6. PICK h \in 1 .. o : h = o - d + 1 /\ h = (o + 1) - (d + 1) + 1 /\ o - h = d - 1 /\ h \in Nat /\ h >= 1
    BY <1>1, <2>4
  <2>7. PICK k \in Nat, w \in Nat : k = p - pow2[d - 1] /\ w = pow2[o - h] /\ k + 1 <= w
    <3>1. d - 1 \in Nat BY <2>4
    <3>2. pow2[d - 1] \in Nat BY <3>1, PowerIs
    <3> QED BY <2>4, <2>6, <3>2
  <2>8. x.local_offset = h /\ x.at = size_for_order(o)[h] + h * k BY <2>4, <2>6, <2>7
  <2>9. y.local_offset = h /\ y.at = size_for_order(o + 1)[h] + h * k BY <2>3, <2>5, <2>6, <2>7
  <2>10. x.at \in Nat BY <2>2, <2>8, FieldInRow
  <2>11. y.at \in Nat /\ y.at + h <= top
    <3>1. y.at \in Nat /\ y.at + h <= size_for_order(o + 1)[h - 1] BY <2>2, <2>3, <2>9, FieldInRow
    <3>2. h - 1 \in 0 .. o + 1 /\ 0 \in 0 .. o + 1 /\ 0 <= h - 1 BY <1>1, <2>6
    <3>3. size_for_order(o + 1)[h - 1] <= size_for_order(o + 1)[0] /\ size_for_order(o + 1)[h - 1] \in Nat
      BY <1>1, <3>2, RowsDescend, SizesUnfold
    <3> QED BY <1>4, <2>6, <3>1, <3>3
  <2>12. PICK a \in Nat, b \in Nat : a = size_for_order(o)[h] /\ b = size_for_order(o + 1)[h]
    <3>1. h \in 0 .. o BY <1>1, <2>6
    <3> QED BY <1>1, <3>1, RowsGrow
  <2>13. PICK m \in Nat, r \in Nat : m = h * k /\ r = h * w /\ m + h <= r
    <3>1. h * (k + 1) <= h * w /\ h * (k + 1) = h * k + h BY <2>6, <2>7, TimesMonotone, TimesSuccessor
    <3>2. h * k \in Nat /\ h * w \in Nat BY <2>6, <2>7
    <3> QED BY <3>1, <3>2
  <2>14. ASSUME NEW j \in Nat, j < h PROVE x.at + j \in t.bits <=> y.at + j \in u.bits
    <3>1. m + j \in Nat /\ m + j < r /\ m + j < 2 * r BY <2>6, <2>13, <2>14
    <3>2. b + (m + j) \in L <=> m + j < r /\ a + (m + j) \in t.bits BY <1>7, <2>6, <2>7, <2>12, <2>13, <3>1
    <3>3. x.at + j = a + (m + j) /\ y.at + j = b + (m + j) BY <2>8, <2>9, <2>12, <2>13
    <3>4. y.at + j \in 0 .. top - 1 BY <2>6, <2>11, <2>14
    <3> QED BY <1>5, <3>1, <3>2, <3>3, <3>4
  <2>15. SameBits(t.bits, x, u.bits, y) BY <2>6, <2>8, <2>9, <2>10, <2>11, <2>14 DEF SameBits
  <2>16. read_from(u.bits, y) = read_from(t.bits, x) BY <2>15, ReadMoved
  <2>17. tree_status(u, q) = read_from(u.bits, y) BY <1>5, <2>2, Zenon DEF tree_status
  <2>18. tree_status(t, p) = read_from(t.bits, x) BY <1>1, <2>2, Zenon DEF tree_status
  <2> QED BY <2>1, <2>16, <2>17, <2>18
<1>9. ASSUME NEW q \in Positions(o + 1), RightHalf(q) PROVE tree_status(u, q) = 0
  <2>1. PICK d : d = Depth[q] OBVIOUS
  <2>2. PICK y : y = internal_position[o + 1][q] OBVIOUS
  <2>3. /\ d \in Nat /\ d <= o + 1 /\ q \in Nat /\ q - pow2[d - 1] < pow2[d - 1]
        /\ y.at = size_for_order(o + 1)[(o + 1) - d + 1] + ((o + 1) - d + 1) * (q - pow2[d - 1])
    BY <2>1, <2>2, FieldIs
  <2>4. d >= 2 /\ q - pow2[d - 1] >= pow2[d - 2] BY <1>9, <2>1 DEF RightHalf
  <2>5. PICK h \in 1 .. o : h = (o + 1) - d + 1 /\ o - h = d - 2 /\ h \in Nat BY <1>1, <2>3, <2>4
  <2>6. PICK e \in Nat : e = d - 2 /\ e + 1 = d - 1 BY <2>3, <2>4
  <2>7. PICK w \in Nat : w = pow2[e] /\ pow2[e + 1] = 2 * w BY PowerIs
  <2>8. PICK k \in Nat : k = q - pow2[d - 1] /\ w <= k /\ k + 1 <= 2 * w BY <2>3, <2>4, <2>6, <2>7
  <2>9. y.at = size_for_order(o + 1)[h] + h * k BY <2>3, <2>5, <2>8
  <2>10. h * w <= h * k /\ h * k < 2 * (h * w) /\ h * k \in Nat /\ h * w \in Nat
    <3>1. h * w <= h * k /\ h * (k + 1) <= h * (2 * w) /\ h * (k + 1) = h * k + h
      BY <2>5, <2>8, TimesMonotone, TimesSuccessor
    <3>2. h * (2 * w) = 2 * (h * w) /\ h * k \in Nat /\ h * w \in Nat BY <2>5
    <3>3. h >= 1 OBVIOUS
    <3> QED BY <2>5, <3>1, <3>2, <3>3
  <2>11. w = pow2[o - h] BY <2>5, <2>6, <2>7
  <2>12. y.at \notin L
    <3>1. PICK m \in Nat, r \in Nat : m = h * k /\ r = h * pow2[o - h] /\ r <= m /\ m < 2 * r BY <2>10, <2>11
    <3>2. size_for_order(o + 1)[h] + m \in L <=> m < r /\ size_for_order(o)[h] + m \in t.bits BY <1>7, <3>1
    <3>3. ~(m < r) BY <3>1
    <3> QED BY <2>9, <3>1, <3>2, <3>3
  <2>13. y.at \notin u.bits BY <1>5, <2>12
  <2>14. tree_status(u, q) = read_from(u.bits, y) BY <1>5, <2>2, Zenon DEF tree_status
  <2> QED BY <2>13, <2>14 DEF read_from
<1> QED BY <1>6, <1>8, <1>9

\* The slots of the marked positions: where a run starts and how long it is.
Spans(t) == {<<Lo(t.order, p), Width(t.order, p)>> : p \in Marked(t)}

\* Growing a tree by one order keeps what is marked in place.
LEMMA GrowExact ==
    ASSUME NEW o \in 1 .. MaxOrder, o + 1 \in 1 .. MaxOrder, NEW t \in TreesOf(o), Sound(t), NEW r, r = GrowOnce(t)
    PROVE  r \in TreesOf(o + 1) /\ Sound(r) /\ Spans(r) = Spans(t)
<1>1. o \in Nat /\ o >= 1 /\ t \in Trees /\ t.order = o BY OrderAssumption DEF TreesOf
<1>2. PICK u : u = Trim(o + 1, GrowLoop(t)[o]) OBVIOUS
<1>3. /\ u \in TreesOf(o + 1)
      /\ \A p \in Positions(o) : tree_status(u, Lift(p)) = tree_status(t, p)
      /\ \A q \in Positions(o + 1) : RightHalf(q) => tree_status(u, q) = 0
  BY <1>2, RowsInPlace
<1>4. u \in Trees /\ u.order = o + 1 BY <1>3 DEF TreesOf
<1>5. right_child(1) = 3 BY DEF right_child
<1>6. 1 \in Positions(o + 1) /\ Depth[1] = 1 BY RootIs
<1>7. 3 \in Positions(o + 1) /\ Depth[3] = 2
  <2>1. Depth[1] < o + 1 BY <1>1, <1>6
  <2>2. right_child(1) \in Positions(o + 1) /\ Depth[right_child(1)] = Depth[1] + 1 BY <1>6, <2>1, ChildSlots
  <2> QED BY <1>5, <1>6, <2>2
<1>8. tree_status(u, 3) = 0
  <2>1. RightHalf(3) BY <1>7, PowerTable, PowerIs DEF RightHalf
  <2> QED BY <1>3, <1>7, <2>1
<1>9. r = update_parent_chain[<<u, 3, tree_status(u, 3)>>]
  <2>1. r = update_parent_chain[<<u, right_child(1), 0>>] BY <1>1, <1>2, GrowLoopUnfolds
  <2> QED BY <1>5, <1>8, <2>1
<1>10. \A p \in Positions(o + 1) : Above(p, 3) <=> p = 1
  <2>1. parent(3) = 1 BY DEF parent
  <2>2. 1 = 3 \div pow2[1] BY PowerTable
  <2>3. Above(1, 3) BY <2>2 DEF Above
  <2>4. \A p \in Positions(o + 1) : Above(p, 3) => p < 3 /\ p \in Nat /\ p >= 1 BY <1>7, AboveLess, PositionIs
  <2>5. ~Above(2, 3)
    <3> SUFFICES ASSUME Above(2, 3) PROVE FALSE OBVIOUS
    <3>1. 2 \in Nat /\ 3 \in Nat OBVIOUS
    <3>2. 2 = parent(3) \/ Above(2, parent(3)) BY <3>1, AboveIs
    <3>3. Above(2, 1) BY <2>1, <3>2
    <3>4. 2 < 1 BY <3>3, AboveLess
    <3> QED BY <3>4
  <2>6. \A p \in Positions(o + 1) : Above(p, 3) => p = 1
    <3> SUFFICES ASSUME NEW p \in Positions(o + 1), Above(p, 3) PROVE p = 1 OBVIOUS
    <3>1. p < 3 /\ p \in Nat /\ p >= 1 BY <2>4
    <3>2. p # 2 BY <2>5
    <3> QED BY <3>1, <3>2
  <2> QED BY <2>3, <2>6
<1>11. ChainDone(u, 3, r)
  <2>1. parent(3) = 1 BY DEF parent
  <2>2. \A p \in Positions(u.order) : Above(p, 3) /\ p # parent(3) => Settled(u, p) BY <1>4, <1>10, <2>1
  <2> QED BY <1>4, <1>7, <1>9, <2>2, ChainSettles
<1>12. /\ r \in Trees /\ r.order = o + 1 /\ Settled(r, 1)
       /\ \A q \in Positions(o + 1) : q # 1 => tree_status(r, q) = tree_status(u, q)
  BY <1>4, <1>6, <1>10, <1>11 DEF ChainDone
<1>13. r \in TreesOf(o + 1)
  <2>1. 0 \in Nat OBVIOUS
  <2> QED BY <1>3, <1>7, <1>8, <1>9, <2>1, ChainInBounds
<1>14. ASSUME NEW p \in Positions(o) PROVE tree_status(r, Lift(p)) = tree_status(t, p)
  <2>1. Lift(p) \in Positions(o + 1) /\ Lift(p) # 1 BY LiftIs
  <2> QED BY <1>3, <1>12, <2>1
<1>15. ASSUME NEW q \in Positions(o + 1), RightHalf(q) PROVE tree_status(r, q) = 0
  <2>1. q # 1 BY <1>6, <1>15 DEF RightHalf
  <2> QED BY <1>3, <1>12, <1>15, <2>1
<1>16. ASSUME NEW p \in Positions(o) PROVE (InUse(r, Lift(p)) <=> InUse(t, p)) /\ (Depth[p] < o => (Settled(r, Lift(p)) <=> Settled(t, p)))
  <2>1. PICK q : q = Lift(p) OBVIOUS
  <2>2. q \in Positions(o + 1) /\ Depth[q] = Depth[p] + 1 BY <2>1, LiftIs
  <2>3. Depth[p] \in Nat BY <1>1, DepthIs DEF InRow
  <2>4. local_offset(r, q) = local_offset(t, p)
    <3>1. local_offset(r, q) = (o + 1) - Depth[q] + 1 BY <1>12, <2>2, StatusRange
    <3>2. local_offset(t, p) = o - Depth[p] + 1 BY <1>1, StatusRange
    <3>3. (o + 1) - (Depth[p] + 1) + 1 = o - Depth[p] + 1 BY <1>1, <2>3
    <3> QED BY <2>2, <3>1, <3>2, <3>3
  <2>5. Depth[q] < o + 1 <=> Depth[p] < o BY <1>1, <2>2, <2>3
  <2>6. tree_status(r, q) = tree_status(t, p) BY <1>14, <2>1
  <2>7. ASSUME Depth[p] < o
        PROVE  /\ tree_status(r, left_child(q)) = tree_status(t, left_child(p))
               /\ tree_status(r, right_child(q)) = tree_status(t, right_child(p))
    <3>1. /\ left_child(p) \in Positions(o) /\ right_child(p) \in Positions(o)
          /\ left_child(q) = Lift(left_child(p)) /\ right_child(q) = Lift(right_child(p))
      BY <2>1, <2>7, LiftChildren
    <3> QED BY <1>14, <3>1
  <2>8. Depth[p] < o => (Settled(r, q) <=> Settled(t, p)) BY <2>6, <2>7 DEF Settled
  <2>9. InUse(r, q) <=> InUse(t, p)
    <3>1. CASE Depth[p] < o BY <1>1, <1>12, <2>4, <2>5, <2>6, <2>7, <3>1 DEF InUse
    <3>2. CASE ~(Depth[p] < o) BY <1>1, <1>12, <2>4, <2>5, <2>6, <3>2 DEF InUse
    <3> QED BY <3>1, <3>2
  <2> QED BY <2>1, <2>8, <2>9
<1>17. ASSUME NEW q \in Positions(o + 1), RightHalf(q)
       PROVE  ~InUse(r, q) /\ (Depth[q] < o + 1 => Settled(r, q))
  <2>1. tree_status(r, q) = 0 BY <1>15, <1>17
  <2>2. local_offset(r, q) \in Nat /\ local_offset(r, q) >= 1 BY <1>12, StatusRange
  <2>3. ASSUME Depth[q] < o + 1 PROVE Settled(r, q)
    <3>1. RightHalf(left_child(q)) /\ RightHalf(right_child(q)) BY <1>17, <2>3, RightChildren
    <3>2. left_child(q) \in Positions(o + 1) /\ right_child(q) \in Positions(o + 1) BY <2>3, ChildSlots
    <3>3. tree_status(r, left_child(q)) = 0 /\ tree_status(r, right_child(q)) = 0 BY <1>15, <3>1, <3>2
    <3>4. TargetParent(0, 0) = 0 BY DEF TargetParent
    <3> QED BY <2>1, <3>3, <3>4 DEF Settled
  <2> QED BY <2>1, <2>2, <2>3 DEF InUse
<1>18. Sound(r)
  <2> SUFFICES ASSUME NEW q \in Positions(o + 1), Depth[q] < o + 1 PROVE Settled(r, q) \/ InUse(r, q)
    BY <1>12 DEF Sound
  <2>1. CASE q = 1 BY <1>12, <2>1
  <2>2. CASE RightHalf(q) BY <1>17, <2>2
  <2>3. ASSUME NEW p \in Positions(o), q = Lift(p) PROVE Settled(r, q) \/ InUse(r, q)
    <3>1. Depth[p] < o
      <4>1. Depth[q] = Depth[p] + 1 BY <2>3, LiftIs
      <4>2. Depth[p] \in Nat BY <1>1, DepthIs DEF InRow
      <4> QED BY <1>1, <4>1, <4>2
    <3>2. Settled(t, p) \/ InUse(t, p) BY <1>1, <3>1 DEF Sound
    <3> QED BY <1>16, <2>3, <3>1, <3>2
  <2> QED BY <2>1, <2>2, <2>3, LiftOrRight
<1>19. ~InUse(r, 1)
  <2>1. Depth[1] < o + 1 BY <1>1, <1>6
  <2> QED BY <1>6, <1>12, <2>1, SettledNotInUse
<1>20. ASSUME NEW q \in Marked(r) PROVE \E p \in Marked(t) : q = Lift(p)
  <2>1. q \in Positions(o + 1) /\ InUse(r, q) BY <1>12 DEF Marked
  <2>2. q # 1 BY <1>19, <2>1
  <2>3. ~RightHalf(q) BY <1>17, <2>1
  <2>4. PICK p \in Positions(o) : q = Lift(p) BY <2>1, <2>2, <2>3, LiftOrRight
  <2>5. InUse(t, p) BY <1>16, <2>1, <2>4
  <2> QED BY <1>1, <2>4, <2>5 DEF Marked
<1>21. ASSUME NEW p \in Marked(t)
       PROVE  /\ Lift(p) \in Marked(r)
              /\ Lo(o + 1, Lift(p)) = Lo(o, p) /\ Width(o + 1, Lift(p)) = Width(o, p)
  <2>1. p \in Positions(o) /\ InUse(t, p) BY <1>1 DEF Marked
  <2>2. /\ Lift(p) \in Positions(o + 1)
        /\ Lo(o + 1, Lift(p)) = Lo(o, p) /\ Width(o + 1, Lift(p)) = Width(o, p)
    BY <2>1, LiftIs
  <2>3. InUse(r, Lift(p)) BY <1>16, <2>1
  <2> QED BY <1>12, <2>2, <2>3 DEF Marked
<1>22. Spans(r) \subseteq Spans(t)
  <2> SUFFICES ASSUME NEW q \in Marked(r) PROVE <<Lo(o + 1, q), Width(o + 1, q)>> \in Spans(t)
    BY <1>12 DEF Spans
  <2>1. PICK p \in Marked(t) : q = Lift(p) BY <1>20
  <2>2. Lo(o + 1, q) = Lo(o, p) /\ Width(o + 1, q) = Width(o, p) BY <1>21, <2>1
  <2> QED BY <1>1, <2>2 DEF Spans
<1>23. Spans(t) \subseteq Spans(r)
  <2> SUFFICES ASSUME NEW p \in Marked(t) PROVE <<Lo(o, p), Width(o, p)>> \in Spans(r)
    BY <1>1 DEF Spans
  <2>1. Lift(p) \in Marked(r) /\ Lo(o + 1, Lift(p)) = Lo(o, p) /\ Width(o + 1, Lift(p)) = Width(o, p) BY <1>21
  <2>2. <<Lo(o + 1, Lift(p)), Width(o + 1, Lift(p))>> \in Spans(r) BY <1>12, <2>1 DEF Spans
  <2> QED BY <2>1, <2>2
<1> QED BY <1>13, <1>18, <1>22, <1>23

-----------------------------------------------------------------------------
(* Resizing: as many orders as it takes *)

\* One order up or down, from any tree.
LEMMA OneOrder ==
    ASSUME NEW t \in Trees
    PROVE  /\ t.order \in 1 .. MaxOrder /\ t.order \in Nat
           /\ t.order + 1 \in 1 .. MaxOrder => GrowOnce(t) \in Trees /\ GrowOnce(t).order = t.order + 1
           /\ t.order - 1 \in 1 .. MaxOrder => ShrinkOnce(t) \in Trees /\ ShrinkOnce(t).order = t.order - 1
<1>1. PICK o : o = t.order OBVIOUS
<1>2. o \in 1 .. MaxOrder /\ o \in Nat BY <1>1, OrderAssumption DEF Trees
<1>3. ASSUME NEW k \in 1 .. MaxOrder, NEW b PROVE Trim(k, b) \in TreesOf(k)
  <2>1. PICK top : top = SizeForOrder[k][0] - 1 OBVIOUS
  <2>2. Trim(k, b) = [order |-> k, bits |-> b \cap (0 .. top)] BY <2>1 DEF Trim
  <2>3. b \cap (0 .. top) \in SUBSET Nat OBVIOUS
  <2> QED BY <2>1, <2>2, <2>3 DEF TreesOf, Trees
<1>4. ASSUME o + 1 \in 1 .. MaxOrder PROVE GrowOnce(t) \in Trees /\ GrowOnce(t).order = o + 1
  <2>1. PICK u : u = Trim(o + 1, GrowLoop(t)[o]) OBVIOUS
  <2>2. GrowOnce(t) = update_parent_chain[<<u, right_child(1), 0>>] BY <1>1, <1>2, <1>4, <2>1, GrowLoopUnfolds
  <2>3. u \in TreesOf(o + 1) BY <1>3, <1>4, <2>1
  <2>4. right_child(1) \in Positions(o + 1)
    <3>1. 1 \in Positions(o + 1) /\ Depth[1] = 1 BY <1>4, RootIs
    <3>2. Depth[1] < o + 1 BY <1>2, <3>1
    <3> QED BY <1>4, <3>1, <3>2, ChildSlots
  <2>5. 0 \in Nat OBVIOUS
  <2>6. update_parent_chain[<<u, right_child(1), 0>>] \in TreesOf(o + 1) BY <1>4, <2>3, <2>4, <2>5, ChainInBounds, Zenon
  <2> QED BY <2>2, <2>6 DEF TreesOf
<1>5. ASSUME o - 1 \in 1 .. MaxOrder PROVE ShrinkOnce(t) \in Trees /\ ShrinkOnce(t).order = o - 1
  <2>1. PICK b : ShrinkOnce(t) = Trim(o - 1, b) BY <1>1, Zenon DEF ShrinkOnce
  <2>2. Trim(o - 1, b) \in TreesOf(o - 1) BY <1>3, <1>5
  <2> QED BY <2>1, <2>2 DEF TreesOf
<1> QED BY <1>1, <1>2, <1>4, <1>5

ResizeStep(t, d, f) ==
    IF t.order < d THEN f[GrowOnce(t)]
    ELSE IF t.order > d /\ tree_can_shrink(t) THEN f[ShrinkOnce(t)]
    ELSE t

\* The loop of tree_resize to order d.
ResizeLoop(d) ==
    LET loop[t \in Trees] ==
            IF t.order < d THEN loop[GrowOnce(t)]
            ELSE IF t.order > d /\ tree_can_shrink(t) THEN loop[ShrinkOnce(t)]
            ELSE t
    IN  loop

LEMMA ResizeUnfolds ==
    ASSUME NEW d \in 1 .. MaxOrder, NEW t \in Trees
    PROVE  /\ tree_resize(t, d) = ResizeLoop(d)[t]
           /\ ResizeLoop(d)[t] = ResizeStep(t, d, ResizeLoop(d))
<1> DEFINE m == [s \in Trees |-> IF s.order < d THEN d - s.order ELSE s.order - d]
           G == [s \in Trees |-> [f \in [Trees -> Trees] |-> ResizeStep(s, d, f)]]
<1>0. d \in Nat /\ MaxOrder \in Nat BY OrderAssumption
<1>1. ASSUME NEW s \in Trees, s.order < d
      PROVE  GrowOnce(s) \in Trees /\ m[GrowOnce(s)] < m[s]
  <2>1. s.order \in Nat /\ s.order \in 1 .. MaxOrder BY OneOrder
  <2>2. s.order + 1 \in 1 .. MaxOrder BY <1>0, <1>1, <2>1
  <2>3. PICK g : g = GrowOnce(s) OBVIOUS
  <2>4. g \in Trees /\ g.order = s.order + 1 BY <2>2, <2>3, OneOrder
  <2>5. m[g] = (IF g.order < d THEN d - g.order ELSE g.order - d) /\ m[s] = d - s.order BY <1>1, <2>4
  <2>6. m[g] < m[s] BY <1>0, <1>1, <2>1, <2>4, <2>5
  <2> QED BY <2>3, <2>4, <2>6
<1>2. ASSUME NEW s \in Trees, s.order > d
      PROVE  ShrinkOnce(s) \in Trees /\ m[ShrinkOnce(s)] < m[s]
  <2>1. s.order \in Nat /\ s.order \in 1 .. MaxOrder BY OneOrder
  <2>2. s.order - 1 \in 1 .. MaxOrder BY <1>0, <1>2, <2>1
  <2>3. PICK g : g = ShrinkOnce(s) OBVIOUS
  <2>4. g \in Trees /\ g.order = s.order - 1 BY <2>2, <2>3, OneOrder
  <2>5. ~(s.order < d) /\ ~(g.order < d) BY <1>0, <1>2, <2>1, <2>4
  <2>6. m[g] = g.order - d /\ m[s] = s.order - d BY <2>4, <2>5
  <2>7. m[g] < m[s] BY <1>0, <2>1, <2>4, <2>6
  <2> QED BY <2>3, <2>4, <2>7
<1>3. \A s \in Trees : m[s] \in Nat
  <2> SUFFICES ASSUME NEW s \in Trees PROVE m[s] \in Nat OBVIOUS
  <2>1. s.order \in Nat BY OneOrder
  <2> QED BY <1>0, <2>1
<1>4. m \in [Trees -> Nat] BY <1>3
<1> HIDE DEF m
<1>5. G \in [Trees -> [[Trees -> Trees] -> Trees]]
  <2> SUFFICES ASSUME NEW s \in Trees, NEW f \in [Trees -> Trees] PROVE ResizeStep(s, d, f) \in Trees OBVIOUS
  <2>1. s.order < d => f[GrowOnce(s)] \in Trees BY <1>1
  <2>2. s.order > d => f[ShrinkOnce(s)] \in Trees BY <1>2
  <2> QED BY <2>1, <2>2 DEF ResizeStep
<1>6. Descends(Trees, Trees, m, G)
  <2> SUFFICES ASSUME NEW s \in Trees, NEW f \in [Trees -> Trees], NEW g \in [Trees -> Trees],
                      \A j \in Trees : m[j] < m[s] => f[j] = g[j]
               PROVE  ResizeStep(s, d, f) = ResizeStep(s, d, g)
    BY DEF Descends
  <2>1. s.order < d => f[GrowOnce(s)] = g[GrowOnce(s)] BY <1>1
  <2>2. s.order > d => f[ShrinkOnce(s)] = g[ShrinkOnce(s)] BY <1>2
  <2> QED BY <2>1, <2>2 DEF ResizeStep
<1>7. PICK f : Solves(Trees, Trees, G, f)
  <2>1. WellDefined(Trees, Trees, m, G) BY <1>4, <1>5, <1>6 DEF WellDefined
  <2> HIDE DEF G
  <2> QED BY <2>1, RecursionExists, Zenon
<1>8. f = [s \in Trees |-> ResizeStep(s, d, f)] BY <1>7 DEF Solves
<1> DEFINE L == ResizeLoop(d)
           U(h) == h = [s \in Trees |-> ResizeStep(s, d, h)]
<1>9. L = CHOOSE h : U(h) BY Zenon DEF ResizeLoop, ResizeStep
<1>10. U(L) BY <1>8, <1>9, Zenon
<1>11. tree_resize(t, d) = L[t] BY Zenon DEF tree_resize, ResizeLoop
<1> HIDE DEF L
<1>12. L[t] = ResizeStep(t, d, L) BY <1>10, Zenon
<1> QED BY <1>11, <1>12 DEF L

\* tree_resize to a higher order keeps what is marked in place.
LEMMA ResizeGrows ==
    ASSUME NEW o \in 1 .. MaxOrder, NEW t \in TreesOf(o), Sound(t), NEW d \in 1 .. MaxOrder, o <= d,
           NEW r, r = tree_resize(t, d)
    PROVE  r \in TreesOf(d) /\ Sound(r) /\ Spans(r) = Spans(t)
<1> DEFINE Right(s) == LET u == tree_resize(s, d) IN u \in TreesOf(d) /\ Sound(u) /\ Spans(u) = Spans(s)
           P == {n \in Nat : \A k \in 1 .. d : \A s \in TreesOf(k) : d - k <= n /\ Sound(s) => Right(s)}
<1>0. d \in Nat /\ MaxOrder \in Nat /\ \A k \in 1 .. d : k \in 1 .. MaxOrder /\ k \in Nat BY OrderAssumption
<1>1. ASSUME NEW s \in TreesOf(d), Sound(s) PROVE Right(s)
  <2>1. s \in Trees /\ s.order = d BY DEF TreesOf
  <2>2. tree_resize(s, d) = s BY <1>0, <2>1, ResizeUnfolds DEF ResizeStep
  <2> QED BY <1>1, <2>2
<1>2. ASSUME NEW n \in P, NEW k \in 1 .. d, NEW s \in TreesOf(k), d - k <= n + 1, Sound(s), k # d
      PROVE  Right(s)
  <2>1. s \in Trees /\ s.order = k /\ k < d /\ k + 1 \in 1 .. d /\ k + 1 \in 1 .. MaxOrder /\ d - (k + 1) <= n
    BY <1>0, <1>2 DEF TreesOf
  <2>2. PICK g : g = GrowOnce(s) OBVIOUS
  <2>3. g \in TreesOf(k + 1) /\ Sound(g) /\ Spans(g) = Spans(s) BY <1>0, <1>2, <2>1, <2>2, GrowExact
  <2>4. Right(g)
    <3> HIDE DEF Right
    <3> QED BY <1>2, <2>1, <2>3
  <2>5. tree_resize(s, d) = tree_resize(g, d)
    <3>1. g \in Trees BY <2>3 DEF TreesOf
    <3>2. tree_resize(s, d) = ResizeStep(s, d, ResizeLoop(d)) BY <2>1, ResizeUnfolds
    <3>3. ResizeStep(s, d, ResizeLoop(d)) = ResizeLoop(d)[g] BY <2>1, <2>2 DEF ResizeStep
    <3>4. tree_resize(g, d) = ResizeLoop(d)[g] BY <3>1, ResizeUnfolds
    <3> QED BY <3>2, <3>3, <3>4
  <2> QED BY <2>3, <2>4, <2>5
<1> HIDE DEF Right
<1>3. 0 \in P
  <2> SUFFICES ASSUME NEW k \in 1 .. d, NEW s \in TreesOf(k), d - k <= 0, Sound(s) PROVE Right(s) OBVIOUS
  <2>1. k = d BY <1>0
  <2> QED BY <1>1, <2>1
<1>4. ASSUME NEW n \in P PROVE n + 1 \in P
  <2>1. \A k \in 1 .. d : \A s \in TreesOf(k) : d - k <= n + 1 /\ Sound(s) => Right(s) BY <1>1, <1>2, <1>4
  <2>2. n + 1 \in Nat BY <1>4
  <2> QED BY <2>1, <2>2
<1>5. P \in SUBSET Nat OBVIOUS
<1>6. P = Nat
  <2> HIDE DEF P
  <2> QED BY <1>3, <1>4, <1>5, NumbersUpwards
<1>7. o \in 1 .. d /\ d - o \in Nat /\ d - o <= d - o BY <1>0
<1>8. \A k \in 1 .. d : \A s \in TreesOf(k) : d - k <= d - o /\ Sound(s) => Right(s) BY <1>6, <1>7
<1>9. Right(t) BY <1>7, <1>8
<1> QED BY <1>9 DEF Right

-----------------------------------------------------------------------------
(* Resizing: a step of AbstractHeap *)

LEMMA SpanOf ==
    ASSUME NEW o, NEW d, NEW r, NEW e, r.order = o, e.order = d, Spans(r) \subseteq Spans(e), NEW p \in Marked(r)
    PROVE  \E q \in Marked(e) : Lo(d, q) = Lo(o, p) /\ Width(d, q) = Width(o, p) /\ BlockAt(d, q) = BlockAt(o, p)
<1>1. <<Lo(o, p), Width(o, p)>> \in Spans(e) BY DEF Spans
<1>2. PICK q \in Marked(e) : <<Lo(o, p), Width(o, p)>> = <<Lo(d, q), Width(d, q)>> BY <1>1 DEF Spans
<1>3. Lo(d, q) = Lo(o, p) /\ Width(d, q) = Width(o, p) BY <1>2
<1>4. BlockAt(d, q) = BlockAt(o, p) BY <1>3 DEF BlockAt
<1> QED BY <1>3, <1>4

\* The other two steps of buddy_resize_standard.
Regrown(r, d, e) == e = tree_resize(r, d)
Raised(new, e, u) == u = WithWall(new, e)

LEMMA ResizedTree ==
    ASSUME NEW m, NEW o, NEW n, NEW t, Arena(m, o, n), HeapOK(o, n, t),
           NEW new, NEW d, NEW k, Arena(new, d, k), o <= d,
           \A p \in Live(n, t) : Lo(o, p) + Width(o, p) <= k,
           NEW r, Lowered(m, t, r), NEW e, Regrown(r, d, e), NEW u, Raised(new, e, u)
    PROVE  HeapOK(d, k, u) /\ BlocksOf(d, k, u) = BlocksOf(o, n, t)
<1>1. o \in 1 .. MaxOrder /\ d \in 1 .. MaxOrder /\ k \in Nat BY DEF Arena
<1>2. r \in TreesOf(o) /\ Sound(r) /\ Marked(r) = Live(n, t)
  <2>1. OnlyLive(o, n, t, r) BY WallDown, Zenon
  <2> QED BY <2>1 DEF OnlyLive
<1>3. e \in TreesOf(d) /\ Sound(e) /\ Spans(e) = Spans(r) BY <1>1, <1>2, ResizeGrows DEF Regrown
<1>4. r.order = o /\ e.order = d BY <1>2, <1>3 DEF TreesOf
<1>5. Inside(d, k, e)
  <2> SUFFICES ASSUME NEW q \in Marked(e) PROVE Lo(d, q) + Width(d, q) <= k BY DEF Inside
  <2>1. PICK p \in Marked(r) : Lo(o, p) = Lo(d, q) /\ Width(o, p) = Width(d, q) BY <1>3, <1>4, SpanOf
  <2> QED BY <1>2, <2>1
<1>6. HeapOK(d, k, u) /\ Live(k, u) = Marked(e) BY <1>3, <1>5, WallUp DEF Raised
<1>7. \A p \in Marked(r) : \E q \in Marked(e) : BlockAt(o, p) = BlockAt(d, q) BY <1>3, <1>4, SpanOf
<1>8. \A q \in Marked(e) : \E p \in Marked(r) : BlockAt(o, p) = BlockAt(d, q) BY <1>3, <1>4, SpanOf
<1>9. BlocksOf(d, k, u) = BlocksOf(o, n, t) BY <1>2, <1>6, <1>7, <1>8 DEF BlocksOf
<1> QED BY <1>6, <1>9

\* buddy_resize to an arena that holds every block, of the same order or a higher one,
\* keeps all of them in place.
LEMMA ResizedStep ==
    ASSUME NEW o, NEW n, Arena(memory_size, o, n), HeapOK(o, n, tree), blocks = BlocksOf(o, n, tree),
           left_bias \in BOOLEAN,
           NEW new, NEW d, NEW k, Arena(new, d, k), o <= d,
           \A p \in Live(n, tree) : Lo(o, p) + Width(o, p) <= k,
           tree' = Resized(new), memory_size' = new, answer' = Null, left_bias' = left_bias, blocks' = blocks
    PROVE  Kept
<1>1. k \in Nat /\ d = tree_order_for_memory(new) BY DEF Arena
<1>2. PICK r, e, u : Lowered(memory_size, tree, r) /\ Regrown(r, d, e) /\ Raised(new, e, u)
  BY DEF Lowered, Regrown, Raised
<1>3. HeapOK(d, k, u) /\ BlocksOf(d, k, u) = BlocksOf(o, n, tree) BY <1>2, ResizedTree
<1>4. tree' = u BY <1>1, <1>2, Zenon DEF Resized, WithWall, Lowered, Regrown, Raised
<1>5. HeapInv' BY <1>3, <1>4 DEF HeapInv
<1>6. \A b \in blocks : b.addr + b.size <= new
  <2> SUFFICES ASSUME NEW b \in blocks PROVE b.addr + b.size <= new OBVIOUS
  <2>1. PICK p \in Live(n, tree) : b = BlockAt(o, p) BY DEF BlocksOf
  <2>2. PICK lo \in Nat, w \in Nat : lo = Lo(o, p) /\ w = Width(o, p) BY <2>1, LiveInside
  <2>3. lo + w <= k BY <2>1, <2>2
  <2>4. PICK a \in Nat : a = BUDDY_ALLOC_ALIGN BY AlignIs
  <2>5. a * (lo + w) <= a * k BY <1>1, <2>3, TimesMonotone
  <2>6. a * (lo + w) = a * lo + a * w BY SMT
  <2>7. b.addr = a * lo /\ b.size = a * w /\ new = a * k BY <2>1, <2>2, <2>4 DEF BlockAt, Arena
  <2> QED BY <2>5, <2>6, <2>7
<1>7. new \in Nat BY <1>1, AlignIs DEF Arena
<1>8. Heap!Resize BY <1>6, <1>7 DEF Heap!Resize
<1> QED BY <1>5, <1>8 DEF Kept, Heap!Next

-----------------------------------------------------------------------------
(* buddy_tree_is_free *)

FreeTurn(t, pos, f) ==
    IF ~tree_valid(t, pos) THEN TRUE
    ELSE IF tree_status(t, pos) # 0 THEN tree_status(t, pos) # local_offset(t, pos)
    ELSE f[parent(pos)]

LEMMA FreeAboveUnfolds ==
    ASSUME NEW t
    PROVE  \A pos \in Nat : FreeAbove(t)[pos] = FreeTurn(t, pos, FreeAbove(t))
<1> DEFINE m == [pos \in Nat |-> pos]
           G == [pos \in Nat |-> [f \in [Nat -> BOOLEAN] |-> FreeTurn(t, pos, f)]]
<1>1. ASSUME NEW pos \in Nat, tree_valid(t, pos) PROVE parent(pos) \in Nat /\ parent(pos) < pos
  <2>1. pos >= 1 BY <1>1 DEF tree_valid, Positions
  <2> QED BY <2>1, HalfIs DEF parent
<1>2. G \in [Nat -> [[Nat -> BOOLEAN] -> BOOLEAN]]
  <2> SUFFICES ASSUME NEW pos \in Nat, NEW f \in [Nat -> BOOLEAN] PROVE FreeTurn(t, pos, f) \in BOOLEAN OBVIOUS
  <2>1. tree_valid(t, pos) => f[parent(pos)] \in BOOLEAN BY <1>1
  <2> QED BY <2>1 DEF FreeTurn
<1>3. Descends(Nat, BOOLEAN, m, G)
  <2> SUFFICES ASSUME NEW pos \in Nat, NEW f \in [Nat -> BOOLEAN], NEW g \in [Nat -> BOOLEAN],
                      \A j \in Nat : m[j] < m[pos] => f[j] = g[j]
               PROVE  FreeTurn(t, pos, f) = FreeTurn(t, pos, g)
    BY DEF Descends
  <2>1. tree_valid(t, pos) => f[parent(pos)] = g[parent(pos)] BY <1>1
  <2> QED BY <2>1 DEF FreeTurn
<1>4. PICK f : Solves(Nat, BOOLEAN, G, f)
  <2>1. m \in [Nat -> Nat] /\ BOOLEAN # {} OBVIOUS
  <2>2. WellDefined(Nat, BOOLEAN, m, G) BY <1>2, <1>3, <2>1 DEF WellDefined
  <2> HIDE DEF m, G
  <2> QED BY <2>2, RecursionExists, Zenon
<1>5. f = [pos \in Nat |-> FreeTurn(t, pos, f)] BY <1>4 DEF Solves
<1> DEFINE L == FreeAbove(t)
           U(h) == h = [pos \in Nat |-> FreeTurn(t, pos, h)]
<1>6. L = CHOOSE h : U(h) BY Zenon DEF FreeAbove, FreeTurn
<1>7. U(L) BY <1>5, <1>6, Zenon
<1> HIDE DEF L
<1>8. \A pos \in Nat : L[pos] = FreeTurn(t, pos, L) BY <1>7, Zenon
<1> QED BY <1>8 DEF L

\* A position that tree_is_free finds free shares no slot with a marked one.
LEMMA FreeApart ==
    ASSUME NEW t, Sound(t), NEW x \in Positions(t.order), tree_is_free(t, x), NEW p \in Marked(t)
    PROVE  ~OnePath(p, x)
<1>1. t \in Trees /\ t.order \in 1 .. MaxOrder BY SoundIs
<1>2. p \in Positions(t.order) /\ tree_status(t, p) # 0 /\ tree_status(t, p) = local_offset(t, p)
  BY MarkedIs DEF Marked, InUse
<1>3. p \in Nat /\ p >= 1 /\ x \in Nat BY <1>1, <1>2, PositionIs
<1>4. tree_status(t, x) = 0 /\ FreeAbove(t)[parent(x)] BY DEF tree_is_free
<1>5. ~Covers(x, p) BY <1>2, <1>4, AroundMarked DEF Covers
<1> DEFINE Blocked(y) == FreeAbove(t)[y] = FALSE
           P == {n \in Nat : \A y \in Positions(t.order) : y <= n /\ Covers(p, y) => Blocked(y)}
<1>6. Blocked(p)
  <2>1. tree_valid(t, p) BY <1>2 DEF tree_valid
  <2>2. FreeTurn(t, p, FreeAbove(t)) = FALSE BY <1>2, <2>1 DEF FreeTurn
  <2> QED BY <1>3, <2>2, FreeAboveUnfolds
<1>7. ASSUME NEW n \in P, NEW y \in Positions(t.order), y <= n + 1, Covers(p, y), y # p PROVE Blocked(y)
  <2>1. Above(p, y) BY <1>7 DEF Covers
  <2>2. tree_status(t, y) = 0 BY <2>1, AroundMarked
  <2>3. y \in Nat /\ y # 1 BY <1>1, <1>3, <2>1, PositionIs, AboveInTree
  <2>4. parent(y) \in Positions(t.order) /\ parent(y) < y BY <1>1, <2>3, ParentIs
  <2>5. Covers(p, parent(y)) BY <2>1, <2>3, AboveIs DEF Covers
  <2>6. parent(y) <= n
    <3>1. parent(y) \in Nat BY <1>1, <2>4, PositionIs
    <3> QED BY <1>7, <2>3, <2>4, <3>1
  <2>7. Blocked(parent(y)) BY <1>7, <2>4, <2>5, <2>6
  <2>8. tree_valid(t, y) BY DEF tree_valid
  <2>9. FreeTurn(t, y, FreeAbove(t)) = FALSE BY <2>2, <2>7, <2>8 DEF FreeTurn
  <2> QED BY <2>3, <2>9, FreeAboveUnfolds
<1> HIDE DEF Blocked
<1>8. P = Nat
  <2>1. 0 \in P
    <3>1. \A y \in Positions(t.order) : ~(y <= 0) BY <1>1, PositionIs
    <3> QED BY <3>1
  <2>2. ASSUME NEW n \in P PROVE n + 1 \in P
    <3> SUFFICES ASSUME NEW y \in Positions(t.order), y <= n + 1, Covers(p, y) PROVE Blocked(y) BY <2>2
    <3> QED BY <1>6, <1>7, <2>2
  <2>3. P \in SUBSET Nat OBVIOUS
  <2> HIDE DEF P
  <2> QED BY <2>1, <2>2, <2>3, NumbersUpwards
<1>9. ASSUME Covers(p, x) PROVE FALSE
  <2>1. Above(p, x) BY <1>2, <1>4, <1>9 DEF Covers
  <2>2. x # 1 BY <1>1, <1>3, <2>1, PositionIs, AboveInTree
  <2>3. parent(x) \in Positions(t.order) /\ Covers(p, parent(x)) BY <1>1, <1>3, <2>1, <2>2, ParentIs, AboveIs DEF Covers
  <2>4. parent(x) \in Nat BY <1>1, <2>3, PositionIs
  <2>5. parent(x) \in P /\ parent(x) <= parent(x) BY <1>8, <2>4
  <2>6. Blocked(parent(x)) BY <2>3, <2>5
  <2> QED BY <1>4, <2>6 DEF Blocked
<1> QED BY <1>5, <1>9 DEF OnePath

-----------------------------------------------------------------------------
(* buddy_is_free *)

LEMMA ZeroDepth == Depth[0] = 0
<1>1. highest_bit_position(0) = 0
  <2> DEFINE L == BitLoop(0)
             z == <<0, 0>>
  <2>1. 0 \in Nat OBVIOUS
  <2>2. L[0] = z /\ \A i \in 1 .. 6 : L[i] = BitRow(L[i - 1], BitRows[i][1], BitRows[i][2])
    BY <2>1, BitLoopUnfolds, Zenon
  <2>3. highest_bit_position(0) = L[6][1] + L[6][2] BY Zenon DEF highest_bit_position, BitLoop
  <2> HIDE DEF L
  <2>4. \A a \in Nat : \A b : a >= 1 => BitRow(z, a, b) = z BY DEF BitRow
  <2>5. L[1] = z BY <2>2, <2>4 DEF BitRows
  <2>6. L[2] = z BY <2>2, <2>4, <2>5 DEF BitRows
  <2>7. L[3] = z BY <2>2, <2>4, <2>6 DEF BitRows
  <2>8. L[4] = z BY <2>2, <2>4, <2>7 DEF BitRows
  <2>9. L[5] = z BY <2>2, <2>4, <2>8 DEF BitRows
  <2>10. L[6] = z BY <2>2, <2>4, <2>9 DEF BitRows
  <2> QED BY <2>3, <2>10
<1>2. pow2[MaxOrder] \in Nat /\ pow2[MaxOrder] >= 1 BY OrderAssumption, PowerIs
<1>3. 0 \in 0 .. pow2[MaxOrder] - 1 BY <1>2
<1> QED BY <1>1, <1>3 DEF Depth

\* The deepest positions below a position are those of its slots.
LEMMA IntervalIs ==
    ASSUME NEW t, NEW o \in 1 .. MaxOrder, t.order = o, NEW p \in Positions(o)
    PROVE  tree_interval(t, p) = [from |-> pow2[o - 1] + Lo(o, p), to |-> pow2[o - 1] + Lo(o, p) + Width(o, p) - 1]
<1>1. PICK w \in Nat, lo \in Nat, g \in Nat :
        w = Width(o, p) /\ lo = Lo(o, p) /\ g = pow2[o - 1] /\ g + lo = w * p /\ p \in Nat
  BY SlotsOf
<1>2. pow2[t.order - Depth[p]] = w BY <1>1 DEF Width
<1>3. tree_interval(t, p) = [from |-> p * w, to |-> p * w + w - 1] BY <1>2 DEF tree_interval
<1>4. p * w = w * p BY <1>1
<1> QED BY <1>1, <1>3, <1>4

\* Nothing contains what is below position 0.
LEMMA NoneAboveRoot ==
    ASSUME NEW t, t.order \in 1 .. MaxOrder, NEW range, range.from \in Nat, range.from >= 1, range.to \in Nat
    PROVE  ~interval_contains(range, tree_interval(t, 0))
<1>1. PICK w \in Nat : w = pow2[t.order - Depth[0]]
  <2>1. t.order - Depth[0] \in Nat BY ZeroDepth, OrderAssumption
  <2> QED BY <2>1, PowerIs
<1>2. tree_interval(t, 0) = [from |-> 0 * w, to |-> 0 * w + w - 1] BY <1>1 DEF tree_interval
<1>3. tree_interval(t, 0).from = 0 BY <1>2
<1>4. 0 \notin range.from .. range.to OBVIOUS
<1> QED BY <1>3, <1>4 DEF interval_contains

ClimbTurn(range, pos, f) ==
    IF interval_contains(range, tree_interval(tree, parent(pos))) THEN f[parent(pos)] ELSE pos

LEMMA ClimbUnfolds ==
    ASSUME tree.order \in 1 .. MaxOrder, NEW range, range.from \in Nat, range.from >= 1, range.to \in Nat
    PROVE  \A pos \in Nat : Climb(range)[pos] = ClimbTurn(range, pos, Climb(range))
<1> DEFINE Go(pos) == interval_contains(range, tree_interval(tree, parent(pos)))
           m == [pos \in Nat |-> pos]
           G == [pos \in Nat |-> [f \in [Nat -> Nat] |-> ClimbTurn(range, pos, f)]]
<1>1. ASSUME NEW pos \in Nat PROVE parent(pos) \in Nat BY HalfIs DEF parent
<1>2. ASSUME NEW pos \in Nat, Go(pos) PROVE parent(pos) < pos
  <2>1. parent(0) = 0 BY DEF parent
  <2>2. pos # 0
    <3> SUFFICES ASSUME pos = 0 PROVE FALSE OBVIOUS
    <3>1. interval_contains(range, tree_interval(tree, 0)) BY <1>2, <2>1
    <3> QED BY <3>1, NoneAboveRoot
  <2> QED BY <2>2, HalfIs DEF parent
<1> HIDE DEF Go
<1>3. \A pos \in Nat : \A f : ClimbTurn(range, pos, f) = IF Go(pos) THEN f[parent(pos)] ELSE pos BY DEF ClimbTurn, Go
<1>4. G \in [Nat -> [[Nat -> Nat] -> Nat]] BY <1>1, <1>3
<1>5. Descends(Nat, Nat, m, G)
  <2> SUFFICES ASSUME NEW pos \in Nat, NEW f \in [Nat -> Nat], NEW g \in [Nat -> Nat],
                      \A j \in Nat : m[j] < m[pos] => f[j] = g[j]
               PROVE  ClimbTurn(range, pos, f) = ClimbTurn(range, pos, g)
    BY DEF Descends
  <2>1. Go(pos) => f[parent(pos)] = g[parent(pos)] BY <1>1, <1>2
  <2> QED BY <1>3, <2>1
<1>6. PICK f : Solves(Nat, Nat, G, f)
  <2>1. m \in [Nat -> Nat] /\ Nat # {} OBVIOUS
  <2>2. WellDefined(Nat, Nat, m, G) BY <1>4, <1>5, <2>1 DEF WellDefined
  <2> HIDE DEF m, G
  <2> QED BY <2>2, RecursionExists, Zenon
<1>7. f = [pos \in Nat |-> ClimbTurn(range, pos, f)] BY <1>6 DEF Solves
<1> DEFINE L == Climb(range)
           U(h) == h = [pos \in Nat |-> ClimbTurn(range, pos, h)]
<1>8. L = CHOOSE h : U(h) BY Zenon DEF Climb, ClimbTurn
<1>9. U(L) BY <1>7, <1>8, Zenon
<1> HIDE DEF L
<1>10. \A pos \in Nat : L[pos] = ClimbTurn(range, pos, L) BY <1>9, Zenon
<1> QED BY <1>10 DEF L

\* The loop climbs to a position above the one it starts from.
LEMMA ClimbIs ==
    ASSUME NEW o \in 1 .. MaxOrder, tree.order = o, NEW range, range.from \in Nat, range.from >= 1, range.to \in Nat,
           NEW x \in Positions(o)
    PROVE  Climb(range)[x] \in Positions(o) /\ Covers(Climb(range)[x], x)
<1> DEFINE L == Climb(range)
           Right(y) == L[y] \in Positions(o) /\ Covers(L[y], y)
           P == {n \in Nat : \A y \in Positions(o) : y <= n => Right(y)}
<1>1. ASSUME NEW y \in Nat PROVE L[y] = y \/ (L[y] = L[parent(y)] /\ parent(y) # 0)
  <2>1. L[y] = ClimbTurn(range, y, L) BY ClimbUnfolds
  <2>2. CASE parent(y) = 0
    <3>1. ~interval_contains(range, tree_interval(tree, parent(y))) BY <2>2, NoneAboveRoot
    <3> QED BY <2>1, <3>1 DEF ClimbTurn
  <2>3. CASE parent(y) # 0 BY <2>1, <2>3 DEF ClimbTurn
  <2> QED BY <2>2, <2>3
<1> HIDE DEF L
<1>2. 0 \in P
  <2>1. \A y \in Positions(o) : ~(y <= 0) BY PositionIs
  <2> QED BY <2>1
<1>3. ASSUME NEW n \in P, NEW y \in Positions(o), y <= n + 1 PROVE Right(y)
  <2>1. y \in Nat /\ y >= 1 BY PositionIs
  <2>2. CASE L[y] = y BY <2>2 DEF Covers
  <2>3. CASE L[y] # y
    <3>1. L[y] = L[parent(y)] /\ parent(y) # 0 BY <1>1, <2>1, <2>3
    <3>2. y # 1
      <4>1. 1 \div 2 = 0 OBVIOUS
      <4> QED BY <3>1, <4>1 DEF parent
    <3>3. parent(y) \in Positions(o) /\ parent(y) < y BY <3>2, ParentIs
    <3>4. parent(y) \in Nat BY <3>3, PositionIs
    <3>5. parent(y) <= n BY <1>3, <2>1, <3>3, <3>4
    <3>6. Right(parent(y)) BY <1>3, <3>3, <3>5
    <3>7. Above(L[y], y) BY <2>1, <3>1, <3>6, AboveIs DEF Covers
    <3> QED BY <3>1, <3>6, <3>7 DEF Covers
  <2> QED BY <2>2, <2>3
<1> HIDE DEF Right
<1>4. P = Nat
  <2>1. ASSUME NEW n \in P PROVE n + 1 \in P BY <1>3, <2>1
  <2>2. P \in SUBSET Nat OBVIOUS
  <2> HIDE DEF P
  <2> QED BY <1>2, <2>1, <2>2, NumbersUpwards
<1>5. x \in Nat BY PositionIs
<1>6. x \in P /\ x <= x BY <1>4, <1>5
<1> QED BY <1>6 DEF Right, L

\* Where the loop of buddy_is_free goes on, in tree order o.
Beyond(range, pos) == right_adjacent(tree_interval(tree, Climb(range)[pos]).to)

FreeLoopTurn(range, pos, f) ==
    IF ~(tree_valid(tree, pos) /\ pos < range.to) THEN TRUE
    ELSE LET top == Climb(range)[pos]
         IN  /\ tree_is_free(tree, top)
             /\ f[right_adjacent(tree_interval(tree, top).to)]

LEMMA BeyondIs ==
    ASSUME NEW o \in 1 .. MaxOrder, tree.order = o, NEW range, range.from \in Nat, range.from >= 1, range.to \in Nat,
           NEW x \in Positions(o)
    PROVE  Beyond(range, x) \in Nat /\ (Beyond(range, x) = 0 \/ Beyond(range, x) > x)
<1>1. PICK top \in Positions(o) : top = Climb(range)[x] /\ Covers(top, x) BY ClimbIs
<1>2. PICK lo \in Nat, w \in Nat, g \in Nat : lo = Lo(o, top) /\ w = Width(o, top) /\ w >= 1 /\ g = pow2[o - 1] BY SlotsOf
<1>3. PICK y \in Nat, v \in Nat : y = Lo(o, x) /\ v = Width(o, x) /\ v >= 1 /\ g + y = v * x /\ x \in Nat BY <1>2, SlotsOf
<1>4. PICK z \in Nat : z = tree_interval(tree, top).to /\ z = g + lo + w - 1 BY <1>2, IntervalIs
<1>5. y + v <= lo + w BY <1>1, <1>2, <1>3, CoversInside
<1>6. x <= v * x
  <2>1. x * 1 <= x * v BY <1>3, TimesMonotone
  <2> QED BY <1>3, <2>1
<1>7. z >= x BY <1>2, <1>3, <1>4, <1>5, <1>6
<1>8. Beyond(range, x) = right_adjacent(z) BY <1>1, <1>4 DEF Beyond
<1> QED BY <1>3, <1>4, <1>7, <1>8 DEF right_adjacent, INVALID_POS

LEMMA FreeFromUnfolds ==
    ASSUME tree.order \in 1 .. MaxOrder, NEW range, range.from \in Nat, range.from >= 1, range.to \in Nat
    PROVE  \A pos \in Nat : FreeFrom(range)[pos] = FreeLoopTurn(range, pos, FreeFrom(range))
<1> DEFINE Go(pos) == tree_valid(tree, pos) /\ pos < range.to
           Free(pos) == tree_is_free(tree, Climb(range)[pos])
           m == [pos \in Nat |-> IF Go(pos) THEN range.to - pos ELSE 0]
           G == [pos \in Nat |-> [f \in [Nat -> BOOLEAN] |-> FreeLoopTurn(range, pos, f)]]
<1>1. ASSUME NEW pos \in Nat, Go(pos)
      PROVE  Beyond(range, pos) \in Nat /\ m[Beyond(range, pos)] < m[pos]
  <2>1. pos \in Positions(tree.order) /\ pos < range.to BY <1>1 DEF tree_valid
  <2>2. PICK z \in Nat : z = Beyond(range, pos) /\ (z = 0 \/ z > pos) BY <2>1, BeyondIs
  <2>3. m[pos] = range.to - pos BY <1>1
  <2>4. CASE z = 0
    <3>1. ~Go(0) BY PositionIs DEF tree_valid
    <3>2. m[0] = 0 BY <3>1
    <3> QED BY <2>1, <2>2, <2>3, <2>4, <3>2
  <2>5. CASE z > pos
    <3>1. m[z] = IF Go(z) THEN range.to - z ELSE 0 BY <2>2
    <3>2. Go(z) => m[z] = range.to - z BY <3>1
    <3>3. ~Go(z) => m[z] = 0 BY <3>1
    <3> HIDE DEF Go
    <3> QED BY <2>1, <2>2, <2>3, <2>5, <3>2, <3>3
  <2> QED BY <2>2, <2>4, <2>5
<1>2. m \in [Nat -> Nat]
  <2> SUFFICES ASSUME NEW pos \in Nat PROVE (IF Go(pos) THEN range.to - pos ELSE 0) \in Nat OBVIOUS
  <2>1. Go(pos) => pos < range.to OBVIOUS
  <2> HIDE DEF Go
  <2> QED BY <2>1
<1>3. \A pos \in Nat : \A f : FreeLoopTurn(range, pos, f) = IF Go(pos) THEN Free(pos) /\ f[Beyond(range, pos)] ELSE TRUE
  BY Zenon DEF FreeLoopTurn, Beyond
<1> HIDE DEF Go, Free, m
<1>4. G \in [Nat -> [[Nat -> BOOLEAN] -> BOOLEAN]]
  <2> SUFFICES ASSUME NEW pos \in Nat, NEW f \in [Nat -> BOOLEAN] PROVE FreeLoopTurn(range, pos, f) \in BOOLEAN OBVIOUS
  <2> QED BY <1>3
<1>5. Descends(Nat, BOOLEAN, m, G)
  <2> SUFFICES ASSUME NEW pos \in Nat, NEW f \in [Nat -> BOOLEAN], NEW g \in [Nat -> BOOLEAN],
                      \A j \in Nat : m[j] < m[pos] => f[j] = g[j]
               PROVE  FreeLoopTurn(range, pos, f) = FreeLoopTurn(range, pos, g)
    BY DEF Descends
  <2>1. Go(pos) => f[Beyond(range, pos)] = g[Beyond(range, pos)] BY <1>1
  <2> QED BY <1>3, <2>1, Zenon
<1>6. PICK f : Solves(Nat, BOOLEAN, G, f)
  <2>1. BOOLEAN # {} OBVIOUS
  <2>2. WellDefined(Nat, BOOLEAN, m, G) BY <1>2, <1>4, <1>5, <2>1 DEF WellDefined
  <2> HIDE DEF G
  <2> QED BY <2>2, RecursionExists, Zenon
<1>7. f = [pos \in Nat |-> FreeLoopTurn(range, pos, f)] BY <1>6 DEF Solves
<1> DEFINE L == FreeFrom(range)
           U(h) == h = [pos \in Nat |-> FreeLoopTurn(range, pos, h)]
<1>8. L = CHOOSE h : U(h) BY Zenon DEF FreeFrom, FreeLoopTurn
<1>9. U(L) BY <1>7, <1>8, Zenon
<1> HIDE DEF L
<1>10. \A pos \in Nat : L[pos] = FreeLoopTurn(range, pos, L) BY <1>9, Zenon
<1> QED BY <1>10 DEF L

\* Slot s is part of no marked position.
SlotFree(o, s) == \A p \in Marked(tree) : ~Covers(p, Deepest(o, s))

\* Between two powers of two there is none.
LEMMA RowEnds ==
    ASSUME NEW o \in 1 .. MaxOrder, NEW z \in Nat, pow2[o - 1] <= z, z + 1 < pow2[o]
    PROVE  right_adjacent(z) = z + 1
<1>1. ASSUME NEW k \in 1 .. MaxOrder, z = pow2[k] - 1 PROVE FALSE
  <2>0. o \in Nat /\ o - 1 \in Nat /\ k \in Nat BY OrderAssumption
  <2>1. pow2[k] \in Nat /\ pow2[o] \in Nat /\ pow2[o - 1] \in Nat BY <2>0, PowerIs
  <2>2. CASE k <= o - 1
    <3>1. pow2[k] <= pow2[o - 1] BY <2>0, <2>2, PowerGrows
    <3> QED BY <1>1, <2>1, <3>1
  <2>3. CASE o <= k
    <3>1. pow2[o] <= pow2[k] BY <2>0, <2>3, PowerGrows
    <3> QED BY <1>1, <2>1, <3>1
  <2> QED BY <2>0, <2>2, <2>3
<1> QED BY <1>1 DEF right_adjacent

\* From a slot on that buddy_is_free looks at, every slot is free up to the range's end.
LEMMA FreeRun ==
    ASSUME NEW o \in 1 .. MaxOrder, tree.order = o, Sound(tree),
           NEW range, range.from \in Nat, range.from >= 1, range.to \in Nat,
           NEW i \in Nat, i < pow2[o - 1], FreeFrom(range)[pow2[o - 1] + i]
    PROVE  \A s \in Nat : i <= s /\ s < pow2[o - 1] /\ pow2[o - 1] + s < range.to => SlotFree(o, s)
<1>1. 1 \in Positions(o) BY RootIs
<1>2. PICK g \in Nat : g = pow2[o - 1] /\ pow2[o] = 2 * g BY <1>1, SlotsOf
<1> DEFINE L == FreeFrom(range)
           Freed(j) == \A s \in Nat : j <= s /\ s < g /\ g + s < range.to => SlotFree(o, s)
           P == {n \in Nat : \A j \in Nat : j < g /\ g - j <= n /\ L[g + j] => Freed(j)}
\* What the loop does at slot j.
<1>3. ASSUME NEW j \in Nat, j < g, g + j < range.to, L[g + j]
      PROVE  \E e \in Nat : /\ j < e /\ e <= g /\ (e < g => L[g + e])
                            /\ \A s \in Nat : j <= s /\ s < e => SlotFree(o, s)
  <2>1. Deepest(o, j) = g + j /\ Deepest(o, j) \in Positions(o) /\ g + j \in Nat BY <1>2, <1>3, DeepestIs DEF Deepest
  <2>2. PICK top \in Positions(o) : top = Climb(range)[g + j] /\ Covers(top, Deepest(o, j)) BY <2>1, ClimbIs
  <2>3. tree_is_free(tree, top) /\ L[right_adjacent(tree_interval(tree, top).to)]
    <3>1. L[g + j] = FreeLoopTurn(range, g + j, L) BY <2>1, FreeFromUnfolds
    <3>2. tree_valid(tree, g + j) BY <2>1 DEF tree_valid
    <3> HIDE DEF L
    <3>3. FreeLoopTurn(range, g + j, L) BY <1>3, <3>1, Zenon
    <3> QED BY <1>3, <2>2, <3>2, <3>3, Zenon DEF FreeLoopTurn
  <2>4. PICK lo \in Nat, w \in Nat : lo = Lo(o, top) /\ w = Width(o, top) /\ w >= 1 /\ lo + w <= g BY <1>2, SlotsOf
  <2>5. lo <= j /\ j < lo + w BY <1>2, <1>3, <2>2, <2>4, CoversSlot
  <2>6. ASSUME NEW s \in Nat, j <= s, s < lo + w PROVE SlotFree(o, s)
    <3>1. s < pow2[o - 1] /\ lo <= s BY <1>2, <2>4, <2>5, <2>6
    <3>2. Covers(top, Deepest(o, s)) BY <2>4, <2>6, <3>1, CoversSlot
    <3>3. Deepest(o, s) \in Nat BY <3>1, DeepestIs
    <3> SUFFICES ASSUME NEW p \in Marked(tree), Covers(p, Deepest(o, s)) PROVE FALSE BY DEF SlotFree
    <3>4. OnePath(p, top) BY <3>2, <3>3, OnePathDown
    <3> QED BY <2>3, <3>4, FreeApart
  <2>7. ASSUME lo + w < g PROVE L[g + (lo + w)]
    <3>1. PICK z \in Nat : z = tree_interval(tree, top).to /\ z = g + lo + w - 1 BY <1>2, <2>4, IntervalIs
    <3>2. g <= z /\ z + 1 < 2 * g /\ z + 1 = g + (lo + w) BY <1>2, <2>4, <2>7, <3>1
    <3>3. right_adjacent(z) = z + 1 BY <1>2, <3>2, RowEnds
    <3> QED BY <2>3, <3>1, <3>2, <3>3
  <2> QED BY <2>4, <2>5, <2>6, <2>7
<1> HIDE DEF L
<1>4. ASSUME NEW n \in P, NEW j \in Nat, j < g, g - j <= n + 1, L[g + j] PROVE Freed(j)
  <2>1. CASE ~(g + j < range.to) BY <1>2, <2>1
  <2>2. CASE g + j < range.to
    <3>1. PICK e \in Nat : /\ j < e /\ e <= g /\ (e < g => L[g + e])
                           /\ \A s \in Nat : j <= s /\ s < e => SlotFree(o, s)
      BY <1>3, <1>4, <2>2
    <3>2. e < g => Freed(e)
      <4>1. g - e <= n BY <1>2, <1>4, <3>1
      <4> HIDE DEF Freed
      <4> QED BY <1>4, <3>1, <4>1
    <3> SUFFICES ASSUME NEW s \in Nat, j <= s, s < g, g + s < range.to PROVE SlotFree(o, s) OBVIOUS
    <3>3. CASE s < e BY <3>1, <3>3
    <3>4. CASE e <= s
      <4>1. e < g BY <1>2, <3>1, <3>4
      <4> QED BY <3>2, <3>4, <4>1
    <3> QED BY <3>1, <3>3, <3>4
  <2> QED BY <2>1, <2>2
<1> HIDE DEF Freed
<1>5. 0 \in P
  <2>1. \A j \in Nat : j < g => ~(g - j <= 0) BY <1>2
  <2> QED BY <2>1
<1>6. ASSUME NEW n \in P PROVE n + 1 \in P BY <1>4, <1>6
<1>7. P \in SUBSET Nat OBVIOUS
<1>8. P = Nat
  <2> HIDE DEF P
  <2> QED BY <1>5, <1>6, <1>7, NumbersUpwards
<1>9. g - i \in Nat /\ g - i <= g - i BY <1>2
<1>10. L[g + i] BY <1>2 DEF L
<1>11. Freed(i) BY <1>2, <1>8, <1>9, <1>10
<1> QED BY <1>2, <1>11 DEF Freed

\* With virtual slots, buddy_is_free from a byte of slot k on says yes only when every block ends
\* there.
LEMMA FreeMeans ==
    ASSUME NEW o, NEW n, Arena(memory_size, o, n), HeapOK(o, n, tree), VirtualSlots(memory_size) # 0,
           NEW x \in Nat, NEW k \in Nat, k = x \div BUDDY_ALLOC_ALIGN, k < n, is_free(x), NEW p \in Live(n, tree)
    PROVE  Lo(o, p) + Width(o, p) <= k
<1>1. o \in 1 .. MaxOrder /\ n \in Nat /\ n >= 1 /\ tree.order = o /\ Sound(tree) BY HeapIs
<1>2. PICK a \in Nat, g \in Nat : a = BUDDY_ALLOC_ALIGN /\ a >= 1 /\ g = pow2[o - 1] /\ n <= g BY HeapIs, AlignIs
<1>3. memory_size = a * n /\ effective_memory_size(memory_size) = a * g BY <1>2 DEF Arena
<1>4. a * g - a * n = a * (g - n) /\ g - n \in Nat BY <1>1, <1>2, SMT
<1>5. VirtualSlots(memory_size) = g - n
  <2>1. (a * (g - n)) \div a = g - n BY <1>2, <1>4, ExactQuotient
  <2> QED BY <1>2, <1>3, <1>4, <2>1 DEF VirtualSlots
<1>6. n < g BY <1>1, <1>2, <1>5
<1>7. Max({g - n, 1}) = g - n
  <2>1. {g - n, 1} \in SUBSET Int /\ {g - n, 1} # {} /\ \A y \in {g - n, 1} : y <= g - n BY <1>1, <1>2, <1>6
  <2>2. g - n \in Int BY <1>4
  <2>3. Max({g - n, 1}) \in {g - n, 1} /\ \A y \in {g - n, 1} : y <= Max({g - n, 1}) BY <2>1, <2>2, MaxOf
  <2> QED BY <1>1, <1>2, <1>6, <2>3
<1> DEFINE range == [from |-> g + k, to |-> g + n]
<1>8. deepest_position_for_offset(x) = g + k /\ deepest_position_for_offset(a * n) = g + n
  <2>1. (a * n) \div a = n BY <1>1, <1>2, ExactQuotient
  <2> QED BY <1>1, <1>2, <2>1 DEF deepest_position_for_offset, leftmost_child
<1>9. FreeFrom(range)[g + k]
  <2>1. effective_memory_size(memory_size) - Max({VirtualSlots(memory_size), 1}) * a = a * n
    <3>1. Max({VirtualSlots(memory_size), 1}) = g - n BY <1>5, <1>7, Zenon
    <3>2. PICK v \in Nat : v = g - n BY <1>4
    <3>3. PICK y \in Nat, z \in Nat : y = a * g /\ z = a * n /\ y - z = a * v BY <1>1, <1>4, <3>2
    <3>4. v * a = a * v BY SMT
    <3>5. y - v * a = z BY <3>3, <3>4
    <3> QED BY <1>3, <3>1, <3>2, <3>3, <3>5, Zenon
  <2> QED BY <1>2, <1>8, <2>1, Zenon DEF is_free
<1>10. range.from \in Nat /\ range.from >= 1 /\ range.to \in Nat /\ range.to = g + n BY <1>1, <1>2, <1>6
<1>11. k < g BY <1>1, <1>2, <1>6
<1>12. \A s \in Nat : k <= s /\ s < g /\ g + s < range.to => SlotFree(o, s)
  <2> HIDE DEF range
  <2>1. k < pow2[o - 1] /\ FreeFrom(range)[pow2[o - 1] + k] BY <1>2, <1>9, <1>11
  <2> QED BY <1>1, <1>2, <1>10, <2>1, FreeRun
<1>13. PICK lo \in Nat, w \in Nat : lo = Lo(o, p) /\ w = Width(o, p) /\ w >= 1 /\ lo + w <= n BY LiveInside
<1> SUFFICES ASSUME k < lo + w PROVE FALSE BY <1>13
<1>14. PICK s \in Nat : s = lo + w - 1 BY <1>13
<1>15. k <= s /\ s < n /\ lo <= s /\ s < lo + w BY <1>1, <1>13, <1>14
<1>16. SlotFree(o, s) BY <1>1, <1>2, <1>6, <1>10, <1>12, <1>15
<1>17. p \in Marked(tree) /\ p \in Positions(o) BY LiveInside
<1>18. Covers(p, Deepest(o, s)) BY <1>1, <1>2, <1>6, <1>13, <1>15, <1>17, CoversSlot
<1> QED BY <1>16, <1>17, <1>18 DEF SlotFree

-----------------------------------------------------------------------------
(* Resizing by careful callers *)

\* A larger arena has no smaller tree.
LEMMA OrderGrows ==
    ASSUME NEW m, NEW o, NEW n, Arena(m, o, n), NEW new, NEW d, NEW k, Arena(new, d, k), n <= k
    PROVE  o <= d
<1>1. /\ o \in 1 .. MaxOrder /\ n \in Nat /\ pow2[o - 1] < 2 * n
      /\ d \in 1 .. MaxOrder /\ k \in Nat /\ k <= pow2[d - 1]
  BY DEF Arena
<1>2. o \in Nat /\ d \in Nat /\ o - 1 \in Nat /\ d - 1 \in Nat /\ (d - 1) + 1 = d BY <1>1, OrderAssumption
<1>3. PICK g \in Nat, h \in Nat : g = pow2[o - 1] /\ h = pow2[d - 1] /\ pow2[d] = 2 * h BY <1>2, PowerIs
<1> SUFFICES ASSUME d < o PROVE FALSE BY <1>2
<1>4. d <= o - 1 BY <1>2
<1>5. pow2[d] <= pow2[o - 1] BY <1>2, <1>4, PowerGrows
<1> QED BY <1>1, <1>3, <1>5

LEMMA WholeTrim ==
    ASSUME NEW k \in Nat
    PROVE  TrimDown(k * BUDDY_ALLOC_ALIGN) = k * BUDDY_ALLOC_ALIGN
<1>1. PICK a \in Nat : a = BUDDY_ALLOC_ALIGN /\ a >= 1 BY AlignIs
<1>2. PICK u \in Nat : u = k * a /\ u = a * k BY <1>1
<1>3. PICK r \in Nat, q \in Nat : r = (u % a) /\ u = a * q + r /\ r < a BY <1>1, Division
<1>4. u \div a = k BY <1>1, <1>2, ExactQuotient
<1>5. a * q <= u /\ u < a * (q + 1)
  <2>1. a * (q + 1) = a * q + a BY TimesSuccessor
  <2> QED BY <1>3, <2>1
<1>6. q = k
  <2>1. a * q <= a * k /\ a * k < a * (q + 1) BY <1>2, <1>5
  <2>2. k < q + 1 BY <2>1, TimesStrict
  <2>3. q < k + 1
    <3>1. a * (k + 1) = a * k + a BY TimesSuccessor
    <3>2. a * q < a * (k + 1) BY <1>1, <2>1, <3>1
    <3> QED BY <3>2, TimesStrict
  <2> QED BY <2>2, <2>3
<1>7. (u % a) = 0 BY <1>2, <1>3, <1>6
<1>8. TrimDown(u) = u BY <1>1, <1>7 DEF TrimDown
<1> QED BY <1>1, <1>2, <1>8

LEMMA ResizesKeep ==
    ASSUME Downsizing = "careful", HeapInv, Resizes
    PROVE  Kept
<1>1. PICK o, n : /\ Arena(memory_size, o, n) /\ HeapOK(o, n, tree) /\ blocks = BlocksOf(o, n, tree)
                  /\ left_bias \in BOOLEAN
  BY DEF HeapInv
<1>2. PICK i \in 1 .. MaxSlots : Asked(i * BUDDY_ALLOC_ALIGN) /\ resize(i * BUDDY_ALLOC_ALIGN) BY DEF Resizes
<1>3. PICK new : new = i * BUDDY_ALLOC_ALIGN OBVIOUS
<1>4. TrimDown(new) = new
  <2>1. i \in Nat BY WidthAssumption
  <2> QED BY <1>3, <2>1, WholeTrim
<1>5. PICK d, k : Arena(new, d, k)
  <2>1. WholeSlots(new) BY <1>3 DEF WholeSlots
  <2> QED BY <2>1, ArenaIs
<1>6. /\ n \in Nat /\ memory_size = BUDDY_ALLOC_ALIGN * n
      /\ k \in Nat /\ new = BUDDY_ALLOC_ALIGN * k /\ d = tree_order_for_memory(new)
  BY <1>1, <1>5 DEF Arena
<1>7. CASE Refused BY <1>7, RefusedStep
<1>8. CASE ~Refused
  <2>1. /\ is_free(new) /\ tree' = Resized(new) /\ memory_size' = new /\ answer' = Null
        /\ left_bias' = left_bias /\ blocks' = blocks
    BY <1>2, <1>3, <1>4, <1>8 DEF resize
  <2>2. CASE n <= k
    <3>1. o <= d BY <1>1, <1>5, <2>2, OrderGrows
    <3>2. \A p \in Live(n, tree) : Lo(o, p) + Width(o, p) <= k
      <4> SUFFICES ASSUME NEW p \in Live(n, tree) PROVE Lo(o, p) + Width(o, p) <= k OBVIOUS
      <4>1. Lo(o, p) \in Nat /\ Width(o, p) \in Nat /\ Lo(o, p) + Width(o, p) <= n BY <1>1, LiveInside
      <4> QED BY <1>6, <2>2, <4>1
    <3> QED BY <1>1, <1>5, <2>1, <3>1, <3>2, ResizedStep
  <2>3. CASE k < n
    <3>1. ~(new >= memory_size)
      <4>1. PICK a \in Nat : a = BUDDY_ALLOC_ALIGN /\ a >= 1 BY AlignIs
      <4>2. a * (k + 1) <= a * n /\ a * (k + 1) = a * k + a BY <1>6, <2>3, TimesMonotone, TimesSuccessor
      <4> QED BY <1>6, <4>1, <4>2
    <3>2. VirtualSlots(memory_size) # 0 /\ d = tree.order BY <1>2, <1>3, <1>6, <3>1 DEF Asked
    <3>3. d = o /\ o \in Nat BY <1>1, <3>2, HeapIs
    <3>4. \A p \in Live(n, tree) : Lo(o, p) + Width(o, p) <= k
      <4>1. new \in Nat /\ k = new \div BUDDY_ALLOC_ALIGN BY <1>6, FirstByte
      <4> QED BY <1>1, <1>6, <2>1, <2>3, <3>2, <4>1, FreeMeans
    <3> QED BY <1>1, <1>5, <2>1, <3>3, <3>4, ResizedStep
  <2> QED BY <1>6, <2>2, <2>3
<1> QED BY <1>7, <1>8

LEMMA NextKeeps ==
    ASSUME Downsizing = "careful", HeapInv, [Next]_buddyVars
    PROVE  Kept
<1>1. CASE Resizes BY <1>1, ResizesKeep
<1>2. CASE [Calls]_buddyVars BY <1>2, CallsKeep
<1> QED BY <1>1, <1>2 DEF Next

LEMMA HeapAlwaysResized ==
    ASSUME Downsizing = "careful"
    PROVE  Spec => []HeapInv
<1>1. Init => HeapInv BY HeapStarts
<1>2. HeapInv /\ [Next]_buddyVars => HeapInv' BY NextKeeps DEF Kept
<1> QED BY <1>1, <1>2, PTL DEF Spec

-----------------------------------------------------------------------------
(* What holds of an arena that careful callers resize *)

\* In an arena with virtual slots buddy_is_empty and buddy_can_shrink never answer yes
\* while a block is in the way.  FreeQueriesExact says when they answer no on an arena
\* that is empty, and yes on one of a slot or two that is not.
NoFalseYes ==
    VirtualSlots(memory_size) # 0 =>
        /\ is_empty => blocks = {}
        /\ can_shrink => \A b \in blocks : b.addr + b.size <= memory_size \div 2

LEMMA QueriesFrom == HeapInv => NoFalseYes
<1> SUFFICES ASSUME HeapInv, VirtualSlots(memory_size) # 0
             PROVE  /\ is_empty => blocks = {}
                    /\ can_shrink => \A b \in blocks : b.addr + b.size <= memory_size \div 2
  BY DEF NoFalseYes
<1>1. PICK o, n : Arena(memory_size, o, n) /\ HeapOK(o, n, tree) /\ blocks = BlocksOf(o, n, tree) BY DEF HeapInv
<1>2. n \in Nat /\ n >= 1 /\ memory_size = BUDDY_ALLOC_ALIGN * n BY <1>1 DEF Arena
<1>3. PICK a \in Nat : a = BUDDY_ALLOC_ALIGN /\ a >= 1 BY AlignIs
<1>4. ASSUME NEW b \in blocks
      PROVE  \E p \in Live(n, tree), lo \in Nat, w \in Nat :
                 /\ lo = Lo(o, p) /\ w = Width(o, p) /\ w >= 1 /\ b.addr = a * lo /\ b.size = a * w
  <2>1. PICK p \in Live(n, tree) : b = BlockAt(o, p) BY <1>1 DEF BlocksOf
  <2>2. PICK lo \in Nat, w \in Nat : lo = Lo(o, p) /\ w = Width(o, p) /\ w >= 1 BY <1>1, <2>1, LiveInside
  <2>3. b.addr = a * lo /\ b.size = a * w BY <1>3, <2>1, <2>2 DEF BlockAt
  <2> QED BY <2>2, <2>3
<1>5. ASSUME is_empty, NEW b \in blocks PROVE FALSE
  <2>1. PICK p \in Live(n, tree), lo \in Nat, w \in Nat : lo = Lo(o, p) /\ w = Width(o, p) /\ w >= 1 BY <1>4
  <2>2. 0 = 0 \div BUDDY_ALLOC_ALIGN BY <1>3
  <2>3. is_free(0) BY <1>5 DEF is_empty
  <2>4. Lo(o, p) + Width(o, p) <= 0 BY <1>1, <1>2, <2>2, <2>3, FreeMeans
  <2> QED BY <2>1, <2>4
<1>6. ASSUME can_shrink, NEW b \in blocks PROVE b.addr + b.size <= memory_size \div 2
  <2>1. PICK p \in Live(n, tree), lo \in Nat, w \in Nat :
          lo = Lo(o, p) /\ w = Width(o, p) /\ b.addr = a * lo /\ b.size = a * w
    BY <1>4
  <2>2. PICK m \in Nat : m = memory_size /\ m = a * n /\ m >= 1
    <3>1. a * 1 <= a * n BY <1>2, <1>3, TimesMonotone
    <3> QED BY <1>2, <1>3, <3>1
  <2>3. PICK h \in Nat : h = m \div 2 /\ h < m BY <2>2, HalfIs
  <2>4. PICK k \in Nat : k = h \div a /\ a * k <= h BY <1>3, Quotient
  <2>5. k < n BY <1>2, <1>3, <2>2, <2>3, <2>4, QuotientBelow
  <2>6. is_free(h) BY <1>6, <2>2, <2>3 DEF can_shrink
  <2>7. lo + w <= k BY <1>1, <1>3, <2>1, <2>4, <2>5, <2>6, FreeMeans
  <2>8. a * (lo + w) <= a * k /\ a * (lo + w) = a * lo + a * w BY <2>7, TimesMonotone, SMT
  <2>9. a * lo \in Nat /\ a * w \in Nat /\ a * k \in Nat BY SMT
  <2> QED BY <2>1, <2>2, <2>3, <2>4, <2>8, <2>9
<1> QED BY <1>5, <1>6

\* buddy_resize keeps every block where it is as well, in arenas of any size: whatever
\* the calls and the resizes of careful callers, up to any size or down inside the same
\* order with virtual slots, the tree implements a set of disjoint blocks inside the
\* arena.  Growing moves the tree bit by bit, an order at a time (buddy_tree_grow).
THEOREM ResizedArenaImplementsHeap ==
    ASSUME Downsizing = "careful"
    PROVE  Spec => ImplementsHeap
<1>1. Init => Heap!Init BY HeapStarts
<1>2. HeapInv /\ [Next]_buddyVars => [Heap!Next]_(Heap!heapVars) BY NextKeeps DEF Kept
<1> QED BY <1>1, <1>2, HeapAlwaysResized, PTL DEF Spec, ImplementsHeap, Heap!Spec

\* However often the arena is resized by careful callers, the bits of the tree stay in
\* front of its table, its order is the one of the arena, and every block and every
\* answer lies inside the arena.
THEOREM ResizedArenaTyped ==
    ASSUME Downsizing = "careful"
    PROVE  Spec => []BuddyTypeOK
BY HeapAlwaysResized, TypeFrom, PTL

\* No false refusal after a resize: a request is refused only when no position of its
\* size class is free.
THEOREM ResizedArenaRefusals ==
    ASSUME Downsizing = "careful"
    PROVE  Spec => []RefusedOnlyWhenFull
BY HeapAlwaysResized, FullFrom, PTL

\* Every status stays exact when the arena is resized, although every row of the tree
\* is moved over others and the status of the new root is all that is computed anew.
THEOREM ResizedArenaStatuses ==
    ASSUME Downsizing = "careful"
    PROVE  Spec => []StatusExact
BY HeapAlwaysResized, StatusesFrom, PTL

\* realloc keeps the contents in an arena that was resized.
THEOREM ResizedArenaRealloc ==
    ASSUME Downsizing = "careful"
    PROVE  Spec => []ReallocKeepsContents
BY HeapAlwaysResized, ReallocFrom, PTL

\* buddy_is_empty and buddy_can_shrink never say yes while a block is in the way, in an
\* arena of any size with virtual slots: buddy_is_free looks at the largest positions
\* inside the range, and above each of them.  (Without virtual slots the last slot is not
\* looked at; what is answered then, and when an empty arena is called occupied, is
\* FreeQueriesExact.)
THEOREM ResizedArenaQueries ==
    ASSUME Downsizing = "careful"
    PROVE  Spec => []NoFalseYes
BY HeapAlwaysResized, QueriesFrom, PTL

-----------------------------------------------------------------------------
(* What the allocator promises as an implementation of AbstractHeap *)

LEMMA DisjointBothWays ==
    ASSUME NEW b, NEW d, Heap!Disjoint(b, d)
    PROVE  Heap!Disjoint(d, b)
BY DEF Heap!Disjoint

\* A block put where it overlaps none of the others keeps them all apart.
LEMMA NewBlock ==
    ASSUME Heap!Separate, NEW others \in SUBSET blocks, NEW a \in Int, NEW n \in Int,
           Heap!FreeSpot(Heap!Block(a, n), others),
           blocks' = others \cup {Heap!Block(a, n)}, memory_size' = memory_size
    PROVE  Heap!Separate'
<1> DEFINE new == Heap!Block(a, n)
<1>1. new.addr >= 0 /\ new.addr + new.size <= memory_size /\ \A d \in others : Heap!Disjoint(new, d)
  BY DEF Heap!FreeSpot
<1> HIDE DEF new
<1>2. \A b \in blocks' : b.addr >= 0 /\ b.addr + b.size <= memory_size'
  BY <1>1 DEF Heap!Separate, new
<1>3. ASSUME NEW b \in blocks', NEW d \in blocks', b # d PROVE Heap!Disjoint(b, d)
  <2>1. CASE b = new BY <1>1, <1>3, <2>1 DEF new
  <2>2. CASE d = new BY <1>1, <1>3, <2>2, DisjointBothWays DEF new
  <2>3. CASE b # new /\ d # new
    <3>1. b \in blocks /\ d \in blocks BY <2>3 DEF new
    <3> QED BY <1>3, <3>1 DEF Heap!Separate
  <2> QED BY <2>1, <2>2, <2>3
<1>4. \A b, d \in blocks' : b # d => Heap!Disjoint(b, d)' BY <1>3 DEF Heap!Disjoint
<1> QED BY <1>2, <1>4 DEF Heap!Separate

LEMMA FewerBlocks ==
    ASSUME Heap!Separate, blocks' \subseteq blocks, memory_size' = memory_size
    PROVE  Heap!Separate'
BY DEF Heap!Separate, Heap!Disjoint

LEMMA SeparateKept ==
    ASSUME Heap!Separate, [Heap!Next]_(Heap!heapVars)
    PROVE  Heap!Separate'
<1>1. CASE Heap!Refuse BY <1>1, FewerBlocks DEF Heap!Refuse
<1>2. CASE Heap!Allocate
  <2>1. PICK a \in 0 .. memory_size, n \in 1 .. memory_size :
          Heap!FreeSpot(Heap!Block(a, n), blocks) /\ blocks' = blocks \cup {Heap!Block(a, n)} /\ memory_size' = memory_size
    BY <1>2 DEF Heap!Allocate
  <2> QED BY <2>1, NewBlock
<1>3. CASE Heap!Free BY <1>3, FewerBlocks DEF Heap!Free
<1>4. CASE Heap!Move
  <2>1. PICK b \in blocks, a \in 0 .. memory_size, n \in 1 .. memory_size :
          /\ Heap!FreeSpot(Heap!Block(a, n), blocks \ {b})
          /\ blocks' = (blocks \ {b}) \cup {Heap!Block(a, n)} /\ memory_size' = memory_size
    BY <1>4 DEF Heap!Move
  <2>2. blocks \ {b} \in SUBSET blocks OBVIOUS
  <2> QED BY <2>1, <2>2, NewBlock
<1>5. CASE Heap!Reserve
  <2> DEFINE added == {b \in blocks' : b \notin blocks}
  <2>1. /\ blocks \subseteq blocks' /\ memory_size' = memory_size
        /\ \A b \in added : Heap!FreeSpot(b, blocks' \ {b})
    BY <1>5 DEF Heap!Reserve
  <2>2. \A b \in blocks' : b.addr >= 0 /\ b.addr + b.size <= memory_size'
    BY <2>1 DEF Heap!Separate, Heap!FreeSpot
  <2>3. ASSUME NEW b \in blocks', NEW d \in blocks', b # d PROVE Heap!Disjoint(b, d)
    <3>1. CASE b \in added BY <2>1, <2>3, <3>1 DEF Heap!FreeSpot
    <3>2. CASE d \in added
      <4>1. Heap!Disjoint(d, b) BY <2>1, <2>3, <3>2 DEF Heap!FreeSpot
      <4> QED BY <4>1, DisjointBothWays
    <3>3. CASE b \in blocks /\ d \in blocks BY <2>3, <3>3 DEF Heap!Separate
    <3> QED BY <3>1, <3>2, <3>3
  <2>4. \A b, d \in blocks' : b # d => Heap!Disjoint(b, d)' BY <2>3 DEF Heap!Disjoint
  <2> QED BY <2>2, <2>4 DEF Heap!Separate
<1>6. CASE Heap!Release BY <1>6, FewerBlocks DEF Heap!Release
<1>7. CASE Heap!Resize BY <1>7 DEF Heap!Resize, Heap!Separate, Heap!Disjoint
<1>8. CASE UNCHANGED Heap!heapVars BY <1>8, FewerBlocks DEF Heap!heapVars
<1> QED BY <1>1, <1>2, <1>3, <1>4, <1>5, <1>6, <1>7, <1>8 DEF Heap!Next

LEMMA HandedOutKept ==
    ASSUME Heap!HandedOut, [Heap!Next]_(Heap!heapVars)
    PROVE  Heap!HandedOut'
<1>1. CASE answer' = Null BY <1>1 DEF Heap!HandedOut
<1>2. ASSUME NEW a, NEW n, Heap!Block(a, n) \in blocks', answer' = a PROVE Heap!HandedOut'
  <2>1. Heap!Block(a, n).addr = a BY DEF Heap!Block
  <2> QED BY <1>2, <2>1 DEF Heap!HandedOut
<1>3. CASE Heap!Allocate BY <1>2, <1>3 DEF Heap!Allocate
<1>4. CASE Heap!Move BY <1>2, <1>4 DEF Heap!Move
<1>5. CASE UNCHANGED Heap!heapVars BY <1>5 DEF Heap!heapVars, Heap!HandedOut
<1> QED BY <1>1, <1>3, <1>4, <1>5 DEF Heap!Next, Heap!Refuse, Heap!Free, Heap!Reserve, Heap!Release, Heap!Resize

\* No two blocks of the heap ever overlap and none leaves the arena, whatever is
\* allocated, freed, moved, reserved, released and resized in whatever order.
THEOREM BlocksStaySeparate == Heap!Spec => []Heap!Separate
<1>1. Heap!Init => Heap!Separate BY DEF Heap!Init, Heap!Separate
<1>2. Heap!Separate /\ [Heap!Next]_(Heap!heapVars) => Heap!Separate' BY SeparateKept
<1> QED BY <1>1, <1>2, PTL DEF Heap!Spec

\* A caller is only ever given the address of a block that is its own.
THEOREM AnswersAreBlocks == Heap!Spec => []Heap!HandedOut
<1>1. Heap!Init => Heap!HandedOut BY DEF Heap!Init, Heap!HandedOut
<1>2. Heap!HandedOut /\ [Heap!Next]_(Heap!heapVars) => Heap!HandedOut' BY HandedOutKept
<1> QED BY <1>1, <1>2, PTL DEF Heap!Spec

\* In an arena that is never resized, whatever its size: no two blocks in the callers'
\* hands overlap, none reaches beyond the arena, and every address handed out is the
\* start of one of them.
THEOREM FixedArenaSafe == FixedSpec => [](Heap!Separate /\ Heap!HandedOut)
<1>1. FixedSpec => Heap!Spec BY FixedArenaImplementsHeap DEF ImplementsHeap
<1> QED BY <1>1, BlocksStaySeparate, AnswersAreBlocks, PTL

\* And in one that careful callers resize.
THEOREM ResizedArenaSafe ==
    ASSUME Downsizing = "careful"
    PROVE  Spec => [](Heap!Separate /\ Heap!HandedOut)
<1>1. Spec => Heap!Spec BY ResizedArenaImplementsHeap DEF ImplementsHeap
<1> QED BY <1>1, BlocksStaySeparate, AnswersAreBlocks, PTL

=============================================================================
