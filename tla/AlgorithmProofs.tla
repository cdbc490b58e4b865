--------------------------- MODULE AlgorithmProofs ---------------------------
(***************************************************************************)
(* Proofs about the pure parts of the drivers, of drawing and of the        *)
(* file-system tool: every width of the counter and all times, all          *)
(* partition tables, circles of any radius, all pins and interrupts; and    *)
(* that the answers of Algorithms are right whatever its bounds.            *)
(***************************************************************************)
EXTENDS Algorithms, SortProofs

-----------------------------------------------------------------------------
(* The counter in two halves *)

LEMMA DivMod ==
    ASSUME NEW n \in Nat, NEW h \in Nat \ {0}
    PROVE  n \div h \in Nat /\ n % h \in 0 .. h - 1 /\ n = h * (n \div h) + (n % h)
<1>1. n \div h \in Nat OBVIOUS
<1>2. n % h \in 0 .. h - 1 OBVIOUS
<1>3. n = h * (n \div h) + (n % h) OBVIOUS
<1> QED BY <1>1, <1>2, <1>3

LEMMA RemainderOf ==
    ASSUME NEW n \in Int, NEW h \in Nat \ {0}, NEW q \in Int, NEW r \in 0 .. h - 1, n = h * q + r
    PROVE  n % h = r
OBVIOUS

LEMMA ProductMonotone ==
    ASSUME NEW h \in Nat \ {0}, NEW a \in Nat, NEW b \in Nat, a <= b
    PROVE  h * a <= h * b
<1>1. PICK k \in Nat : b = a + k
  <2>1. b - a \in Nat /\ b = a + (b - a) OBVIOUS
  <2> QED BY <2>1
<1>2. h * b = h * a + h * k /\ h * k \in Nat /\ h * a \in Nat BY <1>1
<1> QED BY <1>2

LEMMA QuotientMonotone ==
    ASSUME NEW h \in Nat \ {0}, NEW a \in Nat, NEW b \in Nat, a <= b
    PROVE  a \div h <= b \div h
<1> DEFINE qa == a \div h
           qb == b \div h
           ra == a % h
           rb == b % h
<1>1. qa \in Nat /\ ra \in 0 .. h - 1 /\ a = h * qa + ra BY DivMod
<1>2. qb \in Nat /\ rb \in 0 .. h - 1 /\ b = h * qb + rb BY DivMod
<1> HIDE DEF qa, qb, ra, rb
<1>3. ASSUME qb + 1 <= qa PROVE FALSE
  <2>1. h * (qb + 1) <= h * qa BY <1>1, <1>2, <1>3, ProductMonotone
  <2>2. h * (qb + 1) = h * qb + h BY <1>2
  <2>3. h * qb \in Nat /\ h * qa \in Nat BY <1>1, <1>2
  <2> QED BY <1>1, <1>2, <2>1, <2>2, <2>3
<1>4. qa <= qb BY <1>1, <1>2, <1>3
<1> QED BY <1>4 DEF qa, qb

\* Before the counter wraps, its high half is the quotient.
LEMMA HighHalf ==
    ASSUME NEW h \in Nat \ {0}, NEW n \in 0 .. h * h - 1
    PROVE  Hi(h, n) = n \div h
<1> DEFINE q == n \div h
           r == n % h
<1>1. n \in Nat /\ h * h \in Nat OBVIOUS
<1>2. q \in Nat /\ r \in 0 .. h - 1 /\ n = h * q + r BY <1>1, DivMod
<1> HIDE DEF q, r
<1>3. q < h
  <2>1. SUFFICES ASSUME h <= q PROVE FALSE BY <1>2
  <2>2. h * h <= h * q BY <1>2, <2>1, ProductMonotone
  <2> QED BY <1>1, <1>2, <2>2
<1>4. q = h * 0 + q /\ q \in 0 .. h - 1 BY <1>2, <1>3
<1>5. q % h = q BY <1>2, <1>4, RemainderOf
<1> QED BY <1>5 DEF Hi, q

\* The compare register and the low half meet again after less than a round.
LEMMA MatchIs ==
    ASSUME NEW h \in Nat \ {0}, NEW t1 \in Nat, NEW t3 \in Nat, NEW us \in 1 .. h - 1,
           t1 <= t3, t3 < t1 + us
    PROVE  MatchAfter(h, t3, ((t1 % h) + us) % h) = t1 + us
<1> DEFINE q == t1 \div h
           r == t1 % h
           q2 == (r + us) \div h
           c == (r + us) % h
           gap == t1 + us - (t3 + 1)
<1>1. q \in Nat /\ r \in 0 .. h - 1 /\ t1 = h * q + r BY DivMod
<1>2. q2 \in Nat /\ c \in 0 .. h - 1 /\ r + us = h * q2 + c
  <2>1. r + us \in Nat BY <1>1
  <2> QED BY <2>1, DivMod
<1>3. gap \in 0 .. h - 1 OBVIOUS
<1> HIDE DEF q, q2, r, c, gap
<1>4. c - (t3 + 1) = h * (0 - q - q2) + gap
  <2>1. h * (0 - q - q2) = 0 - h * q - h * q2 BY <1>1, <1>2
  <2>2. h * q \in Nat /\ h * q2 \in Nat BY <1>1, <1>2
  <2> QED BY <1>1, <1>2, <2>1, <2>2 DEF gap
<1>5. c - (t3 + 1) \in Int /\ 0 - q - q2 \in Int BY <1>1, <1>2
<1>6. (c - (t3 + 1)) % h = gap BY <1>3, <1>4, <1>5, RemainderOf
<1>7. MatchAfter(h, t3, c) = t3 + 1 + gap BY <1>6 DEF MatchAfter
<1>8. t3 + 1 + gap = t1 + us BY DEF gap
<1> QED BY <1>7, <1>8 DEF c, r

\* getCounter never returns less than the time of its first read, and that time itself
\* unless the low half wraps in between; WaitMicroT1 sets the compare register to meet
\* the low half us after its first read.  For every width and all times before the
\* 64-bit counter wraps.
THEOREM CounterOfAnyWidth ==
    ASSUME NEW h \in Nat \ {0},
           NEW t1 \in 0 .. h * h - 1, NEW t2 \in 0 .. h * h - 1, NEW t3 \in 0 .. h * h - 1,
           t1 <= t2, t2 <= t3, LastPass(h, <<t1, t2, t3>>), NEW us \in 1 .. h - 1
    PROVE  CounterRight(h, <<t1, t2, t3>>, us,
                        [counter |-> getCounter(h, <<t1, t2, t3>>),
                         compare |-> WaitMicroT1(h, <<t1, t2, t3>>, us)])
<1> DEFINE counter == (t2 \div h) * h + (t1 % h)
           compare == ((t1 % h) + us) % h
<1>1. h * h \in Nat /\ t1 \in Nat /\ t2 \in Nat /\ t3 \in Nat OBVIOUS
<1>2. Hi(h, t1) = t1 \div h /\ Hi(h, t2) = t2 \div h /\ Hi(h, t3) = t3 \div h BY HighHalf
<1>3. getCounter(h, <<t1, t2, t3>>) = counter BY <1>2 DEF getCounter, Lo
<1>4. WaitMicroT1(h, <<t1, t2, t3>>, us) = compare BY DEF WaitMicroT1, Lo
<1>5. t2 \div h = t3 \div h BY <1>2 DEF LastPass
<1>6. /\ t1 \div h \in Nat /\ t1 % h \in 0 .. h - 1 /\ t1 = h * (t1 \div h) + (t1 % h)
      /\ t2 \div h \in Nat
  BY <1>1, DivMod
<1>7. counter >= t1
  <2>1. t1 \div h <= t2 \div h BY <1>1, QuotientMonotone
  <2>2. h * (t1 \div h) <= h * (t2 \div h) BY <1>6, <2>1, ProductMonotone
  <2>3. (t2 \div h) * h = h * (t2 \div h) /\ h * (t2 \div h) \in Nat /\ h * (t1 \div h) \in Nat BY <1>6
  <2> QED BY <1>6, <2>2, <2>3
<1>8. Hi(h, t1) = Hi(h, t3) => counter = t1
  <2>1. SUFFICES ASSUME t1 \div h = t2 \div h PROVE counter = t1 BY <1>2, <1>5
  <2>2. (t1 \div h) * h = h * (t1 \div h) BY <1>6
  <2> QED BY <1>6, <2>1, <2>2
<1>9. t3 < t1 + us => MatchAfter(h, t3, compare) = t1 + us
  <2>1. t1 <= t3 BY <1>1
  <2> QED BY <1>1, <2>1, MatchIs
<1> HIDE DEF counter, compare
<1> QED BY <1>3, <1>4, <1>7, <1>8, <1>9 DEF CounterRight

-----------------------------------------------------------------------------
(* The layout of a partition *)

Entry == [type : Nat, first : Nat, sectors : Nat]

LEMMA MaxOfFour ==
    ASSUME NEW F, F \subseteq 1 .. 4, F # {}
    PROVE  \E i \in F : \A j \in F : j <= i
<1>1. \A j \in F : j = 1 \/ j = 2 \/ j = 3 \/ j = 4 OBVIOUS
<1>2. CASE 4 \in F BY <1>1, <1>2
<1>3. CASE 4 \notin F /\ 3 \in F BY <1>1, <1>3
<1>4. CASE 4 \notin F /\ 3 \notin F /\ 2 \in F BY <1>1, <1>4
<1>5. CASE 4 \notin F /\ 3 \notin F /\ 2 \notin F
  <2>1. \A j \in F : j = 1 BY <1>1, <1>5
  <2>2. 1 \in F
    <3>1. PICK j \in F : TRUE OBVIOUS
    <3> QED BY <2>1, <3>1
  <2>3. \A j \in F : j <= 1 BY <2>1, <2>2
  <2> QED BY <2>2, <2>3
<1> QED BY <1>2, <1>3, <1>4, <1>5

\* The tool takes an entry of Lagor's type if and only if one comes before the first
\* unused entry.
LEMMA ScanOfAnyTable ==
    ASSUME NEW table \in [1 .. 4 -> Entry]
    PROVE  /\ ScanRight(table, FindPartition(table))
           /\ FindPartition(table) = Unset \/ FindPartition(table) \in Entry
<1>1. Found(table) \subseteq 1 .. 4 BY DEF Found, Scanned
<1>2. ASSUME Found(table) # {}
      PROVE  \E i \in Found(table) : \A j \in Found(table) : j <= i
  BY <1>1, <1>2, MaxOfFour
<1>3. ASSUME Found(table) # {} PROVE FindPartition(table) \in Entry
  <2> DEFINE i == CHOOSE i \in Found(table) : \A j \in Found(table) : j <= i
  <2>1. i \in Found(table) BY <1>2, <1>3
  <2>2. FindPartition(table) = table[i] BY <1>3 DEF FindPartition
  <2> HIDE DEF i
  <2> QED BY <1>1, <2>1, <2>2
<1>4. Unset \notin Entry BY DEF Unset, Entry
<1>5. Found(table) = {} => FindPartition(table) = Unset BY DEF FindPartition
<1>6. FindPartition(table) = Unset <=> Found(table) = {} BY <1>3, <1>4, <1>5
<1>7. Found(table) = {} <=> \A i \in DOMAIN table :
          table[i].type = LagorType => \E j \in 1 .. i : table[j].type = 0
  BY DEF Found, Scanned
<1> QED BY <1>3, <1>5, <1>6, <1>7 DEF ScanRight

\* Where everything is in a partition that has room for a pool and ends below 4 GB.
LEMMA WritesOfAnyPartition ==
    ASSUME NEW part \in Entry, part.sectors > Pool, part.first + part.sectors < SectorWrap
    PROVE  WritesRight(part)
<1> DEFINE a == part.first
           s == part.sectors
           U == TotUnits(part)
           T(u) == a + 1 + u * 33024
<1>1. a \in Nat /\ s \in Nat /\ s > 33024 /\ a + s < 8388608
  BY DEF Entry, Pool, InodeTable, BlockPool, Block, SectorWrap
<1>2. Pool = 33024 /\ BlockPool = 32768 /\ SectorWrap = 8388608 /\ InodeTable = 256 /\ Block = 8
  BY DEF Pool, InodeTable, BlockPool, Block, SectorWrap
<1>3. U = (s - 1) \div 33024 BY <1>1, <1>2 DEF TotUnits, TotalSize
<1>4. U \in Nat /\ U >= 1 /\ U * 33024 <= s - 1 BY <1>1, <1>3
<1>5. \A k \in 0 .. s : Seek(part, k) = a + k BY <1>1, <1>2 DEF Seek
<1>6. \A u \in 0 .. U - 1 : TableStart(part, u) = T(u) BY <1>1, <1>2, <1>4, <1>5 DEF TableStart
<1>7. Superblock(part) = [from |-> a, to |-> a]
  <2>1. Seek(part, 0) = a BY <1>1, <1>5
  <2> QED BY <1>1, <2>1 DEF Superblock, Written
<1>8. FirstInodes(part) = [from |-> a + 1, to |-> a + 1]
  <2>1. Seek(part, 1) = a + 1 BY <1>1, <1>5
  <2> QED BY <1>1, <2>1 DEF FirstInodes, Written
<1>9. Blocks(part) = {[from |-> a + 265, to |-> a + 265], [from |-> a + 273, to |-> a + 273]}
  <2>1. BlockStart(part, 1) = a + 265 /\ BlockStart(part, 2) = a + 273
    BY <1>1, <1>2, <1>5 DEF BlockStart
  <2>2. Written(BlockStart(part, 1), 1) = [from |-> a + 265, to |-> a + 265] BY <1>1, <2>1 DEF Written
  <2>3. Written(BlockStart(part, 2), 1) = [from |-> a + 273, to |-> a + 273] BY <1>1, <2>1 DEF Written
  <2> QED BY <2>2, <2>3 DEF Blocks
<1>10. Tables(part) = {[from |-> T(u), to |-> T(u) + 255] : u \in 0 .. U - 1}
  <2>1. \A u \in 0 .. U - 1 : Written(TableStart(part, u), InodeTable) = [from |-> T(u), to |-> T(u) + 255]
    BY <1>1, <1>2, <1>4, <1>6 DEF Written
  <2> QED BY <2>1 DEF Tables
<1> HIDE DEF a, s, U
<1>11. \A u \in 0 .. U - 1 : T(u) \in Int /\ T(u) >= a + 1 /\ T(u) + 33024 <= a + s BY <1>1, <1>4
<1>12. \A u, v \in 0 .. U - 1 : u = v \/ T(u) + 33024 <= T(v) \/ T(v) + 33024 <= T(u) BY <1>1, <1>4
<1>13. T(0) = a + 1 /\ \A u \in 0 .. U - 1 : u = 0 \/ T(u) >= a + 33025 BY <1>1, <1>4
<1> HIDE DEF T
<1>14. \A w \in Tables(part) : /\ w.to = w.from + 255 /\ w.from \in Int
                               /\ w.from >= a + 1 /\ w.from + 33024 <= a + s
                               /\ w.from = a + 1 \/ w.from >= a + 33025
                               /\ w = [from |-> w.from, to |-> w.to]
  BY <1>10, <1>11, <1>13
<1>15. \A v, w \in Tables(part) : v = w \/ v.from + 33024 <= w.from \/ w.from + 33024 <= v.from
  <2> SUFFICES ASSUME NEW u1 \in 0 .. U - 1, NEW u2 \in 0 .. U - 1
               PROVE  \/ T(u1) = T(u2) \/ T(u1) + 33024 <= T(u2) \/ T(u2) + 33024 <= T(u1)
    BY <1>10
  <2> QED BY <1>12
<1>16. \A w \in {Superblock(part)} \cup Tables(part) \cup Blocks(part) : Inside(w, part)
  <2>1. Inside(Superblock(part), part) BY <1>1, <1>7 DEF Inside, a, s
  <2>2. \A w \in Tables(part) : Inside(w, part) BY <1>1, <1>14 DEF Inside, a, s
  <2>3. \A w \in Blocks(part) : Inside(w, part) BY <1>1, <1>9 DEF Inside, a, s
  <2> QED BY <2>1, <2>2, <2>3
<1>17. \A v, w \in {Superblock(part)} \cup Tables(part) \cup Blocks(part) : v = w \/ Apart(v, w)
  <2>1. \A w \in Tables(part) \cup Blocks(part) : Apart(Superblock(part), w) /\ Apart(w, Superblock(part))
    BY <1>1, <1>7, <1>9, <1>14 DEF Apart
  <2>2. \A v, w \in Tables(part) : v = w \/ Apart(v, w) BY <1>1, <1>14, <1>15 DEF Apart
  <2>3. \A v \in Tables(part), w \in Blocks(part) : Apart(v, w) /\ Apart(w, v)
    BY <1>1, <1>9, <1>14 DEF Apart
  <2>4. \A v, w \in Blocks(part) : v = w \/ Apart(v, w) BY <1>1, <1>9 DEF Apart
  <2> QED BY <2>1, <2>2, <2>3, <2>4
<1>18. \A w \in Tables(part) : WithBlocks(w) = [from |-> w.from, to |-> w.from + 33023]
  <2> TAKE w \in Tables(part)
  <2>1. w = [from |-> w.from, to |-> w.to] /\ w.to = w.from + 255 /\ w.from \in Int BY <1>14
  <2>2. WithBlocks(w) = [from |-> w.from, to |-> w.to + BlockPool] BY <2>1 DEF WithBlocks
  <2>3. w.to + BlockPool = w.from + 33023 BY <1>2, <2>1
  <2> QED BY <2>2, <2>3
<1>19. \A v, w \in Tables(part) : v = w \/ Apart(WithBlocks(v), WithBlocks(w))
  BY <1>14, <1>15, <1>18 DEF Apart
<1>20. \A v \in Tables(part) : Inside(WithBlocks(v), part) BY <1>1, <1>14, <1>18 DEF Inside, a, s
<1>21. \E w \in Tables(part) : FirstInodes(part).from = w.from
  <2>1. 0 \in 0 .. U - 1 BY <1>4
  <2>2. [from |-> T(0), to |-> T(0) + 255] \in Tables(part) BY <1>10, <2>1
  <2> QED BY <1>8, <1>13, <2>2
<1> QED BY <1>16, <1>17, <1>19, <1>20, <1>21 DEF WritesRight

\* What the tool writes is sound for every partition table: of any entries, anywhere
\* below 4 GB, of any size.
THEOREM LayoutOfAnyTable ==
    ASSUME NEW table \in [1 .. 4 -> Entry]
    PROVE  LayoutRight(table, FindPartition(table))
BY ScanOfAnyTable, WritesOfAnyPartition DEF LayoutRight

-----------------------------------------------------------------------------
(* The pixels of a circle *)

Turns == Int \X Int \X Int
Pixels == Int \X Int

\* One turn of the loop of drawLine, what the later turns draw given by f.
LineStep(x2, dx, dy, s, f) ==
    LET x == s[1]
        y == s[2]
        p == s[3]
    IN  IF x >= x2 THEN {}
        ELSE {<<x, y>>} \cup f[IF p >= 0 THEN <<x + 1, y + 1, p + 2 * dy - 2 * dx>>
                                         ELSE <<x + 1, y, p + 2 * dy>>]

LEMMA LineUnfolds ==
    ASSUME NEW x2 \in Int, NEW dx \in Int, NEW dy \in Int
    PROVE  \A s \in Turns : LineLoop(x2, dx, dy)[s] = LineStep(x2, dx, dy, s, LineLoop(x2, dx, dy))
<1> DEFINE V == SUBSET Pixels
           m == [s \in Turns |-> IF s[1] < x2 THEN x2 - s[1] ELSE 0]
           next(s) == IF s[3] >= 0 THEN <<s[1] + 1, s[2] + 1, s[3] + 2 * dy - 2 * dx>>
                                   ELSE <<s[1] + 1, s[2], s[3] + 2 * dy>>
           G == [s \in Turns |-> [f \in [Turns -> V] |-> LineStep(x2, dx, dy, s, f)]]
<1>1. m \in [Turns -> Nat] BY DEF Turns
<1>2. \A s \in Turns : next(s) \in Turns /\ next(s)[1] = s[1] + 1 /\ <<s[1], s[2]>> \in Pixels
  BY DEF Turns, Pixels
<1>3. \A s \in Turns : s[1] \in Int BY DEF Turns
<1>4. \A s, f : LineStep(x2, dx, dy, s, f) = IF s[1] >= x2 THEN {} ELSE {<<s[1], s[2]>>} \cup f[next(s)]
  BY DEF LineStep
<1> HIDE DEF next
<1>5. G \in [Turns -> [[Turns -> V] -> V]]
  <2> SUFFICES ASSUME NEW s \in Turns, NEW f \in [Turns -> V] PROVE LineStep(x2, dx, dy, s, f) \in V
    OBVIOUS
  <2>1. PICK t \in Turns : t = next(s) BY <1>2
  <2>2. f[t] \subseteq Pixels OBVIOUS
  <2>3. {<<s[1], s[2]>>} \cup f[t] \subseteq Pixels BY <1>2, <2>2
  <2>4. LineStep(x2, dx, dy, s, f) = IF s[1] >= x2 THEN {} ELSE {<<s[1], s[2]>>} \cup f[t]
    BY <1>4, <2>1
  <2> QED BY <2>3, <2>4
<1>6. Descends(Turns, V, m, G)
  <2> SUFFICES ASSUME NEW s \in Turns, NEW f \in [Turns -> V], NEW g \in [Turns -> V],
                      \A q \in Turns : m[q] < m[s] => f[q] = g[q]
               PROVE  LineStep(x2, dx, dy, s, f) = LineStep(x2, dx, dy, s, g)
    BY DEF Descends
  <2>1. CASE s[1] >= x2 BY <1>4, <2>1
  <2>2. CASE ~ (s[1] >= x2)
    <3>1. PICK t \in Turns : t = next(s) /\ t[1] = s[1] + 1 BY <1>2
    <3>2. m[t] < m[s] BY <1>3, <2>2, <3>1
    <3>3. f[t] = g[t]
      <4> HIDE DEF m
      <4> QED BY <3>2
    <3> QED BY <1>4, <3>1, <3>3
  <2> QED BY <2>1, <2>2
<1>7. PICK f : Solves(Turns, V, G, f)
  <2>1. V # {} OBVIOUS
  <2>2. WellDefined(Turns, V, m, G) BY <1>1, <1>5, <1>6, <2>1 DEF WellDefined
  <2> HIDE DEF V, m, G
  <2> QED BY <2>2, RecursionExists, Zenon
<1>8. f = [s \in Turns |-> LineStep(x2, dx, dy, s, f)] BY <1>7 DEF Solves
<1> DEFINE S == LineLoop(x2, dx, dy)
<1>9. S = [s \in Turns |-> LineStep(x2, dx, dy, s, S)]
  BY <1>8, Zenon DEF LineLoop, LineStep, Turns
<1> HIDE DEF S
<1>10. \A s \in Turns : S[s] = LineStep(x2, dx, dy, s, S) BY <1>9, Zenon
<1> QED BY <1>10 DEF S

\* A line from left to right stays in its row; its last pixel is left out.
LEMMA HorizontalLine ==
    ASSUME NEW x1 \in Int, NEW x2 \in Int, NEW y \in Int
    PROVE  drawLine(x1, y, x2, y) \subseteq (x1 .. x2 - 1) \X {y}
<1> DEFINE S == LineLoop(x2, x2 - x1, y - y)
           m == [s \in Turns |-> IF s[1] < x2 THEN x2 - s[1] ELSE 0]
           Row == (x1 .. x2 - 1) \X {y}
           OnRow(s) == s[1] >= x1 /\ s[2] = y /\ s[3] = x1 - x2
           Q == {s \in Turns : OnRow(s) => S[s] \subseteq Row}
<1>1. \A s \in Turns : S[s] = LineStep(x2, x2 - x1, y - y, s, S) BY LineUnfolds
<1>2. drawLine(x1, y, x2, y) = S[<<x1, y, x1 - x2>>]
  <2>1. 2 * (y - y) - (x2 - x1) = x1 - x2 OBVIOUS
  <2> QED BY <2>1 DEF drawLine
<1> HIDE DEF S
<1>3. m \in [Turns -> Nat] BY DEF Turns
<1>4. ASSUME NEW s \in Turns, \A q \in Turns : m[q] < m[s] => q \in Q, OnRow(s)
      PROVE  S[s] \subseteq Row
  <2>1. PICK x \in Int : s = <<x, y, x1 - x2>> /\ x >= x1 BY <1>4 DEF Turns
  <2>2. CASE x >= x2
    <3>1. S[s] = {} BY <1>1, <2>1, <2>2 DEF LineStep
    <3> QED BY <3>1
  <2>3. CASE x < x2
    <3> DEFINE t == <<x + 1, y, x1 - x2>>
    <3>1. t \in Turns BY DEF Turns
    <3>2. ~ (x1 - x2 >= 0) /\ ~ (x >= x2) /\ (x1 - x2) + 2 * (y - y) = x1 - x2 BY <2>1, <2>3
    <3>3. S[s] = {<<x, y>>} \cup S[t] BY <1>1, <2>1, <3>2 DEF LineStep
    <3>4. m[t] < m[s] BY <2>1, <2>3, <3>1
    <3>5. OnRow(t) BY <2>1
    <3> HIDE DEF m, t
    <3>6. S[t] \subseteq Row BY <1>4, <3>1, <3>4, <3>5
    <3>7. <<x, y>> \in Row BY <2>1, <2>3
    <3> HIDE DEF Row
    <3> QED BY <3>3, <3>6, <3>7
  <2> QED BY <2>1, <2>2, <2>3
<1>5. Q = Turns
  <2>1. Inductive(Turns, m, Q) BY <1>3, <1>4 DEF Inductive
  <2> HIDE DEF m, Q
  <2> QED BY <2>1, MeasureInduction, Zenon
<1>6. <<x1, y, x1 - x2>> \in Turns /\ OnRow(<<x1, y, x1 - x2>>) BY DEF Turns
<1> QED BY <1>2, <1>5, <1>6


\* One turn of the loop of drawCircle, what the later turns draw given by f.
CircleStep(x0, y0, fill, s, f) ==
    LET x == s[1]
        y == s[2]
    IN  IF x < y THEN {} ELSE Turn(x0, y0, x, y, fill) \cup f[NextTurn(x, y, s[3])]

\* After a turn x is not larger, y not smaller, and one of them has changed.
LEMMA TurnsEnd ==
    ASSUME NEW x \in Int, NEW y \in Int, NEW err \in Int
    PROVE  \E x1, y1, err1 \in Int :
              /\ NextTurn(x, y, err) = <<x1, y1, err1>>
              /\ x1 <= x /\ y1 >= y /\ x1 - y1 < x - y
<1> DEFINE ya == IF err <= 0 THEN y + 1 ELSE y
           ea == IF err <= 0 THEN err + 2 * ya + 1 ELSE err
           xa == IF ea > 0 THEN x - 1 ELSE x
           eb == IF ea > 0 THEN ea - (2 * xa + 1) ELSE ea
<1>1. ya \in Int /\ ya >= y /\ (err <= 0 => ya = y + 1) OBVIOUS
<1>2. NextTurn(x, y, err) = <<xa, ya, eb>> BY DEF NextTurn
<1> HIDE DEF ya
<1>3. ea \in Int /\ (~ (err <= 0) => ea > 0) BY <1>1
<1> HIDE DEF ea
<1>4. xa \in Int /\ xa <= x /\ (ea > 0 => xa = x - 1) BY <1>3
<1> HIDE DEF xa
<1>5. eb \in Int BY <1>3, <1>4
<1> HIDE DEF eb
<1>6. xa - ya < x - y BY <1>1, <1>3, <1>4
<1> QED BY <1>1, <1>2, <1>4, <1>5, <1>6

\* The square around a circle.
Square(x0, y0, r) == (x0 - r .. x0 + r) \X (y0 - r .. y0 + r)

LEMMA TurnInSquare ==
    ASSUME NEW x0 \in Int, NEW y0 \in Int, NEW r \in Int, NEW x \in Int, NEW y \in Int, NEW fill,
           0 <= y, y <= x, x <= r
    PROVE  Turn(x0, y0, x, y, fill) \subseteq Square(x0, y0, r)
<1>1. ASSUME NEW i \in Int, NEW j \in Int, NEW l \in Int,
             x0 - r <= i, j <= x0 + r, y0 - r <= l, l <= y0 + r
      PROVE  drawLine(i, l, j, l) \subseteq Square(x0, y0, r)
  <2>1. drawLine(i, l, j, l) \subseteq (i .. j - 1) \X {l} BY HorizontalLine
  <2>2. (i .. j - 1) \X {l} \subseteq Square(x0, y0, r) BY <1>1 DEF Square
  <2> QED BY <2>1, <2>2
<1>2. drawLine(x0 - y, y0 + x, x0 + y, y0 + x) \subseteq Square(x0, y0, r) BY <1>1
<1>3. drawLine(x0 - x, y0 + y, x0 + x, y0 + y) \subseteq Square(x0, y0, r) BY <1>1
<1>4. drawLine(x0 - x, y0 - y, x0 + x, y0 - y) \subseteq Square(x0, y0, r) BY <1>1
<1>5. drawLine(x0 - y, y0 - x, x0 + y, y0 - x) \subseteq Square(x0, y0, r) BY <1>1
<1>6. {x0 - y, x0 + y} \X {y0 - x, y0 + x} \subseteq Square(x0, y0, r) BY DEF Square
<1>7. {x0 - x, x0 + x} \X {y0 - y, y0 + y} \subseteq Square(x0, y0, r) BY DEF Square
<1> QED BY <1>2, <1>3, <1>4, <1>5, <1>6, <1>7 DEF Turn

LEMMA TurnInPixels ==
    ASSUME NEW x0 \in Int, NEW y0 \in Int, NEW x \in Int, NEW y \in Int, NEW fill
    PROVE  Turn(x0, y0, x, y, fill) \subseteq Pixels
<1>1. ASSUME NEW i \in Int, NEW j \in Int, NEW l \in Int
      PROVE  drawLine(i, l, j, l) \subseteq Pixels
  <2>1. drawLine(i, l, j, l) \subseteq (i .. j - 1) \X {l} BY HorizontalLine
  <2>2. (i .. j - 1) \X {l} \subseteq Pixels BY DEF Pixels
  <2> QED BY <2>1, <2>2
<1>2. /\ drawLine(x0 - y, y0 + x, x0 + y, y0 + x) \subseteq Pixels
      /\ drawLine(x0 - x, y0 + y, x0 + x, y0 + y) \subseteq Pixels
      /\ drawLine(x0 - x, y0 - y, x0 + x, y0 - y) \subseteq Pixels
      /\ drawLine(x0 - y, y0 - x, x0 + y, y0 - x) \subseteq Pixels
  BY <1>1
<1>3. {x0 - y, x0 + y} \X {y0 - x, y0 + x} \subseteq Pixels BY DEF Pixels
<1>4. {x0 - x, x0 + x} \X {y0 - y, y0 + y} \subseteq Pixels BY DEF Pixels
<1> QED BY <1>2, <1>3, <1>4 DEF Turn

\* What is left of the circle's octant.
OctantLeft(s) == IF s[1] < s[2] THEN 0 ELSE s[1] - s[2] + 1

LEMMA CircleUnfolds ==
    ASSUME NEW x0 \in Int, NEW y0 \in Int, NEW fill
    PROVE  \A s \in Turns : CircleLoop(x0, y0, fill)[s] = CircleStep(x0, y0, fill, s, CircleLoop(x0, y0, fill))
<1> DEFINE V == SUBSET Pixels
           m == [s \in Turns |-> OctantLeft(s)]
           G == [s \in Turns |-> [f \in [Turns -> V] |-> CircleStep(x0, y0, fill, s, f)]]
<1>1. m \in [Turns -> Nat] BY DEF Turns, OctantLeft
<1>2. ASSUME NEW s \in Turns
      PROVE  \E t \in Turns :
                /\ NextTurn(s[1], s[2], s[3]) = t
                /\ ~ (s[1] < s[2]) => m[t] < m[s]
  <2>1. s[1] \in Int /\ s[2] \in Int /\ s[3] \in Int BY DEF Turns
  <2>2. PICK x1 \in Int, y1 \in Int, e1 \in Int :
            NextTurn(s[1], s[2], s[3]) = <<x1, y1, e1>> /\ x1 - y1 < s[1] - s[2]
    BY <2>1, TurnsEnd
  <2>3. PICK t \in Turns : t = <<x1, y1, e1>> BY DEF Turns
  <2>4. t[1] = x1 /\ t[2] = y1 BY <2>3
  <2>5. ~ (s[1] < s[2]) => OctantLeft(t) < OctantLeft(s) BY <2>1, <2>2, <2>4 DEF OctantLeft
  <2> QED BY <2>2, <2>3, <2>5
<1>3. \A s \in Turns : Turn(x0, y0, s[1], s[2], fill) \subseteq Pixels
  <2> TAKE s \in Turns
  <2>1. s[1] \in Int /\ s[2] \in Int BY DEF Turns
  <2> QED BY <2>1, TurnInPixels
<1>4. \A s, f : CircleStep(x0, y0, fill, s, f) =
          IF s[1] < s[2] THEN {} ELSE Turn(x0, y0, s[1], s[2], fill) \cup f[NextTurn(s[1], s[2], s[3])]
  BY DEF CircleStep
<1>5. G \in [Turns -> [[Turns -> V] -> V]]
  <2> SUFFICES ASSUME NEW s \in Turns, NEW f \in [Turns -> V] PROVE CircleStep(x0, y0, fill, s, f) \in V
    OBVIOUS
  <2>1. PICK t \in Turns : NextTurn(s[1], s[2], s[3]) = t BY <1>2
  <2>2. Turn(x0, y0, s[1], s[2], fill) \cup f[t] \subseteq Pixels BY <1>3
  <2>3. CircleStep(x0, y0, fill, s, f) =
            IF s[1] < s[2] THEN {} ELSE Turn(x0, y0, s[1], s[2], fill) \cup f[t]
    BY <1>4, <2>1
  <2> QED BY <2>2, <2>3
<1> HIDE DEF m
<1>6. Descends(Turns, V, m, G)
  <2> SUFFICES ASSUME NEW s \in Turns, NEW f \in [Turns -> V], NEW g \in [Turns -> V],
                      \A q \in Turns : m[q] < m[s] => f[q] = g[q]
               PROVE  CircleStep(x0, y0, fill, s, f) = CircleStep(x0, y0, fill, s, g)
    BY DEF Descends
  <2>1. PICK t \in Turns : NextTurn(s[1], s[2], s[3]) = t /\ (~ (s[1] < s[2]) => m[t] < m[s]) BY <1>2
  <2>2. ~ (s[1] < s[2]) => f[t] = g[t] BY <2>1
  <2> QED BY <1>4, <2>1, <2>2
<1>7. PICK f : Solves(Turns, V, G, f)
  <2>1. V # {} OBVIOUS
  <2>2. WellDefined(Turns, V, m, G) BY <1>1, <1>5, <1>6, <2>1 DEF WellDefined
  <2> HIDE DEF V, G
  <2> QED BY <2>2, RecursionExists, Zenon
<1>8. f = [s \in Turns |-> CircleStep(x0, y0, fill, s, f)] BY <1>7 DEF Solves
<1> DEFINE S == CircleLoop(x0, y0, fill)
<1>9. S = [s \in Turns |-> CircleStep(x0, y0, fill, s, S)]
  BY <1>8, Zenon DEF CircleLoop, CircleStep, Turns
<1> HIDE DEF S
<1>10. \A s \in Turns : S[s] = CircleStep(x0, y0, fill, s, S) BY <1>9, Zenon
<1> QED BY <1>10 DEF S

\* A circle, filled or not, stays in the square around it.
THEOREM CircleInSquare ==
    ASSUME NEW x0 \in Int, NEW y0 \in Int, NEW radius \in Nat, NEW fill
    PROVE  drawCircle(x0, y0, radius, fill) \subseteq Square(x0, y0, radius)
<1> DEFINE S == CircleLoop(x0, y0, fill)
           m == [s \in Turns |-> OctantLeft(s)]
           InOctant(s) == 0 <= s[2] /\ s[1] <= radius
           Q == {s \in Turns : InOctant(s) => S[s] \subseteq Square(x0, y0, radius)}
<1>1. \A s \in Turns : S[s] = CircleStep(x0, y0, fill, s, S) BY CircleUnfolds
<1>2. drawCircle(x0, y0, radius, fill) = S[<<radius, 0, 0>>] BY DEF drawCircle
<1> HIDE DEF S
<1>3. m \in [Turns -> Nat] BY DEF Turns, OctantLeft
<1>4. ASSUME NEW s \in Turns, \A q \in Turns : m[q] < m[s] => q \in Q, InOctant(s)
      PROVE  S[s] \subseteq Square(x0, y0, radius)
  <2>1. PICK x \in Int, y \in Int, err \in Int : s = <<x, y, err>> BY DEF Turns
  <2>2. 0 <= y /\ x <= radius BY <1>4, <2>1
  <2>3. S[s] = IF x < y THEN {} ELSE Turn(x0, y0, x, y, fill) \cup S[NextTurn(x, y, err)]
    BY <1>1, <2>1 DEF CircleStep
  <2>4. CASE x < y
    <3>1. S[s] = {} BY <2>3, <2>4
    <3> QED BY <3>1
  <2>5. CASE ~ (x < y)
    <3>1. PICK x1 \in Int, y1 \in Int, e1 \in Int :
              NextTurn(x, y, err) = <<x1, y1, e1>> /\ x1 <= x /\ y1 >= y /\ x1 - y1 < x - y
      BY TurnsEnd
    <3>2. PICK t \in Turns : t = <<x1, y1, e1>> BY DEF Turns
    <3>3. m[t] < m[s] BY <2>1, <2>5, <3>1, <3>2 DEF OctantLeft
    <3>4. InOctant(t) BY <2>2, <3>1, <3>2
    <3> HIDE DEF m
    <3>5. S[t] \subseteq Square(x0, y0, radius) BY <1>4, <3>3, <3>4
    <3>6. Turn(x0, y0, x, y, fill) \subseteq Square(x0, y0, radius)
      <4>1. y <= x /\ radius \in Int BY <2>5
      <4> QED BY <2>2, <4>1, TurnInSquare
    <3> QED BY <2>3, <2>5, <3>1, <3>2, <3>5, <3>6
  <2> QED BY <2>4, <2>5
<1>5. Q = Turns
  <2>1. Inductive(Turns, m, Q) BY <1>3, <1>4 DEF Inductive
  <2> HIDE DEF m, Q
  <2> QED BY <2>1, MeasureInduction, Zenon
<1>6. <<radius, 0, 0>> \in Turns /\ InOctant(<<radius, 0, 0>>) BY DEF Turns
<1> QED BY <1>2, <1>5, <1>6

InBuffer(offsets) ==
    /\ offsets \subseteq 0 .. Screen.width * Screen.height - 1
    /\ offsets \cap {Offset(p) : p \in Labels} = {}

LEMMA OffsetIs ==
    ASSUME NEW x \in Int, NEW y \in Int
    PROVE  Offset(<<x, y>>) = y * 1920 + x
BY DEF Offset, Screen

\* Between two offsets.
Between(i, low, high) == i \in Int /\ low <= i /\ i <= high

\* Whatever three hash values kernelTask makes a circle of, what drawCircle writes stays
\* inside the frame buffer and off the labels.
THEOREM CircleOfAnyHash ==
    ASSUME NEW hashX \in Nat, NEW hashY \in Nat, NEW hashR \in Nat, NEW fill, NEW c,
           c = CircleAt(hashX, hashY, hashR)
    PROVE  InBuffer({Offset(p) : p \in drawCircle(c.x, c.y, c.radius, fill)})
<1>1. PICK x \in Nat : x = hashX % 1920 /\ x < 1920 OBVIOUS
<1>2. PICK y \in Nat : y = hashY % 1080 /\ y < 1080 OBVIOUS
<1>3. PICK r \in Nat : r = hashR % 10 /\ r < 10 OBVIOUS
<1>4. c = [x |-> x, y |-> y + 32, radius |-> r + 3] BY <1>1, <1>2, <1>3 DEF CircleAt
<1>5. c.x = x /\ c.y = y + 32 /\ c.radius = r + 3 BY <1>4
<1> DEFINE circle == drawCircle(x, y + 32, r + 3, fill)
<1>6. \A p \in circle : Between(Offset(p), 38388, 2158091)
  <2>1. x \in Int /\ y + 32 \in Int /\ r + 3 \in Nat OBVIOUS
  <2>2. circle \subseteq Square(x, y + 32, r + 3) BY <2>1, CircleInSquare
  <2> HIDE DEF circle
  <2>3. ASSUME NEW i \in x - (r + 3) .. x + (r + 3), NEW j \in (y + 32) - (r + 3) .. (y + 32) + (r + 3)
        PROVE  Between(Offset(<<i, j>>), 38388, 2158091)
    <3>1. i \in Int /\ j \in Int /\ -12 <= i /\ i <= 1931 /\ 20 <= j /\ j <= 1123 BY <1>1, <1>2, <1>3
    <3>2. Offset(<<i, j>>) = j * 1920 + i BY <3>1, OffsetIs
    <3>3. 38388 <= j * 1920 + i /\ j * 1920 + i <= 2158091 /\ j * 1920 + i \in Int BY <3>1
    <3> QED BY <3>2, <3>3 DEF Between
  <2>4. \A p \in Square(x, y + 32, r + 3) : Between(Offset(p), 38388, 2158091) BY <2>3 DEF Square
  <2> QED BY <2>2, <2>4
<1>7. \A p \in Labels : Between(Offset(p), 0, 14497)
  <2> TAKE p \in Labels
  <2>1. PICK k \in 0 .. 3, l \in 0 .. 5 : p \in drawChar(860 + k * 50 + l * FONT_WIDTH, 0)
    BY DEF Labels
  <2>2. p \in (860 + k * 50 + l * 8 .. 860 + k * 50 + l * 8 + 8 - 1) \X (0 .. 0 + 8 - 1)
    BY <2>1 DEF drawChar, FONT_WIDTH, FONT_HEIGHT
  <2>3. PICK i \in 860 + k * 50 + l * 8 .. 860 + k * 50 + l * 8 + 8 - 1, j \in 0 .. 0 + 8 - 1 : p = <<i, j>>
    BY <2>2
  <2>4. i \in Int /\ j \in Int /\ 860 <= i /\ i <= 1057 /\ 0 <= j /\ j <= 7 OBVIOUS
  <2>5. Offset(<<i, j>>) = j * 1920 + i BY <2>4, OffsetIs
  <2>6. 0 <= j * 1920 + i /\ j * 1920 + i <= 14497 /\ j * 1920 + i \in Int BY <2>4
  <2> QED BY <2>3, <2>5, <2>6 DEF Between
<1> HIDE DEF circle
<1>8. PICK size \in Nat : size = Screen.width * Screen.height /\ size = 2457600 BY DEF Screen
<1>9. \A p \in circle : Offset(p) \in 0 .. size - 1 BY <1>6, <1>8 DEF Between
<1>10. \A p \in circle, q \in Labels : Offset(p) # Offset(q) BY <1>6, <1>7 DEF Between
<1>11. InBuffer({Offset(p) : p \in circle}) BY <1>8, <1>9, <1>10 DEF InBuffer
<1> QED BY <1>5, <1>11 DEF circle

-----------------------------------------------------------------------------
(* The fields of the GPIO block and the bits of the interrupt controller *)

LEMMA FieldsPerWord ==
    NumFields(3) = 10 /\ NumFields(2) = 16 /\ NumFields(1) = 32
BY DEF NumFields, WordBits

\* A value that fits in a field has its bits there.
LEMMA BitsFit ==
    ASSUME NEW value \in Nat
    PROVE  /\ value <= 7 => BitsOf(value) \subseteq 0 .. 2
           /\ value <= 3 => BitsOf(value) \subseteq 0 .. 1
           /\ value <= 1 => BitsOf(value) \subseteq 0 .. 0
<1>2. BitsOf(value) \subseteq 0 .. 7 BY DEF BitsOf
<1>4. 1 \in BitsOf(value) => value > 1
  <2>1. (value \div 2^1) % 2 = 1 => value > 1 OBVIOUS
  <2> QED BY <2>1 DEF BitsOf
<1>5. 2 \in BitsOf(value) => value > 3
  <2>1. (value \div 2^2) % 2 = 1 => value > 3 OBVIOUS
  <2> QED BY <2>1 DEF BitsOf
<1>6. \A k \in 3 .. 7 : k \in BitsOf(value) => value > 7
  <2>1. (value \div 2^3) % 2 = 1 => value > 7 OBVIOUS
  <2>2. (value \div 2^4) % 2 = 1 => value > 7 OBVIOUS
  <2>3. (value \div 2^5) % 2 = 1 => value > 7 OBVIOUS
  <2>4. (value \div 2^6) % 2 = 1 => value > 7 OBVIOUS
  <2>5. (value \div 2^7) % 2 = 1 => value > 7 OBVIOUS
  <2>6. \A k \in 3 .. 7 : k = 3 \/ k = 4 \/ k = 5 \/ k = 6 \/ k = 7 OBVIOUS
  <2> QED BY <2>1, <2>2, <2>3, <2>4, <2>5, <2>6 DEF BitsOf
<1>7. value <= 7 => BitsOf(value) \subseteq 0 .. 2 BY <1>2, <1>6
<1>8. value <= 3 => BitsOf(value) \subseteq 0 .. 1 BY <1>5, <1>7
<1>9. value <= 1 => BitsOf(value) \subseteq 0 .. 0 BY <1>4, <1>8
<1> QED BY <1>7, <1>8, <1>9

\* The bits B written in the field of size bits at bit shift of register reg, and what
\* that changes.
FieldChange(reg, shift, size, B, before, after, field) ==
    /\ reg \in Int /\ shift \in Int /\ size \in Nat /\ shift + size <= 32
    /\ B \subseteq 0 .. size - 1
    /\ field = {<<reg, shift + k>> : k \in 0 .. size - 1}
    /\ after = (before \ field) \cup {<<reg, shift + k>> : k \in B}
FieldChanged(reg, shift, size, B, before, after, field) ==
    /\ (after \ before) \cup (before \ after) \subseteq field
    /\ \A f \in field : f[2] < 32
    /\ \A k \in 0 .. size - 1 : <<reg, shift + k>> \in after <=> k \in B

LEMMA FieldWritten ==
    ASSUME NEW reg, NEW shift, NEW size, NEW B, NEW before, NEW after, NEW field,
           FieldChange(reg, shift, size, B, before, after, field)
    PROVE  FieldChanged(reg, shift, size, B, before, after, field)
<1> USE DEF FieldChange
<1> DEFINE T == {<<reg, shift + k>> : k \in B}
<1>1. T \subseteq field OBVIOUS
<1>2. \A f \in field : f[2] < 32 OBVIOUS
<1>3. \A k \in 0 .. size - 1 : <<reg, shift + k>> \in T <=> k \in B OBVIOUS
<1>7. \A k \in 0 .. size - 1 : <<reg, shift + k>> \in field OBVIOUS
<1>4. after = (before \ field) \cup T OBVIOUS
<1> HIDE DEF T
<1>5. \A k \in 0 .. size - 1 : <<reg, shift + k>> \in after <=> k \in B BY <1>3, <1>4, <1>7
<1>6. (after \ before) \cup (before \ after) \subseteq field BY <1>1, <1>4
<1> QED BY <1>2, <1>5, <1>6 DEF FieldChanged

\* Where the field of a pin is.
FieldAt(b, pin, size, reg, shift) ==
    /\ size = Bank(b).field_size /\ reg \in Int /\ shift \in Int /\ shift + size <= 32
    /\ reg = Bank(b).base + 4 * (pin \div NumFields(size))
    /\ shift = (pin % NumFields(size)) * size
    /\ \A k : FieldBit(b, pin, k) = <<reg, shift + k>>
    /\ FieldOf(b, pin) = {<<reg, shift + k>> : k \in 0 .. size - 1}

LEMMA FieldPlace ==
    ASSUME NEW b \in Banks, NEW pin \in Nat
    PROVE  \E size \in {1, 2, 3}, reg \in Int, shift \in Int : FieldAt(b, pin, size, reg, shift)
<1> USE FieldsPerWord
<1>1. CASE b = "function"
  <2>1. PICK base \in Nat : Bank(b).base = base /\ Bank(b).field_size = 3 BY <1>1 DEF Bank
  <2>2. PICK q \in Nat : q = pin \div 10 OBVIOUS
  <2>3. PICK p \in Nat : p = pin % 10 /\ p <= 9 OBVIOUS
  <2>6. \A k : FieldBit(b, pin, k) = <<base + 4 * q, p * 3 + k>> BY <1>1, <2>1, <2>2, <2>3 DEF FieldBit
  <2>4. FieldOf(b, pin) = {<<base + 4 * q, p * 3 + k>> : k \in 0 .. 3 - 1} BY <2>1, <2>6 DEF FieldOf
  <2>5. FieldAt(b, pin, 3, base + 4 * q, p * 3) BY <2>1, <2>2, <2>3, <2>4, <2>6 DEF FieldAt
  <2> QED BY <2>5
<1>2. CASE b = "pull"
  <2>1. Bank(b).base = 228 /\ Bank(b).field_size = 2 BY <1>2 DEF Bank
  <2>2. PICK q \in Nat : q = pin \div 16 OBVIOUS
  <2>3. PICK p \in Nat : p = pin % 16 /\ p <= 15 OBVIOUS
  <2>6. \A k : FieldBit(b, pin, k) = <<228 + 4 * q, p * 2 + k>> BY <1>2, <2>1, <2>2, <2>3 DEF FieldBit
  <2>4. FieldOf(b, pin) = {<<228 + 4 * q, p * 2 + k>> : k \in 0 .. 2 - 1} BY <2>1, <2>6 DEF FieldOf
  <2>5. FieldAt(b, pin, 2, 228 + 4 * q, p * 2) BY <2>1, <2>2, <2>3, <2>4, <2>6 DEF FieldAt
  <2> QED BY <2>5
<1>3. CASE b \in {"set", "clear"}
  <2>1. PICK base \in Nat : Bank(b).base = base /\ Bank(b).field_size = 1 BY <1>3 DEF Bank
  <2>2. PICK q \in Nat : q = pin \div 32 OBVIOUS
  <2>3. PICK p \in Nat : p = pin % 32 /\ p <= 31 OBVIOUS
  <2>6. \A k : FieldBit(b, pin, k) = <<base + 4 * q, p * 1 + k>> BY <1>3, <2>1, <2>2, <2>3 DEF FieldBit
  <2>4. FieldOf(b, pin) = {<<base + 4 * q, p * 1 + k>> : k \in 0 .. 1 - 1} BY <2>1, <2>6 DEF FieldOf
  <2>5. FieldAt(b, pin, 1, base + 4 * q, p * 1) BY <2>1, <2>2, <2>3, <2>4, <2>6 DEF FieldAt
  <2> QED BY <2>5
<1> QED BY <1>1, <1>2, <1>3 DEF Banks

LEMMA CallWrites ==
    ASSUME NEW b \in Banks, NEW pin \in Nat, NEW value \in Nat, NEW before, ~ Refused(b, pin, value),
           NEW size \in {1, 2, 3}, NEW reg, NEW shift, FieldAt(b, pin, size, reg, shift)
    PROVE  /\ BitsOf(value) \subseteq 0 .. size - 1
           /\ call(b, pin, value, before) =
                 (before \ FieldOf(b, pin)) \cup {<<reg, shift + k>> : k \in BitsOf(value)}
<1>1. size = Bank(b).field_size /\ ~ (value > 2^size - 1) BY DEF FieldAt, Refused
<1>2. /\ size = 3 => value <= 7
      /\ size = 2 => value <= 3
      /\ size = 1 => value <= 1
  <2>1. 2^1 = 2 /\ 2^2 = 4 /\ 2^3 = 8 OBVIOUS
  <2>2. size = 3 => 2^size = 8 BY <2>1
  <2>3. size = 2 => 2^size = 4 BY <2>1
  <2>4. size = 1 => 2^size = 2 BY <2>1
  <2> QED BY <1>1, <2>2, <2>3, <2>4
<1>3. BitsOf(value) \subseteq 0 .. size - 1 BY <1>2, BitsFit
<1>4. call(b, pin, value, before) =
         (before \ {<<reg, shift + k>> : k \in 0 .. size - 1}) \cup {<<reg, shift + k>> : k \in BitsOf(value)}
  BY <1>1 DEF call, FieldAt
<1> QED BY <1>3, <1>4, BitsFit DEF FieldAt

\* GPIO::call on any pin with any value, whatever the registers hold: nothing changes when
\* it refuses, otherwise no bit outside the pin's field, and the field holds the value.
THEOREM CallOfAnyPin ==
    ASSUME NEW b \in Banks, NEW pin \in Nat, NEW value \in Nat, NEW before
    PROVE  CallRight(b, pin, value, before, call(b, pin, value, before))
<1>1. CASE Refused(b, pin, value) BY <1>1 DEF CallRight, call
<1>2. CASE ~ Refused(b, pin, value)
  <2>1. PICK size \in {1, 2, 3}, reg \in Int, shift \in Int : FieldAt(b, pin, size, reg, shift) BY FieldPlace
  <2>2. /\ BitsOf(value) \subseteq 0 .. size - 1
        /\ call(b, pin, value, before) =
              (before \ FieldOf(b, pin)) \cup {<<reg, shift + k>> : k \in BitsOf(value)}
    BY <1>2, <2>1, CallWrites
  <2> DEFINE field == FieldOf(b, pin)
             after == call(b, pin, value, before)
  <2>3. /\ reg \in Int /\ shift \in Int /\ size \in Nat /\ shift + size <= 32
        /\ field = {<<reg, shift + k>> : k \in 0 .. size - 1}
    BY <2>1 DEF FieldAt
  <2>4. /\ (after \ before) \cup (before \ after) \subseteq field
        /\ \A f \in field : f[2] < 32
        /\ \A k \in 0 .. size - 1 : FieldBit(b, pin, k) \in after <=> k \in BitsOf(value)
    <3> HIDE DEF field, after
    <3>1. after = (before \ field) \cup {<<reg, shift + k>> : k \in BitsOf(value)} BY <2>2 DEF field, after
    <3> DEFINE B == BitsOf(value)
    <3>2. B \subseteq 0 .. size - 1 BY <2>2
    <3> HIDE DEF B
    <3>3. after = (before \ field) \cup {<<reg, shift + k>> : k \in B} BY <3>1 DEF B
    <3>4. FieldChange(reg, shift, size, B, before, after, field)
      BY <2>3, <3>2, <3>3 DEF FieldChange
    <3>5. FieldChanged(reg, shift, size, B, before, after, field) BY <3>4, FieldWritten
    <3>6. \A k : FieldBit(b, pin, k) = <<reg, shift + k>> BY <2>1 DEF FieldAt
    <3> QED BY <3>5, <3>6 DEF FieldChanged, B
  <2>5. size = Bank(b).field_size BY <2>1 DEF FieldAt
  <2>6. \A k \in 0 .. size - 1 : k \in BitsOf(value) <=> (value \div 2^k) % 2 = 1 BY DEF BitsOf
  <2>7. \A k \in 0 .. Bank(b).field_size - 1 : FieldBit(b, pin, k) \in after <=> (value \div 2^k) % 2 = 1
    <3> HIDE DEF after
    <3> QED BY <2>4, <2>5, <2>6
  <2> QED BY <1>2, <2>4, <2>7 DEF CallRight, WordBits
<1> QED BY <1>1, <1>2

LEMMA BitsOfSmall ==
    ASSUME NEW value \in Nat
    PROVE  /\ value = 0 => BitsOf(value) = {}
           /\ value = 2 => BitsOf(value) = {1}
<1>1. 2^0 = 1 /\ 2^1 = 2 OBVIOUS
<1>2. 0 \in BitsOf(value) <=> (value \div 1) % 2 = 1 BY <1>1 DEF BitsOf
<1>3. 1 \in BitsOf(value) <=> (value \div 2) % 2 = 1 BY <1>1 DEF BitsOf
<1>4. value = 0 => 0 \notin BitsOf(value) BY <1>2
<1>5. value = 2 => 0 \notin BitsOf(value) /\ 1 \in BitsOf(value) BY <1>2, <1>3
<1> QED BY <1>4, <1>5, BitsFit

\* What the two calls of useAsAlt5 write.
LEMMA Alt5Fields ==
    ASSUME NEW pin \in 0 .. GPIO_MAX_PIN, NEW one, one = <<4 * (pin \div 10), (pin % 10) * 3 + 1>>
    PROVE  /\ one \in FieldOf("function", pin)
           /\ \A regs : call("pull", pin, 0, regs) = regs \ FieldOf("pull", pin)
           /\ \A regs : call("function", pin, 2, regs) = (regs \ FieldOf("function", pin)) \cup {one}
<1>1. pin \in Nat /\ pin <= GPIO_MAX_PIN /\ "function" \in Banks /\ "pull" \in Banks
  BY DEF Banks, GPIO_MAX_PIN
<1>2. /\ Bank("function").base = 0 /\ Bank("function").field_size = 3 /\ Bank("pull").field_size = 2
  BY DEF Bank
<1>3. PICK v \in Nat : v = 0 OBVIOUS
<1>4. PICK w \in Nat : w = 2 OBVIOUS
<1>5. ~ Refused("pull", pin, v) /\ ~ Refused("function", pin, w)
  <2>1. 2^2 = 4 /\ 2^3 = 8 /\ ~ (v > 4 - 1) /\ ~ (w > 8 - 1) BY <1>3, <1>4
  <2>2. 2^Bank("pull").field_size = 4 /\ 2^Bank("function").field_size = 8 BY <1>2, <2>1
  <2> QED BY <1>1, <2>1, <2>2 DEF Refused, GPIO_MAX_PIN
<1>6. \A regs : call("pull", pin, v, regs) = regs \ FieldOf("pull", pin)
  <2> TAKE regs
  <2>1. PICK size \in {1, 2, 3}, reg \in Int, shift \in Int : FieldAt("pull", pin, size, reg, shift) BY <1>1, FieldPlace
  <2>2. call("pull", pin, v, regs) =
           (regs \ FieldOf("pull", pin)) \cup {<<reg, shift + k>> : k \in BitsOf(v)}
    BY <1>1, <1>5, <2>1, CallWrites
  <2>3. BitsOf(v) = {} BY <1>3, BitsOfSmall
  <2> QED BY <2>2, <2>3
<1>7. PICK size \in {1, 2, 3}, reg \in Int, shift \in Int : FieldAt("function", pin, size, reg, shift) BY <1>1, FieldPlace
<1>8. one = <<reg, shift + 1>>
  <2>1. size = 3 BY <1>2, <1>7 DEF FieldAt
  <2>2. reg = 0 + 4 * (pin \div 10) /\ shift = (pin % 10) * 3
    BY <1>2, <1>7, <2>1, FieldsPerWord DEF FieldAt
  <2>3. reg = 4 * (pin \div 10) BY <1>1, <2>2
  <2> QED BY <2>2, <2>3
<1>9. one \in FieldOf("function", pin)
  <2>1. size = 3 BY <1>2, <1>7 DEF FieldAt
  <2>2. 1 \in 0 .. size - 1 BY <2>1
  <2> QED BY <1>7, <1>8, <2>2 DEF FieldAt
<1>10. \A regs : call("function", pin, w, regs) = (regs \ FieldOf("function", pin)) \cup {one}
  <2> TAKE regs
  <2>1. call("function", pin, w, regs) =
           (regs \ FieldOf("function", pin)) \cup {<<reg, shift + k>> : k \in BitsOf(w)}
    BY <1>1, <1>5, <1>7, CallWrites
  <2>2. BitsOf(w) = {1} BY <1>4, BitsOfSmall
  <2>3. {<<reg, shift + k>> : k \in BitsOf(w)} = {one} BY <1>8, <2>2
  <2> QED BY <2>1, <2>3
<1> QED BY <1>3, <1>4, <1>6, <1>9, <1>10

\* useAsAlt5 on any pin, whatever the registers hold: function 2, no pull, and every other
\* pin as it was.
THEOREM Alt5OfAnyPin ==
    ASSUME NEW pin \in 0 .. GPIO_MAX_PIN, NEW before
    PROVE  Alt5Right(pin, before, useAsAlt5(pin, before))
<1> DEFINE F == FieldOf("function", pin)
           P == FieldOf("pull", pin)
           one == <<4 * (pin \div 10), (pin % 10) * 3 + 1>>
           after == useAsAlt5(pin, before)
<1>1. after = ((before \ P) \ F) \cup {one} BY Alt5Fields DEF useAsAlt5
<1>2. one \in F BY Alt5Fields
<1> HIDE DEF F, P, one, after
<1>3. after \ (F \cup P) = before \ (F \cup P) BY <1>1, <1>2
<1>4. after \cap (F \cup P) = {one} BY <1>1, <1>2
<1> QED BY <1>3, <1>4 DEF Alt5Right, F, P, one, after

\* The bits that enable an interrupt and assign it to a core.
EnableBit(irq) == <<ENABLE_BASE + 4 * (irq \div 32), irq % 32>>
TargetBit(irq, cpu) == <<TARGET_BASE + 4 * (irq \div 4), (irq % 4) * 8 + cpu>>

LEMMA RoutesAre ==
    ASSUME NEW r \in Routes
    PROVE  /\ r[1] \in Nat /\ r[1] < 1020 /\ r[2] \in Nat /\ r[2] <= 3
           /\ r = <<r[1], r[2]>>
BY DEF Routes

LEMMA BitsOfInit ==
    ASSUME NEW x
    PROVE  x \in gic_init <=> \E r \in Routes : x = EnableBit(r[1]) \/ x = TargetBit(r[1], r[2])
<1>1. \A r : assign_target(r[1], r[2], enable_interrupt(r[1], {})) = {EnableBit(r[1]), TargetBit(r[1], r[2])}
  BY DEF assign_target, enable_interrupt, EnableBit, TargetBit
<1> QED BY <1>1, Zenon DEF gic_init

\* What the controller reads in the two bits.
LEMMA BitsRead ==
    ASSUME NEW irq \in Nat, irq < 1020, NEW cpu \in Nat, cpu <= 3
    PROVE  /\ IsEnable(EnableBit(irq)) /\ InterruptOf(EnableBit(irq)) = irq
           /\ ~ IsEnable(TargetBit(irq, cpu)) /\ TargetOf(TargetBit(irq, cpu)) = <<irq, cpu>>
<1> USE DEF EnableBit, TargetBit, ENABLE_BASE, TARGET_BASE
<1>1. PICK q \in Nat, p \in 0 .. 31 : q = irq \div 32 /\ p = irq % 32 /\ irq = 32 * q + p OBVIOUS
<1>2. EnableBit(irq) = <<256 + 4 * q, p>> BY <1>1
<1>3. PICK u \in Nat, v \in 0 .. 3 : u = irq \div 4 /\ v = irq % 4 /\ irq = 4 * u + v OBVIOUS
<1>4. TargetBit(irq, cpu) = <<2048 + 4 * u, v * 8 + cpu>> BY <1>3
<1>5. q <= 31 BY <1>1
<1>6. PICK n \in Nat : n = 8 * (2048 + 4 * u - 2048) + (v * 8 + cpu) BY <1>3
<1>7. n = 8 * irq + cpu BY <1>3, <1>6
<1>8. n \div 8 = irq /\ n % 8 = cpu BY <1>7
<1>9. InterruptOf(EnableBit(irq)) = irq BY <1>1, <1>2 DEF InterruptOf
<1>10. TargetOf(TargetBit(irq, cpu)) = <<irq, cpu>> BY <1>4, <1>6, <1>8 DEF TargetOf
<1> QED BY <1>2, <1>4, <1>5, <1>9, <1>10 DEF IsEnable

\* One more enable bit is one more interrupt enabled, one more target bit one more core.
LEMMA BitAdded ==
    ASSUME NEW regs, NEW irq \in Nat, irq < 1020, NEW cpu \in Nat, cpu <= 3
    PROVE  /\ EnabledIn(regs \cup {EnableBit(irq)}) = EnabledIn(regs) \cup {irq}
           /\ TargetsIn(regs \cup {EnableBit(irq)}) = TargetsIn(regs)
           /\ TargetsIn(regs \cup {TargetBit(irq, cpu)}) = TargetsIn(regs) \cup {<<irq, cpu>>}
           /\ EnabledIn(regs \cup {TargetBit(irq, cpu)}) = EnabledIn(regs)
<1> DEFINE e == EnableBit(irq)
           t == TargetBit(irq, cpu)
<1>1. /\ IsEnable(e) /\ InterruptOf(e) = irq
      /\ ~ IsEnable(t) /\ TargetOf(t) = <<irq, cpu>>
  BY BitsRead
<1> HIDE DEF e, t
<1>2. EnabledIn(regs \cup {e}) = EnabledIn(regs) \cup {irq} BY <1>1 DEF EnabledIn
<1>3. TargetsIn(regs \cup {e}) = TargetsIn(regs) BY <1>1 DEF TargetsIn
<1>4. TargetsIn(regs \cup {t}) = TargetsIn(regs) \cup {<<irq, cpu>>} BY <1>1 DEF TargetsIn
<1>5. EnabledIn(regs \cup {t}) = EnabledIn(regs) BY <1>1 DEF EnabledIn
<1> QED BY <1>2, <1>3, <1>4, <1>5 DEF e, t

\* enable_interrupt and assign_target after init, for every interrupt and every core: the
\* controller reads one interrupt more, or one core more of that interrupt, and everything
\* else as before.
THEOREM GicOfAnyInterrupt ==
    ASSUME NEW irq \in Nat, irq < 1020, NEW cpu \in Nat, cpu <= 3
    PROVE  GicRight(irq, cpu, enable_interrupt(irq, gic_init), assign_target(irq, cpu, gic_init))
<1>1. enable_interrupt(irq, gic_init) = gic_init \cup {EnableBit(irq)} BY DEF enable_interrupt, EnableBit
<1>2. assign_target(irq, cpu, gic_init) = gic_init \cup {TargetBit(irq, cpu)} BY DEF assign_target, TargetBit
<1>3. /\ EnabledIn(gic_init \cup {EnableBit(irq)}) = EnabledIn(gic_init) \cup {irq}
      /\ TargetsIn(gic_init \cup {EnableBit(irq)}) = TargetsIn(gic_init)
      /\ TargetsIn(gic_init \cup {TargetBit(irq, cpu)}) = TargetsIn(gic_init) \cup {<<irq, cpu>>}
      /\ EnabledIn(gic_init \cup {TargetBit(irq, cpu)}) = EnabledIn(gic_init)
  BY BitAdded
<1> QED BY <1>1, <1>2, <1>3 DEF GicRight

\* What the controller reads after GIC400::init: the routes, and as enabled the interrupts
\* irq_handler_spx has a case for, SYS_TIMER_IRQ_3 and the spurious one excepted.
THEOREM InitEnablesHandled == InitRight
<1>1. ASSUME NEW r \in Routes
      PROVE  /\ IsEnable(EnableBit(r[1])) /\ InterruptOf(EnableBit(r[1])) = r[1]
             /\ ~ IsEnable(TargetBit(r[1], r[2])) /\ TargetOf(TargetBit(r[1], r[2])) = r
  <2>1. r[1] \in Nat /\ r[1] < 1020 /\ r[2] \in Nat /\ r[2] <= 3 /\ r = <<r[1], r[2]>> BY RoutesAre
  <2>2. /\ IsEnable(EnableBit(r[1])) /\ InterruptOf(EnableBit(r[1])) = r[1]
        /\ ~ IsEnable(TargetBit(r[1], r[2])) /\ TargetOf(TargetBit(r[1], r[2])) = <<r[1], r[2]>>
    BY <2>1, BitsRead
  <2> QED BY <2>1, <2>2
<1>2. EnabledIn(gic_init) = {r[1] : r \in Routes}
  <2>1. ASSUME NEW b \in gic_init, IsEnable(b) PROVE \E r \in Routes : InterruptOf(b) = r[1]
    BY <1>1, <2>1, BitsOfInit
  <2>2. ASSUME NEW r \in Routes PROVE \E b \in gic_init : IsEnable(b) /\ InterruptOf(b) = r[1]
    BY <1>1, BitsOfInit
  <2> QED BY <2>1, <2>2 DEF EnabledIn
<1>3. TargetsIn(gic_init) = Routes
  <2>1. ASSUME NEW b \in gic_init, ~ IsEnable(b) PROVE TargetOf(b) \in Routes
    BY <1>1, <2>1, BitsOfInit
  <2>2. ASSUME NEW r \in Routes PROVE \E b \in gic_init : ~ IsEnable(b) /\ TargetOf(b) = r
    BY <1>1, BitsOfInit
  <2> QED BY <2>1, <2>2 DEF TargetsIn
<1>4. {r[1] : r \in Routes} = Handled \ {SYS_TIMER_IRQ_3, SYSTEM_SPOURIOUS_IRQ}
  <2>1. \A i \in {1, 3, 4} : <<i, 0>> \in Routes BY DEF Routes
  <2>2. <<97, 0>> \in Routes /\ <<125, 0>> \in Routes /\ <<2, 1>> \in Routes BY DEF Routes
  <2>3. \A i \in {97, 125, 2, 1, 3, 4} : \E r \in Routes : r[1] = i
    <3>1. \A i : <<i, 0>>[1] = i /\ <<i, 1>>[1] = i OBVIOUS
    <3> QED BY <2>1, <2>2, <3>1
  <2>4. \A r \in Routes : r[1] \in {97, 125, 2, 1, 3, 4} BY DEF Routes
  <2>5. Handled \ {SYS_TIMER_IRQ_3, SYSTEM_SPOURIOUS_IRQ} = {97, 125, 2, 1, 3, 4}
    BY DEF Handled, SYS_TIMER_IRQ_3, SYSTEM_SPOURIOUS_IRQ
  <2> QED BY <2>3, <2>4, <2>5
<1> QED BY <1>2, <1>3, <1>4 DEF InitRight

-----------------------------------------------------------------------------
(* The inputs of the runs *)

AllInputs == SortInputs \cup TimerInputs \cup FieldInputs \cup CircleInputs \cup LayoutInputs

\* The operation of an input tells which set it is from.
LEMMA InputsByOperation ==
    ASSUME NEW i \in AllInputs
    PROVE  /\ i.op = "sort" => i \in SortInputs
           /\ i.op = "timer" => i \in TimerInputs
           /\ i.op \in {"gpio", "alt5", "gic"} => i \in FieldInputs
           /\ i.op = "circle" => i \in CircleInputs
           /\ i.op = "layout" => i \in LayoutInputs
<1>1. i \in SortInputs => i.op = "sort" BY DEF SortInputs
<1>2. i \in TimerInputs => i.op = "timer" BY DEF TimerInputs
<1>3. i \in FieldInputs => i.op \in {"gpio", "alt5", "gic"} BY DEF FieldInputs
<1>4. i \in CircleInputs => i.op = "circle" BY DEF CircleInputs
<1>5. i \in LayoutInputs => i.op = "layout" BY DEF LayoutInputs
<1> QED BY <1>1, <1>2, <1>3, <1>4, <1>5 DEF AllInputs

\* The answer of every operation is the one its action computed.
AnswersInv ==
    /\ input \in AllInputs
    /\ Answered("sort") =>
           output = [quick |-> quickSort(input.array, input.cutoff),
                     insertion |-> insertionSort(input.array, 0, Size(input.array) - 1),
                     merge |-> mergeSort(input.array)]
    /\ Answered("timer") =>
           output = [counter |-> getCounter(HalfValues, input.t),
                     compare |-> WaitMicroT1(HalfValues, input.t, input.us)]
    /\ Answered("gpio") =>
           output = [after |-> call(input.bank, input.pin, input.value, input.before)]
    /\ Answered("alt5") => output = [after |-> useAsAlt5(input.pin, input.before)]
    /\ Answered("gic") =>
           output = [enabled |-> enable_interrupt(input.irq, gic_init),
                     assigned |-> assign_target(input.irq, input.cpu, gic_init)]
    /\ Answered("circle") =>
           LET c == CircleAt(input.x, input.y, input.r)
           IN  output = [offsets |-> {Offset(p) : p \in drawCircle(c.x, c.y, c.radius, input.fill)}]
    /\ Answered("layout") => output = [part |-> FindPartition(input.table)]

LEMMA AnswersAlways == Spec => []AnswersInv
<1>1. Init => AnswersInv BY DEF Init, AnswersInv, AllInputs, Answered
<1>2. AnswersInv /\ [Next]_algorithmVars => AnswersInv'
  <2> SUFFICES ASSUME AnswersInv, [Next]_algorithmVars PROVE AnswersInv'
    OBVIOUS
  <2>1. CASE Next
    BY <2>1 DEF Next, AnswersInv, Answered, Answer, Sort, ReadTimer, WriteField, DrawCircle, MakeLayout
  <2>2. CASE UNCHANGED algorithmVars BY <2>2 DEF algorithmVars, AnswersInv, Answered
  <2> QED BY <2>1, <2>2
<1> QED BY <1>1, <1>2, PTL DEF Spec

\* The sorts of the run, for every size of the arrays.
THEOREM SortsAndFindsAlways == Spec => []SortsAndFinds
<1>1. AnswersInv => SortsAndFinds
  <2> SUFFICES ASSUME AnswersInv, Answered("sort") PROVE SortsAndFinds
    BY DEF SortsAndFinds
  <2>1. input \in SortInputs BY InputsByOperation DEF AnswersInv, Answered
  <2>2. \E n \in Nat : input.array \in [0 .. n - 1 -> Int] /\ input.cutoff \in Nat /\ input.cutoff >= 2
    <3>1. ASSUME NEW n \in LongSizes, input \in [op : {"sort"}, array : Arrays(n, 0 .. 1), cutoff : {Cutoff}]
          PROVE  n \in Nat /\ input.array \in [0 .. n - 1 -> Int] /\ input.cutoff = Cutoff
      BY <3>1, AlgorithmBounds DEF Arrays
    <3>2. ASSUME NEW n \in 1 .. ShortMax,
                 input \in [op : {"sort"}, array : Arrays(n, 1 .. n), cutoff : {SmallCutoff}]
          PROVE  n \in Nat /\ input.array \in [0 .. n - 1 -> Int] /\ input.cutoff = SmallCutoff
      BY <3>2, AlgorithmBounds DEF Arrays
    <3>3. \/ \E n \in LongSizes : input \in [op : {"sort"}, array : Arrays(n, 0 .. 1), cutoff : {Cutoff}]
          \/ \E n \in 1 .. ShortMax : input \in [op : {"sort"}, array : Arrays(n, 1 .. n), cutoff : {SmallCutoff}]
      BY <2>1 DEF SortInputs
    <3> QED BY <3>1, <3>2, <3>3, AlgorithmBounds
  <2>3. PICK n \in Nat : input.array \in [0 .. n - 1 -> Int] /\ input.cutoff \in Nat /\ input.cutoff >= 2
    BY <2>2
  <2>4. PICK a \in [0 .. n - 1 -> Int] : a = input.array BY <2>3
  <2>5. PICK cut \in Nat : cut = input.cutoff /\ cut >= 2 BY <2>3
  <2>6. /\ output.quick = quickSort(a, cut) /\ output.insertion = insertionSort(a, 0, n - 1)
        /\ output.merge = mergeSort(a)
    <3>1. Size(a) = n BY SizeIs
    <3> QED BY <2>4, <2>5, <3>1 DEF AnswersInv
  <2>7. SortedArray(output.quick, a, n) BY <2>5, <2>6, QuickSortSorts
  <2>8. SortedArray(output.insertion, a, n) BY <2>6, InsertionSortSorts
  <2>9. SortedArray(output.merge, a, n) BY <2>6, MergeSortSorts
  <2>10. PICK b \in [0 .. n - 1 -> Int] : b = output.quick /\ Ascending(b) /\ Permutes(b, a)
    BY <2>7 DEF SortedArray
  <2>11. ASSUME NEW v \in Range(a)
         PROVE  binarySearch(b, v, TRUE) \in DOMAIN b /\ b[binarySearch(b, v, TRUE)] = v
    <3>1. v \in Int /\ v \in Range(b) BY <2>10 DEF Permutes, Range
    <3>2. binarySearch(b, v, TRUE) \in 0 .. n - 1 /\ b[binarySearch(b, v, TRUE)] = v
      BY <2>10, <3>1, SearchFindsElements
    <3> QED BY <3>2
  <2> QED BY <2>4, <2>7, <2>8, <2>9, <2>10, <2>11 DEF SortsAndFinds, SortedVersion, SortedArray
<1> QED BY <1>1, AnswersAlways, PTL

\* The counter reads of the run, for every width of its halves.
THEOREM CounterReadsAlways == Spec => []CounterReads
<1>1. AnswersInv => CounterReads
  <2> SUFFICES ASSUME AnswersInv, Answered("timer")
               PROVE  CounterRight(HalfValues, input.t, input.us, output)
    BY DEF CounterReads
  <2>1. input \in TimerInputs BY InputsByOperation DEF AnswersInv, Answered
  <2>2. PICK t1 \in Times, t2 \in Times, t3 \in Times : input.t = <<t1, t2, t3>>
    BY <2>1 DEF TimerInputs
  <2>3. /\ t1 <= t2 /\ t2 <= t3 /\ LastPass(HalfValues, <<t1, t2, t3>>)
        /\ input.us \in 1 .. HalfValues - 1
    BY <2>1, <2>2 DEF TimerInputs
  <2>4. HalfValues \in Nat \ {0} /\ HalfValues * HalfValues \in Nat BY AlgorithmBounds
  <2>5. Times \subseteq 0 .. HalfValues * HalfValues - 1 BY <2>4, AlgorithmBounds DEF Times
  <2>6. output = [counter |-> getCounter(HalfValues, <<t1, t2, t3>>),
                  compare |-> WaitMicroT1(HalfValues, <<t1, t2, t3>>, input.us)]
    BY <2>2 DEF AnswersInv
  <2>7. PICK us \in 1 .. HalfValues - 1 : us = input.us BY <2>3
  <2> QED BY <2>2, <2>3, <2>4, <2>5, <2>6, <2>7, CounterOfAnyWidth
<1> QED BY <1>1, AnswersAlways, PTL

\* The fields and bits of the run, with the registers all zeros and all ones.
THEOREM FieldsExactAlways == Spec => []FieldsExact
<1>1. AnswersInv => FieldsExact
  <2> SUFFICES ASSUME AnswersInv PROVE FieldsExact
    OBVIOUS
  <2>1. ASSUME Answered("gpio")
        PROVE  CallRight(input.bank, input.pin, input.value, input.before, output.after)
    <3>1. input \in FieldInputs /\ input.op = "gpio" BY <2>1, InputsByOperation DEF AnswersInv, Answered
    <3>2. input.bank \in Banks /\ input.pin \in Nat /\ input.value \in Nat
      BY <3>1 DEF FieldInputs, GPIO_MAX_PIN
    <3>3. output.after = call(input.bank, input.pin, input.value, input.before) BY <2>1 DEF AnswersInv
    <3> QED BY <3>2, <3>3, CallOfAnyPin
  <2>2. ASSUME Answered("alt5") PROVE Alt5Right(input.pin, input.before, output.after)
    <3>1. input \in FieldInputs /\ input.op = "alt5" BY <2>2, InputsByOperation DEF AnswersInv, Answered
    <3>2. input.pin \in 0 .. GPIO_MAX_PIN BY <3>1 DEF FieldInputs
    <3>3. output.after = useAsAlt5(input.pin, input.before) BY <2>2 DEF AnswersInv
    <3> QED BY <3>2, <3>3, Alt5OfAnyPin
  <2>3. ASSUME Answered("gic")
        PROVE  InitRight /\ GicRight(input.irq, input.cpu, output.enabled, output.assigned)
    <3>1. input \in FieldInputs /\ input.op = "gic" BY <2>3, InputsByOperation DEF AnswersInv, Answered
    <3>2. input.irq \in {r[1] : r \in Routes} \cup {31, 32, 1019} /\ input.cpu \in 0 .. 3
      BY <3>1 DEF FieldInputs
    <3>3. input.irq \in Nat /\ input.irq < 1020 /\ input.cpu \in Nat /\ input.cpu <= 3
      BY <3>2, RoutesAre
    <3>4. /\ output.enabled = enable_interrupt(input.irq, gic_init)
          /\ output.assigned = assign_target(input.irq, input.cpu, gic_init)
      BY <2>3 DEF AnswersInv
    <3> QED BY <3>3, <3>4, GicOfAnyInterrupt, InitEnablesHandled
  <2> QED BY <2>1, <2>2, <2>3 DEF FieldsExact
<1> QED BY <1>1, AnswersAlways, PTL

\* The circles of the run stay inside the frame buffer and off the labels.
THEOREM CirclesAlways == Spec => []CirclesInBuffer
<1>1. AnswersInv => CirclesInBuffer
  <2> SUFFICES ASSUME AnswersInv, Answered("circle") PROVE InBuffer(output.offsets)
    BY DEF CirclesInBuffer, InBuffer
  <2>1. input \in CircleInputs BY InputsByOperation DEF AnswersInv, Answered
  <2>2. input.x \in Nat /\ input.y \in Nat /\ input.r \in Nat BY <2>1 DEF CircleInputs
  <2>3. PICK c : c = CircleAt(input.x, input.y, input.r) OBVIOUS
  <2>4. output.offsets = {Offset(p) : p \in drawCircle(c.x, c.y, c.radius, input.fill)}
    BY <2>3 DEF AnswersInv
  <2>5. InBuffer({Offset(p) : p \in drawCircle(c.x, c.y, c.radius, input.fill)})
    BY <2>2, <2>3, CircleOfAnyHash
  <2> QED BY <2>4, <2>5
<1> QED BY <1>1, AnswersAlways, PTL

\* The layouts of the run, for all first sectors and sizes of partitions.
THEOREM LayoutAlways == Spec => []LayoutSound
<1>1. AnswersInv => LayoutSound
  <2> SUFFICES ASSUME AnswersInv, Answered("layout") PROVE LayoutRight(input.table, output.part)
    BY DEF LayoutSound
  <2>1. input \in LayoutInputs BY InputsByOperation DEF AnswersInv, Answered
  <2>2. input.table \in [1 .. 4 -> Entry]
    <3> DEFINE other == [type |-> 12, first |-> 1, sectors |-> 1]
               none == [type |-> 0, first |-> 0, sectors |-> 0]
    <3>1. PICK p \in Entries(LagorType) :
              input.table \in {<<p, none, none, none>>, <<other, p, other, none>>,
                               <<other, other, other, p>>, <<other, none, p, none>>}
      BY <2>1 DEF LayoutInputs
    <3>2. p \in Entry
      <4>1. Firsts \subseteq Nat /\ Sectors \subseteq Nat BY AlgorithmBounds
      <4>2. LagorType \in Nat BY DEF LagorType
      <4>3. Entries(LagorType) \subseteq Entry BY <4>1, <4>2 DEF Entries, Entry
      <4> QED BY <4>3
    <3>3. other \in Entry /\ none \in Entry BY DEF Entry
    <3> HIDE DEF other, none
    <3>4. \A w, x, y, z \in Entry : <<w, x, y, z>> \in [1 .. 4 -> Entry] OBVIOUS
    <3> QED BY <3>1, <3>2, <3>3, <3>4
  <2>3. output.part = FindPartition(input.table) BY DEF AnswersInv
  <2> QED BY <2>2, <2>3, LayoutOfAnyTable
<1> QED BY <1>1, AnswersAlways, PTL

=============================================================================
