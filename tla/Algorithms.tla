----------------------------- MODULE Algorithms -----------------------------
(***************************************************************************)
(* One call of each pure algorithm on every input of the bounded sets:      *)
(* sorting and searching (List.h), counter and register arithmetic (the     *)
(* drivers), the pixels of a circle (FrameBuffer.cpp, Task.cpp) and the     *)
(* layout the file-system tool writes (tools/fs_driver/main.c).             *)
(***************************************************************************)
EXTENDS ListSort, Registers, Drawing, FsLayout

CONSTANTS
    Cutoff,      \* the code's cutoff between quickSort and insertionSort
    LongSizes,   \* sizes of the arrays of 0 and 1 sorted with that cutoff
    SmallCutoff, \* a cutoff at which short arrays are partitioned, too
    ShortMax,    \* largest size of the arrays sorted with SmallCutoff
    HalfValues,  \* values of half the counter (2^32)
    MaxTime,     \* last time at which it is read
    Firsts,      \* first sectors of partitions
    Sectors      \* sizes of partitions

ASSUME AlgorithmBounds ==
    /\ Cutoff \in Nat /\ Cutoff >= 2 /\ SmallCutoff \in Nat /\ SmallCutoff >= 2
    /\ LongSizes \subseteq Nat /\ ShortMax \in Nat
    /\ HalfValues \in Nat \ {0} /\ MaxTime \in 0 .. HalfValues * HalfValues - 1
    /\ Firsts \subseteq Nat /\ Sectors \subseteq Nat

VARIABLES input, output
algorithmVars == <<input, output>>

Arrays(n, V) == [0 .. n - 1 -> V]

SortInputs ==
    (UNION {[op : {"sort"}, array : Arrays(n, 0 .. 1), cutoff : {Cutoff}] : n \in LongSizes})
    \cup (UNION {[op : {"sort"}, array : Arrays(n, 1 .. n), cutoff : {SmallCutoff}] : n \in 1 .. ShortMax})

\* The times of a last pass, before the counter itself wraps, and the delay.
Times == 0 .. MaxTime
TimerInputs ==
    {i \in [op : {"timer"}, t : Times \X Times \X Times, us : 1 .. HalfValues - 1] :
        i.t[1] <= i.t[2] /\ i.t[2] <= i.t[3] /\ LastPass(HalfValues, i.t)}

AllOnes == (0 .. 256) \X (0 .. WordBits - 1)
FieldInputs ==
    [op : {"gpio"}, bank : Banks, pin : 0 .. GPIO_MAX_PIN + 1, value : 0 .. 8,
     before : {{}, AllOnes}]
    \cup [op : {"alt5"}, pin : 0 .. GPIO_MAX_PIN, before : {{}, AllOnes}]
    \cup [op : {"gic"}, irq : {r[1] : r \in Routes} \cup {31, 32, 1019}, cpu : 0 .. 3]

\* Smallest and largest of each coordinate, and every radius.
CircleInputs ==
    [op : {"circle"}, x : {0, 1, 1919}, y : {0, 1079}, r : 0 .. 9, fill : BOOLEAN]

\* Four entries: unused, another system's, Lagor's.
Entries(type) == [type : {type}, first : Firsts, sectors : Sectors]
LayoutInputs ==
    LET other == [type |-> 12, first |-> 1, sectors |-> 1]
        none == [type |-> 0, first |-> 0, sectors |-> 0]
    IN  UNION {[op : {"layout"}, table : {<<p, none, none, none>>, <<other, p, other, none>>,
                                          <<other, other, other, p>>, <<other, none, p, none>>}]
               : p \in Entries(LagorType)}

NoOutput == [none |-> TRUE]

Init ==
    /\ input \in SortInputs \cup TimerInputs \cup FieldInputs \cup CircleInputs \cup LayoutInputs
    /\ output = NoOutput

Answer(result) == output' = result

Sort ==
    /\ input.op = "sort"
    /\ Answer([quick |-> quickSort(input.array, input.cutoff),
               insertion |-> insertionSort(input.array, 0, Size(input.array) - 1),
               merge |-> mergeSort(input.array)])

ReadTimer ==
    /\ input.op = "timer"
    /\ Answer([counter |-> getCounter(HalfValues, input.t),
               compare |-> WaitMicroT1(HalfValues, input.t, input.us)])

WriteField ==
    \/ /\ input.op = "gpio"
       /\ Answer([after |-> call(input.bank, input.pin, input.value, input.before)])
    \/ /\ input.op = "alt5"
       /\ Answer([after |-> useAsAlt5(input.pin, input.before)])
    \/ /\ input.op = "gic"
       /\ Answer([enabled |-> enable_interrupt(input.irq, gic_init),
                  assigned |-> assign_target(input.irq, input.cpu, gic_init)])

DrawCircle ==
    /\ input.op = "circle"
    /\ LET c == CircleAt(input.x, input.y, input.r)
       IN  Answer([offsets |-> {Offset(p) : p \in drawCircle(c.x, c.y, c.radius, input.fill)}])

MakeLayout ==
    /\ input.op = "layout"
    /\ Answer([part |-> FindPartition(input.table)])

Next ==
    /\ output = NoOutput
    /\ Sort \/ ReadTimer \/ WriteField \/ DrawCircle \/ MakeLayout
    /\ UNCHANGED input

Spec == Init /\ [][Next]_algorithmVars

-----------------------------------------------------------------------------
(* Properties *)

Answered(op) == input.op = op /\ output # NoOutput

SortedVersion(a, b) == Ascending(a) /\ Permutes(a, b)

\* quickSort, with its median-of-three pivot, its unguarded scans and its switch to
\* insertionSort, insertionSort and mergeSort all return the elements in ascending
\* order, and binarySearch finds every one of them there.
SortsAndFinds ==
    Answered("sort") =>
        /\ SortedVersion(output.quick, input.array)
        /\ SortedVersion(output.insertion, input.array)
        /\ SortedVersion(output.merge, input.array)
        /\ \A v \in Range(input.array) :
               LET k == binarySearch(output.quick, v, TRUE)
               IN  k \in DOMAIN output.quick /\ output.quick[k] = v

CounterRight(h, t, us, out) ==
    /\ out.counter >= t[1]
    /\ Hi(h, t[1]) = Hi(h, t[3]) => out.counter = t[1]
    /\ t[3] < t[1] + us => MatchAfter(h, t[3], out.compare) = t[1] + us

\* The counter read in two halves is the time of the first read unless the low half
\* wraps before the high half is read, and then too large, never too small: a sleeper may
\* be woken early, or a round of the low half late when its deadline came from such a
\* read.  The tick comes exactly us after the first read, if the register is written
\* before that, also when the sum wraps.
CounterReads == Answered("timer") => CounterRight(HalfValues, input.t, input.us, output)

\* Bit k of the field of a pin, as the manual lays the banks out.
FieldBit(b, pin, k) ==
    LET perWord == CASE b = "function" -> 10 [] b = "pull" -> 16 [] OTHER -> 32
    IN  <<Bank(b).base + 4 * (pin \div perWord), (pin % perWord) * Bank(b).field_size + k>>
FieldOf(b, pin) == {FieldBit(b, pin, k) : k \in 0 .. Bank(b).field_size - 1}

\* Only the field of the pin changes, and it holds the value, bit by bit.
CallRight(b, pin, value, before, after) ==
    LET field == FieldOf(b, pin)
        changed == (after \ before) \cup (before \ after)
    IN  IF Refused(b, pin, value) THEN after = before
        ELSE /\ changed \subseteq field
             /\ \A f \in field : f[2] < WordBits
             /\ \A k \in 0 .. Bank(b).field_size - 1 :
                    FieldBit(b, pin, k) \in after <=> (value \div 2^k) % 2 = 1

\* Function 2 and no pull, the other pins as they were.
Alt5Right(pin, before, after) ==
    LET own == FieldOf("function", pin) \cup FieldOf("pull", pin)
    IN  /\ after \ own = before \ own
        /\ after \cap own = {<<4 * (pin \div 10), (pin % 10) * 3 + 1>>}

\* The controller's reading of its registers: bit n from the first enable register
\* enables interrupt n, byte n from the first target register holds its cores.
IsEnable(b) == b[1] < TARGET_BASE
InterruptOf(b) == 8 * (b[1] - ENABLE_BASE) + b[2]
TargetOf(b) == LET n == 8 * (b[1] - TARGET_BASE) + b[2] IN <<n \div 8, n % 8>>
EnabledIn(regs) == {InterruptOf(b) : b \in {x \in regs : IsEnable(x)}}
TargetsIn(regs) == {TargetOf(b) : b \in {x \in regs : ~ IsEnable(x)}}

\* The call enables, or assigns, that interrupt and changes nothing else.
GicRight(irq, cpu, enabled, assigned) ==
    /\ EnabledIn(enabled) = EnabledIn(gic_init) \cup {irq}
    /\ TargetsIn(enabled) = TargetsIn(gic_init)
    /\ TargetsIn(assigned) = TargetsIn(gic_init) \cup {<<irq, cpu>>}
    /\ EnabledIn(assigned) = EnabledIn(gic_init)

\* After init the registers say what Routes says, every interrupt that is enabled has a
\* case in the handler, and the case SYS_TIMER_IRQ_3 is never reached.
InitRight ==
    /\ TargetsIn(gic_init) = Routes
    /\ EnabledIn(gic_init) = {r[1] : r \in Routes}
    /\ EnabledIn(gic_init) = Handled \ {SYS_TIMER_IRQ_3, SYSTEM_SPOURIOUS_IRQ}

\* GPIO::call leaves the field of its pin with the value's bits and every other bit as it
\* was, and changes nothing when it refuses; useAsAlt5 leaves the pin with function 2 and
\* no pull, and the other pins as they were; enable_interrupt and assign_target set the
\* bit the controller reads as that interrupt and that core, and no other; and
\* GIC400::init enables, of the interrupts irq_handler_spx has a case for, all but
\* SYS_TIMER_IRQ_3 (a case that is dead), and no other interrupt.
FieldsExact ==
    /\ Answered("gpio") => CallRight(input.bank, input.pin, input.value, input.before, output.after)
    /\ Answered("alt5") => Alt5Right(input.pin, input.before, output.after)
    /\ Answered("gic") => InitRight /\ GicRight(input.irq, input.cpu, output.enabled, output.assigned)

\* Whatever the hash values, a circle stays inside the frame buffer and off the labels:
\* at the left and right edges it wraps to the neighbouring line, and the lines kept free
\* above and the hidden lines below are enough for that.
CirclesInBuffer ==
    Answered("circle") =>
        /\ output.offsets \subseteq 0 .. Screen.width * Screen.height - 1
        /\ output.offsets \cap {Offset(p) : p \in Labels} = {}

Inside(w, part) == w.from >= part.first /\ w.to < part.first + part.sectors
Apart(v, w) == v.to < w.from \/ w.to < v.from
WithBlocks(table) == [table EXCEPT !.to = @ + BlockPool]

\* The tool works on an uninitialised entry when no entry before the first unused one
\* is of Lagor's type.
ScanRight(table, part) ==
    part = Unset <=> \A i \in DOMAIN table :
        table[i].type = LagorType => \E j \in 1 .. i : table[j].type = 0

\* What is written in a partition that has room for a pool and ends below 4 GB.
WritesRight(part) ==
    LET writes == {Superblock(part)} \cup Tables(part) \cup Blocks(part)
    IN  /\ \A w \in writes : Inside(w, part)
        /\ \A v, w \in writes : v = w \/ Apart(v, w)
        /\ \A v, w \in Tables(part) : v = w \/ Apart(WithBlocks(v), WithBlocks(w))
        /\ \A v \in Tables(part) : Inside(WithBlocks(v), part)
        /\ \E w \in Tables(part) : FirstInodes(part).from = w.from

LayoutRight(table, part) ==
    /\ ScanRight(table, part)
    /\ part # Unset /\ part.sectors > Pool /\ part.first + part.sectors < SectorWrap => WritesRight(part)

\* In a partition below 4 GB that has room for a pool, everything the tool writes stays
\* in the partition, the superblock, the inode tables and the two blocks do not overlap,
\* every table has its pool of blocks to itself, and the first inodes are where the
\* first table is.  When the scan finds no partition of Lagor's type the tool works on
\* an uninitialised entry.
LayoutSound == Answered("layout") => LayoutRight(input.table, output.part)

=============================================================================
