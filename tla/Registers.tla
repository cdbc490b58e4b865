------------------------------ MODULE Registers ------------------------------
(***************************************************************************)
(* The drivers that compute on device registers: the 64-bit counter read in *)
(* two halves (SystemTimer.cpp), the pin fields of the GPIO block           *)
(* (GPIO.cpp) and the enable and target bits of the interrupt controller    *)
(* (GIC.cpp).  Registers are 32 bits wide; what they hold is the set of     *)
(* their one bits, <<address, bit>>.                                        *)
(***************************************************************************)
EXTENDS Integers, FiniteSets

WordBits == 32

-----------------------------------------------------------------------------
(* SystemTimer.  A half has h values (2^32); a counter value is also the time. *)

Lo(h, counter) == counter % h
Hi(h, counter) == (counter \div h) % h

\* A pass of the loop reads lo, hi and hi again; it is repeated unless hi is the same.
LastPass(h, t) == Hi(h, t[2]) = Hi(h, t[3])

\* getCounter, when its last pass reads at the times t[1] <= t[2] <= t[3].
getCounter(h, t) == Hi(h, t[2]) * h + Lo(h, t[1])

\* Mutant: the compare register gets the delay alone.
BugWaitMicroT1(h, t, us) == us % h

\* WaitMicroT1: the compare register after its last pass.
WaitMicroT1(h, t, us) == (Lo(h, t[1]) + us) % h

\* The first time after now at which the low half equals compare.
MatchAfter(h, now, compare) == now + 1 + ((compare - (now + 1)) % h)

-----------------------------------------------------------------------------
(* GPIO *)

GPIO_MAX_PIN == 53

\* Base address and field size of a bank, from the block's own base.
Bank(b) ==
    CASE b = "function" -> [base |-> 0, field_size |-> 3]
      [] b = "set"      -> [base |-> 28, field_size |-> 1]
      [] b = "clear"    -> [base |-> 40, field_size |-> 1]
      [] b = "pull"     -> [base |-> 228, field_size |-> 2]
Banks == {"function", "set", "clear", "pull"}

BitsOf(value) == {k \in 0 .. 7 : (value \div 2^k) % 2 = 1}

\* Mutant: a field too many per register.
BugNumFields(field_size) == WordBits \div field_size + 1

NumFields(field_size) == WordBits \div field_size

\* GPIO::call: the field of the pin is replaced; FALSE when pin or value is too large.
Refused(b, pin, value) == pin > GPIO_MAX_PIN \/ value > 2^Bank(b).field_size - 1
call(b, pin, value, regs) ==
    LET size == Bank(b).field_size
        reg == Bank(b).base + 4 * (pin \div NumFields(size))
        shift == (pin % NumFields(size)) * size
        field == {<<reg, shift + k>> : k \in 0 .. size - 1}
    IN  IF Refused(b, pin, value) THEN regs
        ELSE (regs \ field) \cup {<<reg, shift + k>> : k \in BitsOf(value)}

\* useAsAlt5: no pull, function 2.
useAsAlt5(pin, regs) == call("function", pin, 2, call("pull", pin, 0, regs))

-----------------------------------------------------------------------------
(* GIC-400 *)

ENABLE_BASE == 256
TARGET_BASE == 2048

\* Writing ones to an enable register sets them and leaves the others alone.
enable_interrupt(irq, regs) == regs \cup {<<ENABLE_BASE + 4 * (irq \div 32), irq % 32>>}

assign_target(irq, cpu, regs) ==
    regs \cup {<<TARGET_BASE + 4 * (irq \div 4), (irq % 4) * 8 + cpu>>}

\* What GIC400::init assigns: timer 1 and UART to core 0, RESCHEDULE to the others,
\* HALT, SLEEP and WAKEUP_ALL to all.
Routes == {<<97, 0>>, <<125, 0>>} \cup ({2} \X (1 .. 3)) \cup ({1, 3, 4} \X (0 .. 3))
gic_init ==
    UNION {assign_target(r[1], r[2], enable_interrupt(r[1], {})) : r \in Routes}

\* The interrupts irq_handler_spx has a case for: timer 1, RESCHEDULE, SYS_TIMER_IRQ_3,
\* WAKEUP_ALL, SLEEP, UART, HALT and the spurious one.
SYS_TIMER_IRQ_3 == 8
SYSTEM_SPOURIOUS_IRQ == 1023
Handled == {97, 2, SYS_TIMER_IRQ_3, 4, 3, 125, 1, SYSTEM_SPOURIOUS_IRQ}

=============================================================================
