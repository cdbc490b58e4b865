----------------------------- MODULE SchedProofs -----------------------------
(***************************************************************************)
(* Proofs about Sched for any number of cores, tasks and pinnings.         *)
(***************************************************************************)
EXTENDS Sched, FiniteSetTheorems, TLAPS

-----------------------------------------------------------------------------
(* Facts about the constants and the helpers *)

LEMMA CoresFacts ==
    /\ Cores \subseteq Int
    /\ 0 \in Cores
    /\ NoCore \notin Cores
    /\ IdleTasks \subseteq Tasks
BY CoresAssumption, IdleAssumption DEF Cores, NoCore, IdleTasks

LEMMA NextIndex ==
    ASSUME NEW i \in Cores
    PROVE  i + 1 \in 0 .. NUM_CORES /\ (i + 1 # NUM_CORES => i + 1 \in Cores)
BY CoresAssumption DEF Cores

LEMMA NoCountNat == NoCount \in Nat
BY SMT DEF NoCount

\* calcNextCore compares sizes of lists, which are natural numbers.
LEMMA ListSize ==
    ASSUME TypeOK, NEW i \in Cores, NEW p
    PROVE  Cardinality(List(i, p)) \in Nat
<1>1. List(i, p) \subseteq Tasks BY DEF TypeOK, List
<1>2. IsFiniteSet(List(i, p)) BY <1>1, TasksAssumption, FS_Subset
<1> QED BY <1>2, FS_CardinalityType

\* removeElement never adds an element.
LEMMA RemoveElementShrinks ==
    ASSUME NEW q, NEW t, NEW r \in removeElement(q, t)
    PROVE  r \subseteq q
BY DEF removeElement

-----------------------------------------------------------------------------
(* The layers of the invariant *)

TypeInv == TypeOK /\ RegistersOK
MoveInv == MovingAsleep /\ PinRespected /\ NoPanic
QueueInv == Partitioned /\ CurrentOnQueue /\ IdleQueued /\ SleepRequests /\ PinnedRun

\* The layers that hold whatever requests to sleep arrive where, and the one that holds
\* until a stray one.
LEMMA Layers == IInv <=> TypeInv /\ LocksHeld /\ MoveInv /\ (~strayed => QueueInv)
BY DEF IInv, Strengthening, TypeInv, MoveInv, QueueInv, OneQueue, CurrentQueued

-----------------------------------------------------------------------------
(* Types *)

LEMMA InitTypeInv == Init => TypeInv
<1> SUFFICES ASSUME Init PROVE TypeInv
  OBVIOUS
<1>1. 0 \in 0 .. MaxPremption /\ 0 \in 0 .. NUM_CORES BY PremptionAssumption, CoresAssumption
<1>2. TypeOK BY <1>1, CoresFacts DEF Init, BootQueue, TypeOK, HandlerPcs
<1>3. RegistersOK BY DEF Init, RegistersOK
<1> QED BY <1>2, <1>3 DEF TypeInv

\* calcNextCore, however it starts, leaves well-typed locals behind.
LEMMA StartCalcTypes ==
    ASSUME TypeInv, NEW c \in Cores, NEW t \in Tasks, StartCalc(c, t)
    PROVE  /\ ht' \in [Cores -> Tasks \cup {NoTask}]
           /\ hi' \in [Cores -> 0 .. NUM_CORES]
           /\ hcount' \in [Cores -> Nat]
           /\ hout' \in [Cores -> Cores]
           /\ hpc' \in [Cores -> HandlerPcs]
           /\ hpc'[c] \in {"calc", "mv_lock"} /\ ht'[c] = t /\ hi'[c] = 0
           /\ \A d \in Cores \ {c} : hpc'[d] = hpc[d] /\ ht'[d] = ht[d] /\ hi'[d] = hi[d]
<1> USE DEF StartCalc, TypeInv, TypeOK, Goto
<1>1. ht' \in [Cores -> Tasks \cup {NoTask}] OBVIOUS
<1>2. hi' \in [Cores -> 0 .. NUM_CORES] BY CoresAssumption
<1>3. hcount' \in [Cores -> Nat] BY NoCountNat
<1>4. hout' \in [Cores -> Cores] BY PinAssumption, CoresFacts
<1>5. hpc' \in [Cores -> HandlerPcs] BY DEF HandlerPcs
<1>6. hpc'[c] \in {"calc", "mv_lock"} /\ ht'[c] = t /\ hi'[c] = 0 OBVIOUS
<1>7. \A d \in Cores \ {c} : hpc'[d] = hpc[d] /\ ht'[d] = ht[d] /\ hi'[d] = hi[d] OBVIOUS
<1> QED BY <1>1, <1>2, <1>3, <1>4, <1>5, <1>6, <1>7

LEMMA WakeTypeInv ==
    ASSUME TypeInv, NEW c \in Cores,
           \/ WakeLock(c) \/ WakeDone(c)
           \/ \E t \in Tasks : WakeTimer(c, t) \/ WakeLockWaiter(c, t)
    PROVE  TypeInv'
<1> USE DEF TypeInv, TypeOK, RegistersOK, queueVars, taskVars, lockVars, gicVars, calcVars,
        At, Goto, GoOn, HandlerPcs
<1>1. CASE WakeLock(c) BY <1>1 DEF WakeLock
<1>2. CASE WakeDone(c) BY <1>2 DEF WakeDone
<1>3. ASSUME NEW t \in Tasks, WakeTimer(c, t) PROVE TypeInv'
  BY <1>3, StartCalcTypes, CoresFacts DEF WakeTimer
<1>4. ASSUME NEW t \in Tasks, WakeLockWaiter(c, t) PROVE TypeInv'
  BY <1>4, StartCalcTypes, CoresFacts DEF WakeLockWaiter
<1> QED BY <1>1, <1>2, <1>3, <1>4

LEMMA MoveTypeInv ==
    ASSUME TypeInv, NEW c \in Cores,
           CalcNextCore(c) \/ MoveLock(c) \/ MoveRemove(c) \/ GrowList(c) \/ MoveAdd(c)
    PROVE  TypeInv'
<1> USE DEF TypeInv, TypeOK, RegistersOK, queueVars, taskVars, lockVars, gicVars, calcVars,
        wakeVars, At, Goto, GoOn, HandlerPcs
<1>1. CASE CalcNextCore(c)
  <2> DEFINE i == hi[c]
             size == Cardinality(List(i, prio[ht[c]]))
  <2>1. i \in Cores /\ i + 1 \in 0 .. NUM_CORES /\ (i + 1 # NUM_CORES => i + 1 \in Cores)
    <3>1. hi[c] \in Cores BY <1>1 DEF CalcNextCore
    <3> QED BY <3>1, NextIndex
  <2>2. size \in Nat BY <2>1, ListSize
  <2> HIDE DEF size
  <2>3. /\ hcount' = [hcount EXCEPT ![c] = IF size < @ THEN size ELSE @]
        /\ hout' = [hout EXCEPT ![c] = IF size < hcount[c] THEN i ELSE @]
    BY <1>1 DEF CalcNextCore, size
  <2>4. hcount' \in [Cores -> Nat] BY <2>2, <2>3
  <2>5. hout' \in [Cores -> Cores] BY <2>1, <2>3
  <2>6. hi' \in [Cores -> 0 .. NUM_CORES] /\ hpc' \in [Cores -> HandlerPcs]
    BY <1>1, <2>1 DEF CalcNextCore
  <2>7. RegistersOK' BY <1>1, <2>1 DEF CalcNextCore
  <2> QED BY <1>1, <2>4, <2>5, <2>6, <2>7 DEF CalcNextCore
<1>2. CASE MoveLock(c) BY <1>2 DEF MoveLock
<1>3. CASE MoveRemove(c) BY <1>3, RemoveElementShrinks DEF MoveRemove, Left
<1>4. CASE GrowList(c) BY <1>4 DEF GrowList
<1>5. CASE MoveAdd(c)
  <2>1. ht[c] \in Tasks /\ hout[c] \in Cores BY <1>5 DEF MoveAdd
  <2>2. runningQ' \in [Cores -> SUBSET Tasks] BY <1>5, <2>1 DEF MoveAdd
  <2>3. runningQLock' \in [Cores -> Cores \cup {NoCore}] BY <1>5 DEF MoveAdd
  <2>4. /\ ht' \in [Cores -> Tasks \cup {NoTask}]
        /\ hi' \in [Cores -> 0 .. NUM_CORES]
        /\ hcount' \in [Cores -> Nat]
        /\ hout' \in [Cores -> Cores]
    BY <1>5, CoresFacts, CoresAssumption DEF MoveAdd
  <2>5. hpc' \in [Cores -> HandlerPcs] BY <1>5 DEF MoveAdd
  <2>6. RegistersOK' BY <1>5 DEF MoveAdd
  <2> QED BY <1>5, <2>2, <2>3, <2>4, <2>5, <2>6 DEF MoveAdd
<1> QED BY <1>1, <1>2, <1>3, <1>4, <1>5

LEMMA SleepTypeInv ==
    ASSUME TypeInv, NEW c \in Cores,
           SleepRemove(c) \/ SleepLock(c) \/ SleepAdd(c)
    PROVE  TypeInv'
<1> USE DEF TypeInv, TypeOK, RegistersOK, queueVars, taskVars, lockVars, gicVars, calcVars,
        wakeVars, At, Goto, GoOn, HandlerPcs
<1>1. CASE SleepRemove(c) BY <1>1, RemoveElementShrinks DEF SleepRemove, List, Left
<1>2. CASE SleepLock(c) BY <1>2 DEF SleepLock
<1>3. CASE SleepAdd(c) BY <1>3 DEF SleepAdd
<1> QED BY <1>1, <1>2, <1>3

LEMMA RescheduleTypeInv ==
    ASSUME TypeInv, NEW c \in Cores,
           RescheduleSkip(c) \/ TickSend(c) \/ \E t \in Tasks : Reschedule(c, t)
    PROVE  TypeInv'
<1> USE DEF TypeInv, TypeOK, RegistersOK, queueVars, taskVars, lockVars, gicVars, calcVars,
        wakeVars, At, Goto, GoOn, HandlerPcs, AfterResched
<1>1. CASE RescheduleSkip(c) BY <1>1 DEF RescheduleSkip
<1>2. CASE TickSend(c) BY <1>2 DEF TickSend, Irqs, RESCHEDULE, SLEEP
<1>3. ASSUME NEW t \in Tasks, Reschedule(c, t) PROVE TypeInv' BY <1>3 DEF Reschedule
<1> QED BY <1>1, <1>2, <1>3

LEMMA HardwareTypeInv ==
    ASSUME TypeInv,
           \/ TimerMatch
           \/ \E t \in Tasks : Expire(t)
           \/ \E c \in Cores : Interrupt(c)
    PROVE  TypeInv'
<1> USE DEF TypeInv, TypeOK, RegistersOK, queueVars, taskVars, lockVars, gicVars, calcVars,
        wakeVars, At, Goto, HandlerPcs, send_sgi
<1>1. CASE TimerMatch
  <2>1. pending' \in [Cores -> SUBSET Irqs] BY <1>1, CoresFacts DEF TimerMatch, Irqs
  <2>2. RegistersOK' BY <1>1, CoresFacts DEF TimerMatch, TIMER1, SLEEP
  <2> QED BY <1>1, <2>1, <2>2 DEF TimerMatch
<1>2. ASSUME NEW t \in Tasks, Expire(t) PROVE TypeInv' BY <1>2 DEF Expire
<1>3. ASSUME NEW c \in Cores, NEW irq \in Irqs, TakeIRQ(c, irq) PROVE TypeInv'
  <2>1. /\ FirstPc(irq) \in {"wt_lock", "resched", "sl_remove"}
        /\ FirstPc(irq) = "sl_remove" => irq = SLEEP
    BY DEF FirstPc, Irqs, RESCHEDULE, SLEEP, WAKEUP, TIMER1
  <2> QED BY <1>3, <2>1, SMTT(30) DEF TakeIRQ
<1> QED BY <1>1, <1>2, <1>3 DEF Interrupt

LEMMA TaskTypeInv ==
    ASSUME TypeInv, NEW c \in Cores, TaskStep(c)
    PROVE  TypeInv'
<1> USE DEF TypeInv, TypeOK, RegistersOK, queueVars, taskVars, lockVars, gicVars, calcVars,
        wakeVars, At, Running, send_sgi
<1>1. ASSUME NEW t \in Tasks, SetTimer(c, t) PROVE TypeInv' BY <1>1 DEF SetTimer
<1>2. ASSUME NEW t \in Tasks, SetSleepingOnLock(c, t) PROVE TypeInv'
  BY <1>2 DEF SetSleepingOnLock
<1>3. ASSUME NEW d \in Cores, Sleep(c, d) PROVE TypeInv'
  <2>1. current[d] \in Tasks BY <1>3 DEF Sleep, Holds, Known
  <2>2. pending' \in [Cores -> SUBSET Irqs] BY <1>3 DEF Sleep, Irqs
  <2>3. strayed' \in BOOLEAN BY <1>3 DEF Sleep
  <2>4. RegistersOK' BY <1>3, <2>1 DEF Sleep
  <2> QED BY <1>3, <2>2, <2>3, <2>4 DEF Sleep
<1>4. CASE SetOwner(c) BY <1>4 DEF SetOwner
<1>5. ASSUME NEW d \in Cores, SendWakeup(c, d) PROVE TypeInv'
  BY <1>5 DEF SendWakeup, Irqs, SLEEP, WAKEUP
<1>6. CASE preemptDisable(c) BY <1>6, PremptionAssumption DEF preemptDisable
<1>7. CASE preemptEnable(c) BY <1>7, PremptionAssumption DEF preemptEnable
<1>8. CASE disableIRQ(c) BY <1>8 DEF disableIRQ
<1>9. CASE enableIRQ(c) BY <1>9 DEF enableIRQ
<1>10. CASE HeapLock(c) BY <1>10 DEF HeapLock
<1>11. CASE HeapRelease(c) BY <1>11 DEF HeapRelease
<1> QED BY <1>1, <1>2, <1>3, <1>4, <1>5, <1>6, <1>7, <1>8, <1>9, <1>10, <1>11 DEF TaskStep

LEMMA NextTypeInv == TypeInv /\ [Next]_vars => TypeInv'
<1> SUFFICES ASSUME TypeInv, [Next]_vars PROVE TypeInv'
  OBVIOUS
<1>1. CASE TimerMatch \/ (\E t \in Tasks : Expire(t)) \/ \E c \in Cores : Interrupt(c)
  BY <1>1, HardwareTypeInv
<1>2. ASSUME NEW c \in Cores, HandlerStep(c) PROVE TypeInv'
  BY <1>2, WakeTypeInv, MoveTypeInv, SleepTypeInv, RescheduleTypeInv DEF HandlerStep
<1>3. ASSUME NEW c \in Cores, TaskStep(c) PROVE TypeInv'
  BY <1>3, TaskTypeInv
<1>4. CASE UNCHANGED vars
  BY <1>4 DEF TypeInv, TypeOK, RegistersOK, vars, queueVars, taskVars, lockVars, gicVars,
              calcVars, wakeVars
<1> QED BY <1>1, <1>2, <1>3, <1>4 DEF Next

\* Type correctness: whatever the number of cores and tasks, calcNextCore only
\* indexes queues that exist, only tasks of createKernelTask are queued or put to
\* sleep, and the preemption counter never leaves its range.
THEOREM TypeCorrect == Spec => []TypeOK
<1>1. TypeInv => TypeOK BY DEF TypeInv
<1> QED BY <1>1, InitTypeInv, NextTypeInv, PTL DEF Spec

-----------------------------------------------------------------------------
(* Locks *)

LEMMA InitLocksHeld == Init => LocksHeld
BY CoresFacts DEF Init, LocksHeld, WithSleepingQLock, WithRunningQLock

LEMMA WakeLocksHeld ==
    ASSUME TypeInv, LocksHeld, NEW c \in Cores,
           \/ WakeLock(c) \/ WakeDone(c)
           \/ \E t \in Tasks : WakeTimer(c, t) \/ WakeLockWaiter(c, t)
    PROVE  LocksHeld'
<1> USE CoresFacts DEF TypeInv, TypeOK, LocksHeld, WithSleepingQLock, WithRunningQLock,
        lockVars, gicVars, calcVars, At, Goto, GoOn
<1>1. CASE WakeLock(c) BY <1>1 DEF WakeLock
<1>2. CASE WakeDone(c) BY <1>2 DEF WakeDone
<1>3. ASSUME NEW t \in Tasks, WakeTimer(c, t) PROVE LocksHeld' BY <1>3 DEF WakeTimer, StartCalc
<1>4. ASSUME NEW t \in Tasks, WakeLockWaiter(c, t) PROVE LocksHeld'
  BY <1>4 DEF WakeLockWaiter, StartCalc
<1> QED BY <1>1, <1>2, <1>3, <1>4

LEMMA MoveLocksHeld ==
    ASSUME TypeInv, LocksHeld, NEW c \in Cores,
           CalcNextCore(c) \/ MoveLock(c) \/ MoveRemove(c) \/ GrowList(c) \/ MoveAdd(c)
    PROVE  LocksHeld'
<1> USE CoresFacts DEF TypeInv, TypeOK, LocksHeld, WithSleepingQLock, WithRunningQLock,
        lockVars, gicVars, wakeVars, calcVars, At, Goto, GoOn
<1>1. CASE CalcNextCore(c) BY <1>1 DEF CalcNextCore
<1>2. CASE MoveLock(c) BY <1>2 DEF MoveLock
<1>3. CASE MoveRemove(c) BY <1>3 DEF MoveRemove
<1>4. CASE GrowList(c) BY <1>4 DEF GrowList
<1>5. CASE MoveAdd(c) BY <1>5 DEF MoveAdd
<1> QED BY <1>1, <1>2, <1>3, <1>4, <1>5

LEMMA SleepLocksHeld ==
    ASSUME TypeInv, LocksHeld, NEW c \in Cores,
           \/ SleepRemove(c) \/ SleepLock(c) \/ SleepAdd(c)
           \/ RescheduleSkip(c) \/ TickSend(c) \/ \E t \in Tasks : Reschedule(c, t)
    PROVE  LocksHeld'
<1> USE CoresFacts DEF TypeInv, TypeOK, LocksHeld, WithSleepingQLock, WithRunningQLock,
        lockVars, gicVars, wakeVars, calcVars, At, Goto, GoOn, AfterResched
<1>1. CASE SleepRemove(c) BY <1>1 DEF SleepRemove
<1>2. CASE SleepLock(c) BY <1>2 DEF SleepLock
<1>3. CASE SleepAdd(c) BY <1>3 DEF SleepAdd
<1>4. CASE RescheduleSkip(c) BY <1>4 DEF RescheduleSkip
<1>5. CASE TickSend(c) BY <1>5 DEF TickSend
<1>6. ASSUME NEW t \in Tasks, Reschedule(c, t) PROVE LocksHeld' BY <1>6 DEF Reschedule
<1> QED BY <1>1, <1>2, <1>3, <1>4, <1>5, <1>6

LEMMA HardwareLocksHeld ==
    ASSUME TypeInv, LocksHeld,
           \/ TimerMatch
           \/ \E t \in Tasks : Expire(t)
           \/ \E c \in Cores : Interrupt(c)
    PROVE  LocksHeld'
<1> USE DEF TypeInv, TypeOK, LocksHeld, WithSleepingQLock, WithRunningQLock,
        lockVars, gicVars, wakeVars, calcVars, At, Goto
<1>1. CASE TimerMatch BY <1>1 DEF TimerMatch
<1>2. ASSUME NEW t \in Tasks, Expire(t) PROVE LocksHeld' BY <1>2 DEF Expire
<1>3. ASSUME NEW c \in Cores, NEW irq \in Irqs, TakeIRQ(c, irq) PROVE LocksHeld'
  <2>1. FirstPc(irq) \in {"wt_lock", "resched", "sl_remove"}
    BY DEF FirstPc, Irqs, RESCHEDULE, SLEEP, WAKEUP, TIMER1
  <2> QED BY <1>3, <2>1, SMTT(30) DEF TakeIRQ
<1> QED BY <1>1, <1>2, <1>3 DEF Interrupt

LEMMA TaskLocksHeld ==
    ASSUME TypeInv, LocksHeld, NEW c \in Cores, TaskStep(c)
    PROVE  LocksHeld'
<1> USE CoresFacts DEF TypeInv, TypeOK, LocksHeld, WithSleepingQLock, WithRunningQLock,
        lockVars, gicVars, wakeVars, calcVars, At, Running
<1>1. CASE \/ \E t \in Tasks : SetTimer(c, t) \/ SetSleepingOnLock(c, t)
           \/ \E d \in Cores : Sleep(c, d) \/ SendWakeup(c, d)
           \/ SetOwner(c) \/ preemptDisable(c) \/ preemptEnable(c)
  BY <1>1 DEF SetTimer, SetSleepingOnLock, Sleep, SetOwner, SendWakeup, preemptDisable,
              preemptEnable
<1>2. CASE disableIRQ(c) BY <1>2 DEF disableIRQ
<1>3. CASE enableIRQ(c) BY <1>3 DEF enableIRQ
<1>4. CASE HeapLock(c) BY <1>4 DEF HeapLock
<1>5. CASE HeapRelease(c) BY <1>5 DEF HeapRelease
<1> QED BY <1>1, <1>2, <1>3, <1>4, <1>5 DEF TaskStep

LEMMA NextLocksHeld == TypeInv /\ LocksHeld /\ [Next]_vars => LocksHeld'
<1> SUFFICES ASSUME TypeInv, LocksHeld, [Next]_vars PROVE LocksHeld'
  OBVIOUS
<1>1. CASE TimerMatch \/ (\E t \in Tasks : Expire(t)) \/ \E c \in Cores : Interrupt(c)
  BY <1>1, HardwareLocksHeld
<1>2. ASSUME NEW c \in Cores, HandlerStep(c) PROVE LocksHeld'
  BY <1>2, WakeLocksHeld, MoveLocksHeld, SleepLocksHeld DEF HandlerStep
<1>3. ASSUME NEW c \in Cores, TaskStep(c) PROVE LocksHeld'
  BY <1>3, TaskLocksHeld
<1>4. CASE UNCHANGED vars
  BY <1>4 DEF LocksHeld, vars, lockVars, gicVars, wakeVars, calcVars
<1> QED BY <1>1, <1>2, <1>3, <1>4 DEF Next

LEMMA LocksOrdered == TypeInv /\ LocksHeld => LockOrder
<1> SUFFICES ASSUME TypeInv, LocksHeld, NEW c \in Cores, NEW d \in Cores, WaitsFor(c, d)
             PROVE  LockLevel(c) < LockLevel(d)
  BY DEF LockOrder
<1> USE DEF TypeInv, TypeOK, LocksHeld, WithSleepingQLock, WithRunningQLock
<1>1. CASE hpc[c] \in {"wt_lock", "wl_lock", "sl_lock"} /\ sleepingQLock = d
  BY <1>1 DEF LockLevel, WantsHeap
<1>2. CASE \/ hpc[c] = "calc" /\ runningQLock[hi[c]] = d
           \/ hpc[c] = "mv_lock" /\ runningQLock[hout[c]] = d
           \/ hpc[c] \in {"sl_remove", "resched"} /\ runningQLock[c] = d
  <2>1. hpc[d] \in WithRunningQLock BY <1>2 DEF RegistersOK
  <2> QED BY <1>2, <2>1 DEF LockLevel, WantsHeap
<1>3. CASE (hpc[c] \in {"mv_heap", "sl_heap"} \/ WantsHeap(c)) /\ heapLock = d
  BY <1>3 DEF LockLevel, WantsHeap
<1> QED BY <1>1, <1>2, <1>3 DEF WaitsFor

\* Deadlock freedom of the spin locks: on any number of cores a core only ever
\* spins on a lock whose holder is further down the order of acquisition, so no
\* cycle of waiting cores exists, and no handler spins on the allocator lock of
\* the task it has interrupted.
THEOREM LocksNeverDeadlock == Spec => []LockOrder
<1>1. Init => TypeInv /\ LocksHeld BY InitTypeInv, InitLocksHeld
<1>2. TypeInv /\ LocksHeld /\ [Next]_vars => (TypeInv /\ LocksHeld)'
  BY NextTypeInv, NextLocksHeld
<1> QED BY <1>1, <1>2, LocksOrdered, PTL DEF Spec

-----------------------------------------------------------------------------
(* Tasks on the move *)

Moving == {"calc", "mv_lock", "mv_remove", "mv_heap", "mv_add", "panic"}

LEMMA InitMoveInv == Init => MoveInv
<1> SUFFICES ASSUME Init PROVE MoveInv
  OBVIOUS
<1>1. MovingAsleep /\ NoPanic BY DEF Init, MovingAsleep, NoPanic
<1>2. PinRespected BY PinAssumption DEF Init, BootQueue, PinRespected
<1> QED BY <1>1, <1>2 DEF MoveInv

\* MoveInv is about the cores in a wake-up loop, the sleeping tasks and where tasks are
\* queued: it survives what only puts more tasks to sleep or takes some off a core.
LEMMA MoveInvFrame ==
    ASSUME MoveInv, UNCHANGED <<ht, hout>>, sleepingQ \subseteq sleepingQ',
           \A c \in Cores : runningQ'[c] \subseteq runningQ[c],
           \A c \in Cores : hpc'[c] = hpc[c] \/ hpc'[c] \notin Moving
    PROVE  MoveInv'
<1>1. MovingAsleep' BY DEF MoveInv, MovingAsleep, Moving
<1>2. PinRespected' BY DEF MoveInv, PinRespected
<1>3. NoPanic' BY DEF MoveInv, NoPanic, Moving
<1> QED BY <1>1, <1>2, <1>3 DEF MoveInv

\* The wake-up loops hold the lock of the sleeping queue, so the task they found
\* there is still there when they remove it.
LEMMA WakeMoveInv ==
    ASSUME TypeInv, LocksHeld, MoveInv, NEW c \in Cores,
           \/ WakeLock(c) \/ WakeDone(c)
           \/ \E t \in Tasks : WakeTimer(c, t) \/ WakeLockWaiter(c, t)
    PROVE  MoveInv'
<1> USE CoresFacts, PinAssumption DEF TypeInv, TypeOK, queueVars, taskVars, lockVars, gicVars,
        calcVars, wakeVars, At, Goto, GoOn
<1>1. CASE WakeLock(c)
  <2>1. /\ UNCHANGED <<ht, hout, sleepingQ, runningQ>>
        /\ hpc'[c] \notin Moving /\ \A d \in Cores \ {c} : hpc'[d] = hpc[d]
    BY <1>1 DEF WakeLock, Moving
  <2> QED BY <2>1, MoveInvFrame
<1>2. CASE WakeDone(c)
  <2>1. /\ UNCHANGED <<ht, hout, sleepingQ, runningQ>>
        /\ hpc'[c] \notin Moving /\ \A d \in Cores \ {c} : hpc'[d] = hpc[d]
    BY <1>2 DEF WakeDone, Moving
  <2> QED BY <2>1, MoveInvFrame
<1>3. ASSUME NEW t \in Tasks, StartCalc(c, t), t \in sleepingQ, UNCHANGED queueVars PROVE MoveInv'
  <2>1. MovingAsleep' BY <1>3 DEF MoveInv, MovingAsleep, StartCalc
  <2>2. PinRespected' BY <1>3 DEF MoveInv, PinRespected
  <2>3. NoPanic' BY <1>3 DEF MoveInv, NoPanic, StartCalc
  <2> QED BY <2>1, <2>2, <2>3 DEF MoveInv
<1> QED BY <1>1, <1>2, <1>3 DEF WakeTimer, WakeLockWaiter

LEMMA MoveMoveInv ==
    ASSUME TypeInv, LocksHeld, MoveInv, NEW c \in Cores,
           CalcNextCore(c) \/ MoveLock(c) \/ MoveRemove(c) \/ GrowList(c) \/ MoveAdd(c)
    PROVE  MoveInv'
<1> USE CoresFacts DEF TypeInv, TypeOK, RegistersOK, LocksHeld, WithSleepingQLock, MoveInv,
        MovingAsleep, PinRespected, NoPanic, queueVars, taskVars, lockVars, gicVars,
        calcVars, wakeVars, At, Goto
<1>1. CASE CalcNextCore(c) BY <1>1 DEF CalcNextCore
<1>2. CASE MoveLock(c) BY <1>2 DEF MoveLock
<1>3. CASE MoveRemove(c)
  <2>1. PICK l \in removeElement(sleepingQ, ht[c]) :
           \E next \in {"mv_heap", "mv_add"} :
              hpc' = [hpc EXCEPT ![c] = IF l = sleepingQ THEN "panic" ELSE next]
    BY <1>3 DEF MoveRemove
  <2>2. ht[c] \in sleepingQ BY <1>3 DEF MoveRemove
  <2>3. l # sleepingQ BY <2>1, <2>2 DEF removeElement
  <2>4. \A d \in Cores \ {c} : hpc[d] \notin {"calc", "mv_lock", "mv_remove"}
    BY <1>3 DEF MoveRemove
  <2>5. UNCHANGED <<runningQ, ht, hout>> BY <1>3 DEF MoveRemove
  <2>6. hpc'[c] \in {"mv_heap", "mv_add"} /\ \A d \in Cores \ {c} : hpc'[d] = hpc[d]
    BY <2>1, <2>3
  <2>7. MovingAsleep' BY <1>3, <2>4, <2>5, <2>6 DEF MoveRemove
  <2>8. NoPanic' BY <2>6
  <2> QED BY <2>5, <2>7, <2>8
<1>4. CASE GrowList(c) BY <1>4 DEF GrowList
<1>5. CASE MoveAdd(c)
  <2>1. MovingAsleep' BY <1>5 DEF MoveAdd
  <2>2. PinRespected' BY <1>5 DEF MoveAdd
  <2>3. NoPanic' BY <1>5 DEF MoveAdd
  <2> QED BY <2>1, <2>2, <2>3
<1> QED BY <1>1, <1>2, <1>3, <1>4, <1>5

LEMMA OtherMoveInv ==
    ASSUME TypeInv, MoveInv, NEW c \in Cores,
           \/ SleepRemove(c) \/ SleepLock(c) \/ SleepAdd(c)
           \/ RescheduleSkip(c) \/ TickSend(c) \/ \E t \in Tasks : Reschedule(c, t)
           \/ TimerMatch \/ \E t \in Tasks : Expire(t)
           \/ Interrupt(c) \/ TaskStep(c)
    PROVE  MoveInv'
<1> USE DEF TypeInv, TypeOK, queueVars, taskVars, lockVars, gicVars, calcVars, wakeVars,
        At, Goto, GoOn, AfterResched
<1>1. UNCHANGED <<ht, hout>> /\ sleepingQ \subseteq sleepingQ'
  BY DEF SleepRemove, SleepLock, SleepAdd, RescheduleSkip, TickSend, Reschedule, TimerMatch,
         Expire, Interrupt, TakeIRQ, TaskStep, SetTimer, SetSleepingOnLock, Sleep, SendWakeup,
         SetOwner, preemptDisable, preemptEnable, disableIRQ, enableIRQ, HeapLock, HeapRelease
<1>2. \A d \in Cores : runningQ'[d] \subseteq runningQ[d]
  <2>1. CASE SleepRemove(c) BY <2>1, RemoveElementShrinks DEF SleepRemove, List, Left
  <2>2. CASE ~SleepRemove(c)
    BY <2>2 DEF SleepLock, SleepAdd, RescheduleSkip, TickSend, Reschedule, TimerMatch,
         Expire, Interrupt, TakeIRQ, TaskStep, SetTimer, SetSleepingOnLock, Sleep, SendWakeup,
         SetOwner, preemptDisable, preemptEnable, disableIRQ, enableIRQ, HeapLock, HeapRelease
  <2> QED BY <2>1, <2>2
<1>3. \A d \in Cores : hpc'[d] = hpc[d] \/ hpc'[d] \notin Moving
  <2>1. \A irq \in Irqs : FirstPc(irq) \in {"wt_lock", "resched", "sl_remove"}
    BY DEF FirstPc, Irqs, RESCHEDULE, SLEEP, WAKEUP, TIMER1
  <2>2. CASE Interrupt(c) BY <2>1, <2>2 DEF Interrupt, TakeIRQ, Moving
  <2>3. CASE TimerMatch \/ TaskStep(c) \/ \E t \in Tasks : Expire(t)
    BY <2>3 DEF TimerMatch,
         Expire, TaskStep, SetTimer, SetSleepingOnLock, Sleep, SendWakeup,
         SetOwner, preemptDisable, preemptEnable, disableIRQ, enableIRQ, HeapLock, HeapRelease
  <2>4. CASE \/ SleepRemove(c) \/ SleepLock(c) \/ SleepAdd(c)
             \/ RescheduleSkip(c) \/ TickSend(c) \/ \E t \in Tasks : Reschedule(c, t)
    BY <2>4 DEF SleepRemove, SleepLock, SleepAdd, RescheduleSkip, TickSend, Reschedule, Moving
  <2> QED BY <2>2, <2>3, <2>4
<1> QED BY <1>1, <1>2, <1>3, MoveInvFrame

LEMMA NextMoveInv == TypeInv /\ LocksHeld /\ MoveInv /\ [Next]_vars => MoveInv'
<1> SUFFICES ASSUME TypeInv, LocksHeld, MoveInv, [Next]_vars PROVE MoveInv'
  OBVIOUS
<1>1. CASE TimerMatch \/ \E t \in Tasks : Expire(t) BY <1>1, OtherMoveInv, CoresFacts
<1>2. ASSUME NEW c \in Cores, HandlerStep(c) \/ Interrupt(c) \/ TaskStep(c) PROVE MoveInv'
  BY <1>2, WakeMoveInv, MoveMoveInv, OtherMoveInv DEF HandlerStep
<1>3. CASE UNCHANGED vars
  BY <1>3, MoveInvFrame DEF vars, queueVars, wakeVars, calcVars
<1> QED BY <1>1, <1>2, <1>3 DEF Next

-----------------------------------------------------------------------------
(* Queues, until a SLEEP goes astray *)

Calm == TypeInv /\ LocksHeld /\ MoveInv /\ QueueInv /\ ~strayed

LEMMA InitQueueInv == Init => QueueInv
<1> SUFFICES ASSUME Init PROVE QueueInv
  OBVIOUS
<1> USE CoresFacts DEF Init, BootQueue, InTransit, Descheduling
<1>1. Partitioned BY HomeAssumption DEF Partitioned
<1>2. CurrentOnQueue BY DEF CurrentOnQueue
<1>3. IdleQueued BY IdleAssumption, HomeAssumption DEF IdleQueued
<1>4. SleepRequests BY DEF SleepRequests, SLEEP
<1>5. PinnedRun BY BootAssumption DEF PinnedRun
<1> QED BY <1>1, <1>2, <1>3, <1>4, <1>5 DEF QueueInv

LEMMA PinnedRunFrame ==
    ASSUME PinnedRun, UNCHANGED <<premption, current, runningQ>>,
           \A d \in Cores : Descheduling(d)' => Descheduling(d)
    PROVE  PinnedRun'
BY PinAssumption DEF PinnedRun

\* QueueInv says nothing about timers, mutexes, interrupt masks and the tick.
LEMMA QueueInvFrame ==
    ASSUME QueueInv, UNCHANGED <<queueVars, current, premption, pending, hpc, hirq, wakeVars>>
    PROVE  QueueInv'
<1> USE DEF QueueInv, queueVars, wakeVars, calcVars
<1>1. Partitioned' BY DEF Partitioned, InTransit
<1>2. CurrentOnQueue' /\ IdleQueued'
  BY DEF CurrentOnQueue, Descheduling, IdleQueued
<1>3. SleepRequests' BY DEF SleepRequests, CanSleep, Descheduling
<1>4. PinnedRun' BY PinnedRunFrame DEF Descheduling
<1> QED BY <1>1, <1>2, <1>3, <1>4

\* Where the end of a wake-up loop and a reschedule leave the handlers.
LEMMA WakeDoneFrame ==
    ASSUME TypeInv, NEW c \in Cores, WakeDone(c)
    PROVE  /\ hpc[c] \in {"wt_scan", "wl_scan"}
           /\ \/ hpc'[c] = "task" /\ hirq'[c] = 0
              \/ hpc'[c] = "wl_lock" /\ hirq'[c] = hirq[c]
              \/ hpc'[c] = "resched" /\ hirq'[c] = TIMER1
           /\ \A d \in Cores \ {c} : hpc'[d] = hpc[d] /\ hirq'[d] = hirq[d]
BY DEF TypeInv, TypeOK, WakeDone, GoOn, Goto, At

LEMMA RescheduleFrame ==
    ASSUME TypeInv, NEW c \in Cores, NEW t \in Tasks, Reschedule(c, t)
    PROVE  /\ hpc[c] = "resched"
           /\ \/ hpc'[c] = "task" /\ hirq'[c] = 0
              \/ hpc'[c] = "tick_send" /\ hirq'[c] = TIMER1
           /\ current'[c] = t
           /\ \A d \in Cores \ {c} : /\ hpc'[d] = hpc[d]
                                      /\ hirq'[d] = hirq[d]
                                      /\ current'[d] = current[d]
BY DEF TypeInv, TypeOK, Reschedule, GoOn, Goto, At, AfterResched

\* The wake-up loops hold the lock of the sleeping queue, so the task they found
\* there is still there.
LEMMA WakeQueueInv ==
    ASSUME Calm, NEW c \in Cores,
           \/ WakeLock(c) \/ WakeDone(c)
           \/ \E t \in Tasks : WakeTimer(c, t) \/ WakeLockWaiter(c, t)
    PROVE  QueueInv'
<1> USE CoresFacts DEF Calm, TypeInv, TypeOK, RegistersOK, LocksHeld, WithSleepingQLock,
        WithRunningQLock, QueueInv, Partitioned, InTransit, Descheduling, CurrentOnQueue,
        IdleQueued, SleepRequests, CanSleep, PinnedRun,
        queueVars, taskVars, lockVars, gicVars, wakeVars, calcVars, At, Goto, GoOn
<1>1. CASE WakeLock(c)
  <2>1. Partitioned'
    <3>1. /\ hpc[c] \in {"wt_lock", "wl_lock"} /\ hpc'[c] \in {"wt_scan", "wl_scan"}
          /\ \A d \in Cores \ {c} : hpc'[d] = hpc[d]
      BY <1>1 DEF WakeLock
    <3>2. \A d \in Cores, t \in Tasks : InTransit(d, t)' <=> InTransit(d, t)
      BY <1>1, <3>1 DEF WakeLock
    <3>3. UNCHANGED <<runningQ, sleepingQ>> BY <1>1 DEF WakeLock
    <3>4. Partitioned BY DEF Calm, QueueInv
    <3> HIDE DEF InTransit, Calm, QueueInv
    <3> QED BY <3>2, <3>3, <3>4 DEF Partitioned
  <2>2. CurrentOnQueue' /\ IdleQueued' BY <1>1 DEF WakeLock
  <2>3. SleepRequests' BY <1>1 DEF WakeLock
  <2>4. PinnedRun' BY <1>1, PinAssumption DEF WakeLock
  <2> QED BY <2>1, <2>2, <2>3, <2>4
<1>2. CASE WakeDone(c)
  <2>1. Partitioned' BY <1>2, SMTT(30) DEF WakeDone
  <2>2. CurrentOnQueue' /\ IdleQueued' BY <1>2 DEF WakeDone
  <2>3. SleepRequests'
    <3>1. TIMER1 # SLEEP /\ 0 # SLEEP BY DEF TIMER1, SLEEP
    <3>2. UNCHANGED <<premption, current, runningQ, pending>> BY <1>2 DEF WakeDone
    <3> QED BY <1>2, <3>1, <3>2, WakeDoneFrame
  <2>4. PinnedRun'
    <3>1. \A d \in Cores : Descheduling(d)' => Descheduling(d)
      BY <1>2, WakeDoneFrame, SMTT(30) DEF TIMER1, SLEEP
    <3>2. UNCHANGED <<premption, current, runningQ>> BY <1>2 DEF WakeDone
    <3> QED BY <3>1, <3>2, PinnedRunFrame
  <2> QED BY <2>1, <2>2, <2>3, <2>4
<1>3. ASSUME NEW t \in Tasks, WakeTimer(c, t) PROVE QueueInv'
  <2>1. Partitioned' BY <1>3, PinAssumption DEF WakeTimer, StartCalc
  <2>2. CurrentOnQueue' /\ IdleQueued' BY <1>3, PinAssumption DEF WakeTimer, StartCalc
  <2>3. SleepRequests'
    <3>1. hpc[c] = "wt_scan" /\ hpc'[c] \in {"calc", "mv_lock"}
      BY <1>3 DEF WakeTimer, StartCalc
    <3>2. \A d \in Cores \ {c} : hpc'[d] = hpc[d] BY <1>3 DEF WakeTimer, StartCalc
    <3> QED BY <1>3, <3>1, <3>2 DEF WakeTimer
  <2>4. PinnedRun'
    <3>1. hpc'[c] \in {"calc", "mv_lock"} /\ \A d \in Cores \ {c} : hpc'[d] = hpc[d]
      BY <1>3 DEF WakeTimer, StartCalc
    <3>2. UNCHANGED <<premption, current, runningQ, hirq>> BY <1>3 DEF WakeTimer
    <3>3. PinnedRun BY DEF Calm, QueueInv
    <3>4. \A d \in Cores : Descheduling(d)' => Descheduling(d) BY <3>1, <3>2
    <3> HIDE DEF PinnedRun, Descheduling
    <3> QED BY ONLY <3>2, <3>3, <3>4, PinnedRunFrame
  <2> QED BY <2>1, <2>2, <2>3, <2>4
<1>4. ASSUME NEW t \in Tasks, WakeLockWaiter(c, t) PROVE QueueInv'
  <2>1. Partitioned' BY <1>4, PinAssumption, SMTT(30) DEF WakeLockWaiter, StartCalc
  <2>2. CurrentOnQueue' /\ IdleQueued' BY <1>4, PinAssumption DEF WakeLockWaiter, StartCalc
  <2>3. SleepRequests'
    <3>1. hpc[c] = "wl_scan" /\ hpc'[c] \in {"calc", "mv_lock"}
      BY <1>4 DEF WakeLockWaiter, StartCalc
    <3>2. \A d \in Cores \ {c} : hpc'[d] = hpc[d] BY <1>4 DEF WakeLockWaiter, StartCalc
    <3> QED BY <1>4, <3>1, <3>2 DEF WakeLockWaiter
  <2>4. PinnedRun'
    <3>1. hpc'[c] \in {"calc", "mv_lock"} /\ \A d \in Cores \ {c} : hpc'[d] = hpc[d]
      BY <1>4 DEF WakeLockWaiter, StartCalc
    <3>2. UNCHANGED <<premption, current, runningQ, hirq>> BY <1>4, SMTT(30) DEF WakeLockWaiter
    <3>3. PinnedRun BY DEF Calm, QueueInv
    <3>4. \A d \in Cores : Descheduling(d)' => Descheduling(d) BY <3>1, <3>2
    <3> HIDE DEF PinnedRun, Descheduling
    <3> QED BY ONLY <3>2, <3>3, <3>4, PinnedRunFrame
  <2> QED BY <2>1, <2>2, <2>3, <2>4
<1> QED BY <1>1, <1>2, <1>3, <1>4

LEMMA MoveQueueInv ==
    ASSUME Calm, NEW c \in Cores,
           CalcNextCore(c) \/ MoveLock(c) \/ MoveRemove(c) \/ GrowList(c) \/ MoveAdd(c)
    PROVE  QueueInv'
<1> USE CoresFacts DEF Calm, TypeInv, TypeOK, RegistersOK, LocksHeld, WithSleepingQLock,
        WithRunningQLock, QueueInv, Partitioned, InTransit, Descheduling, CurrentOnQueue,
        IdleQueued, SleepRequests, CanSleep, PinnedRun,
        queueVars, taskVars, lockVars, gicVars, wakeVars, calcVars, At, Goto, GoOn
<1>1. CASE CalcNextCore(c)
  <2>1. Partitioned' BY <1>1 DEF CalcNextCore
  <2>2. CurrentOnQueue' /\ IdleQueued' BY <1>1 DEF CalcNextCore
  <2>3. SleepRequests' BY <1>1 DEF CalcNextCore
  <2>4. PinnedRun' BY <1>1 DEF CalcNextCore
  <2> QED BY <2>1, <2>2, <2>3, <2>4
<1>2. CASE MoveLock(c) BY <1>2 DEF MoveLock
<1>3. CASE MoveRemove(c)
  <2>1. Partitioned' BY <1>3 DEF MoveRemove, removeElement, Left, MoveInv, MovingAsleep
  <2>2. CurrentOnQueue' /\ IdleQueued' BY <1>3 DEF MoveRemove, removeElement, Left
  <2>3. SleepRequests' BY <1>3 DEF MoveRemove, removeElement, Left
  <2>4. PinnedRun' BY <1>3 DEF MoveRemove, removeElement, Left
  <2> QED BY <2>1, <2>2, <2>3, <2>4
<1>4. CASE GrowList(c)
  <2>1. Partitioned' BY <1>4 DEF GrowList
  <2>2. CurrentOnQueue' /\ IdleQueued' BY <1>4 DEF GrowList
  <2>3. SleepRequests' BY <1>4 DEF GrowList
  <2>4. PinnedRun' BY <1>4 DEF GrowList
  <2> QED BY <2>1, <2>2, <2>3, <2>4
<1>5. CASE MoveAdd(c)
  <2>1. Partitioned'
    <3>1. hpc[c] = "mv_add" /\ hpc'[c] \in {"wt_scan", "wl_scan"} /\ hout[c] \in Cores
      BY <1>5 DEF MoveAdd
    <3>2. \A d \in Cores, u \in Tasks : InTransit(d, u)' <=> d # c /\ InTransit(d, u)
      BY <1>5, <3>1 DEF MoveAdd
    <3>3. InTransit(c, ht[c]) /\ ht[c] \in Tasks /\ \A u \in Tasks : InTransit(c, u) => u = ht[c]
      BY <3>1
    <3>4. \A d \in Cores, u \in Tasks :
             u \in runningQ'[d] <=> u \in runningQ[d] \/ (d = hout[c] /\ u = ht[c])
      BY <1>5, <3>1 DEF MoveAdd
    <3>5. sleepingQ' = sleepingQ BY <1>5 DEF MoveAdd
    <3>6. Partitioned OBVIOUS
    <3> HIDE DEF InTransit
    <3> QED BY <3>1, <3>2, <3>3, <3>4, <3>5, <3>6 DEF Partitioned
  <2>2. CurrentOnQueue' /\ IdleQueued' BY <1>5, SMTT(30) DEF MoveAdd
  <2>3. SleepRequests' BY <1>5, SMTT(30) DEF MoveAdd
  <2>4. PinnedRun' BY <1>5, SMTT(30) DEF MoveAdd
  <2> QED BY <2>1, <2>2, <2>3, <2>4
<1> QED BY <1>1, <1>2, <1>3, <1>4, <1>5

\* The list the SLEEP handler searches holds current, so that is what it removes.
LEMMA SleepRemoves ==
    ASSUME Calm, NEW c \in Cores, SleepRemove(c)
    PROVE  runningQ' = [runningQ EXCEPT ![c] = @ \ {current[c]}]
<1>1. current[c] \in runningQ[c]
  BY DEF Calm, QueueInv, SleepRequests, CanSleep, SleepRemove, At
<1>2. current[c] \in List(c, prio[current[c]]) BY <1>1 DEF List
<1>3. removeElement(List(c, prio[current[c]]), current[c])
        = {List(c, prio[current[c]]) \ {current[c]}}
  BY <1>2 DEF removeElement
<1>4. (runningQ[c] \ List(c, prio[current[c]])) \cup (List(c, prio[current[c]]) \ {current[c]})
        = runningQ[c] \ {current[c]}
  BY <1>2 DEF List
<1> QED BY <1>3, <1>4 DEF SleepRemove, Left, Calm

LEMMA SleepQueueInv ==
    ASSUME Calm, NEW c \in Cores, SleepRemove(c) \/ SleepLock(c) \/ SleepAdd(c)
    PROVE  QueueInv'
<1> USE CoresFacts DEF Calm, TypeInv, TypeOK, RegistersOK, LocksHeld, WithSleepingQLock,
        WithRunningQLock, QueueInv, Partitioned, InTransit, Descheduling, CurrentOnQueue,
        IdleQueued, SleepRequests, CanSleep, PinnedRun,
        queueVars, taskVars, lockVars, gicVars, wakeVars, calcVars, At, Goto, GoOn
<1>1. CASE SleepRemove(c)
  <2>0. runningQ' = [runningQ EXCEPT ![c] = @ \ {current[c]}] BY <1>1, SleepRemoves
  <2>1. Partitioned'
    <3>1. hpc[c] = "sl_remove" /\ hpc'[c] = "sl_lock" /\ current[c] \in Tasks
      BY <1>1 DEF SleepRemove
    <3>2. \A d \in Cores, u \in Tasks :
             InTransit(d, u)' <=> InTransit(d, u) \/ (d = c /\ u = current[c])
      BY <1>1, <3>1 DEF SleepRemove
    <3>3. \A u \in Tasks : ~InTransit(c, u) BY <3>1
    <3>4. \A d \in Cores, u \in Tasks :
             u \in runningQ'[d] <=> u \in runningQ[d] /\ ~(d = c /\ u = current[c])
      BY <2>0
    <3>5. sleepingQ' = sleepingQ BY <1>1 DEF SleepRemove
    <3>6. Partitioned /\ current[c] \in runningQ[c] BY <3>1
    <3> HIDE DEF InTransit
    <3> QED BY <3>1, <3>2, <3>3, <3>4, <3>5, <3>6 DEF Partitioned
  <2>2. CurrentOnQueue' /\ IdleQueued'
    <3>1. current[c] \notin IdleTasks BY <1>1 DEF SleepRemove
    <3> QED BY <1>1, <2>0, <3>1, IdleAssumption DEF SleepRemove, IdleTasks
  <2>3. SleepRequests' BY <1>1, <2>0 DEF SleepRemove
  <2>4. PinnedRun'
    <3>1. premption[current[c]] = 0 BY <1>1 DEF SleepRemove
    <3> QED BY <1>1, <2>0, <3>1, PinAssumption DEF SleepRemove
  <2> QED BY <2>1, <2>2, <2>3, <2>4
<1>2. CASE SleepLock(c)
  <2>1. Partitioned' BY <1>2 DEF SleepLock
  <2>2. CurrentOnQueue' /\ IdleQueued' BY <1>2 DEF SleepLock
  <2>3. SleepRequests' BY <1>2 DEF SleepLock
  <2>4. PinnedRun' BY <1>2 DEF SleepLock
  <2> QED BY <2>1, <2>2, <2>3, <2>4
<1>3. CASE SleepAdd(c) BY <1>3 DEF SleepAdd
<1> QED BY <1>1, <1>2, <1>3

\* reschedule picks a preemptible task of the core's own queue, and never the idle
\* task while a task that wants to sleep is still queued.
LEMMA ReschedulePicks ==
    ASSUME Calm, NEW c \in Cores, NEW t \in Tasks, Reschedule(c, t)
    PROVE  /\ t \in runningQ[c]
           /\ SLEEP \in pending[c] => t \notin IdleTasks
           /\ premption[t] = 0
<1>1. t \in Candidates(c)
  BY DEF Calm, QueueInv, IdleQueued, Reschedule
<1>2. t \in runningQ[c] BY <1>1 DEF Candidates
<1>3. ASSUME SLEEP \in pending[c] PROVE t \notin IdleTasks
  <2>1. current[c] \in runningQ[c] /\ current[c] \in Tasks \ IdleTasks
    BY <1>3 DEF Calm, TypeInv, RegistersOK, QueueInv, SleepRequests, CanSleep
  <2>2. prio[t] <= prio[current[c]] BY <1>1, <2>1 DEF Candidates
  <2>3. t \in IdleTasks => prio[current[c]] < prio[t] BY <2>1, PrioAssumption
  <2> QED BY <2>1, <2>2, <2>3, PrioAssumption
<1>4. premption[t] = 0
  <2>1. premption[t] \in Nat /\ premption[current[c]] \in Nat
    BY PremptionAssumption DEF Calm, TypeInv, TypeOK
  <2>2. premption[current[c]] = 0 BY <2>1 DEF Reschedule, isPreamptable
  <2>3. CASE premption[t] > 0
    <3>1. pinned[t] # NoCore /\ current[pinned[t]] = t /\ t \in runningQ[pinned[t]]
      BY <2>3 DEF Calm, QueueInv, PinnedRun
    <3>2. pinned[t] = c BY <1>2, <3>1, SMTT(30) DEF Calm, MoveInv, PinRespected
    <3> QED BY <2>2, <3>1, <3>2
  <2> QED BY <2>1, <2>3
<1> QED BY <1>2, <1>3, <1>4

LEMMA RescheduleQueueInv ==
    ASSUME Calm, NEW c \in Cores,
           RescheduleSkip(c) \/ TickSend(c) \/ \E t \in Tasks : Reschedule(c, t)
    PROVE  QueueInv'
<1> USE CoresFacts DEF Calm, TypeInv, TypeOK, RegistersOK, LocksHeld, WithSleepingQLock,
        WithRunningQLock, QueueInv, Partitioned, InTransit, Descheduling, CurrentOnQueue,
        IdleQueued, SleepRequests, CanSleep, PinnedRun,
        queueVars, taskVars, lockVars, gicVars, wakeVars, calcVars, At, Goto, GoOn, AfterResched, isPreamptable
<1>1. CASE RescheduleSkip(c) BY <1>1 DEF RescheduleSkip
<1>2. CASE TickSend(c) BY <1>2 DEF TickSend, RESCHEDULE, SLEEP
<1>3. ASSUME NEW t \in Tasks, Reschedule(c, t) PROVE QueueInv'
  <2>0. /\ t \in runningQ[c]
        /\ SLEEP \in pending[c] => t \notin IdleTasks
        /\ premption[t] = 0
    BY <1>3, ReschedulePicks
  <2>1. Partitioned' BY <1>3, <2>0 DEF Reschedule
  <2>2. CurrentOnQueue' /\ IdleQueued' BY <1>3, <2>0 DEF Reschedule
  <2>3. SleepRequests'
    <3>1. TIMER1 # SLEEP /\ 0 # SLEEP BY DEF TIMER1, SLEEP
    <3>2. UNCHANGED <<premption, runningQ, pending>> BY <1>3 DEF Reschedule
    <3> QED BY <1>3, <2>0, <3>1, <3>2, RescheduleFrame
  <2>4. PinnedRun'
    <3>1. pinned[t] # NoCore => pinned[t] = c BY <2>0 DEF MoveInv, PinRespected
    <3>2. premption[current[c]] <= 0 BY <1>3 DEF Reschedule
    <3>3. UNCHANGED <<premption, runningQ>> BY <1>3 DEF Reschedule
    <3>4. /\ \A d \in Cores \ {c} : hpc'[d] = hpc[d] /\ hirq'[d] = hirq[d] /\ current'[d] = current[d]
          /\ current'[c] = t
      BY <1>3, RescheduleFrame
    <3>5. ASSUME NEW u \in Tasks, premption'[u] > 0
          PROVE  /\ pinned[u] # NoCore /\ current'[pinned[u]] = u
                 /\ u \in runningQ'[pinned[u]] /\ ~Descheduling(pinned[u])'
      <4>1. /\ premption[u] > 0 /\ pinned[u] # NoCore /\ current[pinned[u]] = u
            /\ u \in runningQ[pinned[u]] /\ ~Descheduling(pinned[u])
        BY <3>3, <3>5
      <4>2. pinned[u] \in Cores /\ pinned[u] # c BY <3>2, <4>1, PinAssumption
      <4>3. UNCHANGED <<current[pinned[u]], hpc[pinned[u]], hirq[pinned[u]]>> BY <3>4, <4>2
      <4>4. UNCHANGED runningQ[pinned[u]] BY <3>3
      <4> QED BY ONLY <4>1, <4>3, <4>4 DEF Descheduling
    <3>6. /\ premption'[Boot] = 0
          /\ \A d \in Cores : current'[d] \in Tasks /\ pinned[current'[d]] # NoCore
                                => pinned[current'[d]] = d
      BY <3>1, <3>3, <3>4
    <3> HIDE DEF Descheduling
    <3> QED BY <3>5, <3>6
  <2> QED BY <2>1, <2>2, <2>3, <2>4
<1> QED BY <1>1, <1>2, <1>3

LEMMA HardwareQueueInv ==
    ASSUME Calm,
           \/ TimerMatch
           \/ \E t \in Tasks : Expire(t)
           \/ \E c \in Cores : Interrupt(c)
    PROVE  QueueInv'
<1> USE CoresFacts DEF Calm, TypeInv, TypeOK, RegistersOK, LocksHeld, WithSleepingQLock,
        WithRunningQLock, QueueInv, Partitioned, InTransit, Descheduling, CurrentOnQueue,
        IdleQueued, SleepRequests, CanSleep, PinnedRun,
        queueVars, taskVars, lockVars, gicVars, wakeVars, calcVars, At, Goto, GoOn, send_sgi
<1>1. CASE TimerMatch
  <2>1. UNCHANGED <<runningQ, sleepingQ, current, premption, hpc, hirq, ht>>
    BY <1>1 DEF TimerMatch
  <2>2. \A c \in Cores : SLEEP \in pending'[c] <=> SLEEP \in pending[c]
    BY <1>1 DEF TimerMatch, TIMER1, SLEEP
  <2>3. Partitioned'
    <3>1. Partitioned OBVIOUS
    <3> QED BY ONLY <2>1, <3>1
  <2>4. CurrentOnQueue' /\ IdleQueued' BY <2>1
  <2>5. SleepRequests' BY <2>1, <2>2
  <2>6. PinnedRun' BY <2>1, PinnedRunFrame
  <2> QED BY <2>3, <2>4, <2>5, <2>6
<1>2. ASSUME NEW t \in Tasks, Expire(t) PROVE QueueInv' BY <1>2 DEF Expire
<1>3. ASSUME NEW c \in Cores, NEW irq \in Irqs, TakeIRQ(c, irq) PROVE QueueInv'
  <2>1. /\ FirstPc(irq) \in {"wt_lock", "resched", "sl_remove"}
        /\ FirstPc(irq) = "sl_remove" <=> irq = SLEEP
    BY DEF FirstPc, Irqs, RESCHEDULE, SLEEP, WAKEUP, TIMER1
  <2> QED BY <1>3, <2>1, SMTT(30) DEF TakeIRQ
<1> QED BY <1>1, <1>2, <1>3 DEF Interrupt

LEMMA TaskQueueInv ==
    ASSUME Calm, ~strayed', NEW c \in Cores, TaskStep(c)
    PROVE  QueueInv'
<1> USE CoresFacts DEF Calm, TypeInv, TypeOK, RegistersOK, LocksHeld, WithSleepingQLock,
        WithRunningQLock, QueueInv, Partitioned, InTransit, Descheduling, CurrentOnQueue,
        IdleQueued, SleepRequests, CanSleep, PinnedRun,
        queueVars, taskVars, lockVars, gicVars, wakeVars, calcVars, At, Goto, GoOn, Running, isPreamptable, send_sgi
<1>1. CASE \/ \E t \in Tasks : SetTimer(c, t) \/ SetSleepingOnLock(c, t)
           \/ SetOwner(c)
           \/ disableIRQ(c) \/ enableIRQ(c) \/ HeapLock(c) \/ HeapRelease(c)
  <2>1. UNCHANGED <<queueVars, current, premption, pending, hpc, hirq, wakeVars>>
    BY <1>1 DEF SetTimer, SetSleepingOnLock, SetOwner, disableIRQ, enableIRQ, HeapLock, HeapRelease
  <2>2. QueueInv BY DEF Calm
  <2> HIDE DEF QueueInv, queueVars, wakeVars
  <2> QED BY ONLY <2>1, <2>2, QueueInvFrame
<1>2. CASE Sleep(c, c)
  <2>0. premption[current[c]] = 0 /\ current[c] \in runningQ[c] /\ current[c] \notin IdleTasks
    BY <1>2, BootAssumption, PremptionAssumption, SMTT(30) DEF Sleep
  <2>1. Partitioned' BY <1>2, <2>0 DEF Sleep
  <2>2. CurrentOnQueue' /\ IdleQueued' BY <1>2, <2>0 DEF Sleep
  <2>3. SleepRequests'
    <3>1. hpc[c] = "task" /\ hirq[c] # SLEEP BY <1>2 DEF Sleep, SLEEP
    <3> QED BY <1>2, <2>0, <3>1 DEF Sleep
  <2>4. PinnedRun' BY <1>2, <2>0 DEF Sleep
  <2> QED BY <2>1, <2>2, <2>3, <2>4
<1>3. ASSUME NEW d \in Cores, SendWakeup(c, d) PROVE QueueInv'
  BY <1>3 DEF SendWakeup, WAKEUP, SLEEP
<1>4. CASE preemptDisable(c)
  <2>1. Partitioned' BY <1>4 DEF preemptDisable
  <2>2. CurrentOnQueue' /\ IdleQueued' BY <1>4 DEF preemptDisable
  <2>3. SleepRequests' BY <1>4 DEF preemptDisable
  <2>4. PinnedRun'
    <3>1. /\ current[c] \in Tasks /\ current[c] # Boot /\ current[c] \in runningQ[c]
          /\ pinned[current[c]] = c /\ ~Descheduling(c)
      BY <1>4, BootAssumption DEF preemptDisable
    <3>2. \A t \in Tasks \cup {Boot} : t # current[c] => premption'[t] = premption[t]
      BY <1>4 DEF preemptDisable
    <3> QED BY <1>4, <3>1, <3>2 DEF preemptDisable
  <2> QED BY <2>1, <2>2, <2>3, <2>4
<1>5. CASE preemptEnable(c) BY <1>5 DEF preemptEnable
<1>6. \A d \in Cores : Sleep(c, d) => d = c BY DEF Sleep
<1> QED BY <1>1, <1>2, <1>3, <1>4, <1>5, <1>6 DEF TaskStep

LEMMA NextQueueInv == Calm /\ ~strayed' /\ [Next]_vars => QueueInv'
<1> SUFFICES ASSUME Calm, ~strayed', [Next]_vars PROVE QueueInv'
  OBVIOUS
<1>1. CASE TimerMatch \/ (\E t \in Tasks : Expire(t)) \/ \E c \in Cores : Interrupt(c)
  BY <1>1, HardwareQueueInv
<1>2. ASSUME NEW c \in Cores, HandlerStep(c) PROVE QueueInv'
  BY <1>2, WakeQueueInv, MoveQueueInv, SleepQueueInv, RescheduleQueueInv DEF HandlerStep
<1>3. ASSUME NEW c \in Cores, TaskStep(c) PROVE QueueInv'
  BY <1>3, TaskQueueInv
<1>4. CASE UNCHANGED vars
  BY <1>4, QueueInvFrame DEF vars, queueVars, taskVars, gicVars, Calm
<1> QED BY <1>1, <1>2, <1>3, <1>4 DEF Next

\* A stray SLEEP is not forgotten.
LEMMA StraysStay == strayed /\ [Next]_vars => strayed'
<1> SUFFICES ASSUME strayed, [Next]_vars PROVE strayed'
  OBVIOUS
<1> USE DEF vars, gicVars
<1>1. CASE TimerMatch \/ (\E t \in Tasks : Expire(t)) \/ \E c \in Cores : Interrupt(c)
  BY <1>1 DEF TimerMatch, Expire, Interrupt, TakeIRQ
<1>2. ASSUME NEW c \in Cores, HandlerStep(c) PROVE strayed'
  BY <1>2 DEF HandlerStep, WakeLock, WakeDone, CalcNextCore, WakeTimer, WakeLockWaiter,
              Reschedule, MoveLock, MoveRemove, GrowList, MoveAdd, SleepRemove, SleepLock,
              SleepAdd, RescheduleSkip, TickSend
<1>3. ASSUME NEW c \in Cores, TaskStep(c) PROVE strayed'
  BY <1>3 DEF TaskStep, SetTimer, SetSleepingOnLock, Sleep, SendWakeup, SetOwner,
              preemptDisable, preemptEnable, disableIRQ, enableIRQ, HeapLock, HeapRelease
<1> QED BY <1>1, <1>2, <1>3 DEF Next

\* It takes a second core for a SLEEP to go astray.
LEMMA StrayNeedsCores ==
    ASSUME NUM_CORES = 1, ~strayed, [Next]_vars
    PROVE  ~strayed'
<1> USE DEF vars, gicVars
<1>1. CASE TimerMatch \/ (\E t \in Tasks : Expire(t)) \/ \E c \in Cores : Interrupt(c)
  BY <1>1 DEF TimerMatch, Expire, Interrupt, TakeIRQ
<1>2. ASSUME NEW c \in Cores, HandlerStep(c) PROVE ~strayed'
  BY <1>2 DEF HandlerStep, WakeLock, WakeDone, CalcNextCore, WakeTimer, WakeLockWaiter,
              Reschedule, MoveLock, MoveRemove, GrowList, MoveAdd, SleepRemove, SleepLock,
              SleepAdd, RescheduleSkip, TickSend
<1>3. ASSUME NEW c \in Cores, NEW d \in Cores, Sleep(c, d) PROVE ~strayed'
  <2>1. d = c BY DEF Cores
  <2> QED BY <1>3, <2>1 DEF Sleep
<1>4. ASSUME NEW c \in Cores, TaskStep(c), \A d \in Cores : ~Sleep(c, d) PROVE ~strayed'
  BY <1>4 DEF TaskStep, SetTimer, SetSleepingOnLock, SendWakeup, SetOwner,
              preemptDisable, preemptEnable, disableIRQ, enableIRQ, HeapLock, HeapRelease
<1> QED BY <1>1, <1>2, <1>3, <1>4 DEF Next

LEMMA Inductive == Spec => []IInv
<1>1. Init => IInv BY InitTypeInv, InitLocksHeld, InitMoveInv, InitQueueInv, Layers
<1>2. IInv /\ [Next]_vars => IInv'
  <2> SUFFICES ASSUME IInv, [Next]_vars PROVE IInv'
    OBVIOUS
  <2>1. TypeInv /\ LocksHeld /\ MoveInv /\ (~strayed => QueueInv) BY Layers
  <2>2. TypeInv' /\ LocksHeld' /\ MoveInv' BY <2>1, NextTypeInv, NextLocksHeld, NextMoveInv
  <2>3. ~strayed' => QueueInv' BY <2>1, StraysStay, NextQueueInv DEF Calm
  <2>4. IInv' <=> TypeInv' /\ LocksHeld' /\ MoveInv' /\ (~strayed' => QueueInv')
    BY DEF IInv, Strengthening, TypeInv, MoveInv, QueueInv, OneQueue, CurrentQueued
  <2> QED BY <2>2, <2>3, <2>4
<1> QED BY <1>1, <1>2, PTL DEF Spec

\* Whatever requests arrive where, the handlers' locals stay sound, every lock is held by
\* the core whose handler says so and by no other, and the task a wake-up loop moves stays
\* asleep until the loop removes it.  Until a SLEEP goes astray, the idle tasks also stay
\* queued, a SLEEP only ever hits a task that can sleep, and pinned tasks run at home.
THEOREM Invariance == Spec => []Strengthening
<1>1. IInv => Strengthening BY DEF IInv
<1> QED BY <1>1, Inductive, PTL

\* On any number of cores, with any number of tasks, no interleaving of the tick, SLEEP
\* and WAKEUP handlers queues a task twice, on two cores, or loses it, as long as every
\* SLEEP is sent to the core its sender runs on.
THEOREM QueuesPartition == Spec => []OneQueue
<1>1. IInv => OneQueue BY DEF IInv
<1> QED BY <1>1, Inductive, PTL

\* Until a SLEEP goes to another core than its sender's, what a core executes is on its own
\* running queue, but in the SLEEP handler.
THEOREM CurrentIsQueued == Spec => []CurrentQueued
<1>1. IInv => CurrentQueued BY DEF IInv
<1> QED BY <1>1, Inductive, PTL

\* Until a SLEEP goes to another core than its sender's, the idle task stays queued and
\* reschedule finds a task, although SLEEP hits whatever task is current when it is
\* handled: it takes a stale core id to leave next uninitialised.
THEOREM RescheduleAlwaysFinds == Spec => []IdleStays
<1>1. IInv => IdleStays BY Layers DEF QueueInv, IdleQueued, IdleStays, RescheduleFinds
<1> QED BY <1>1, Inductive, PTL

\* The panic of the wake-up loops is unreachable, stray requests to sleep included.
THEOREM NeverPanics == Spec => []NoPanic
<1>1. IInv => NoPanic BY DEF IInv
<1> QED BY <1>1, Inductive, PTL

\* Between preemptDisable and preemptEnable a task keeps its core and its place on
\* that core's queue, until a SLEEP goes to another core than its sender's.
THEOREM NonPreemptibleKeepsCore == Spec => []NonPreemptibleRuns
<1>1. IInv => NonPreemptibleRuns
  BY Layers, PinAssumption DEF QueueInv, PinnedRun, NonPreemptibleRuns, KeepsCore
<1> QED BY <1>1, Inductive, PTL

\* calcNextCore never moves a pinned task away from its core, stray requests to sleep
\* included.
THEOREM PinsRespected == Spec => []PinRespected
<1>1. IInv => PinRespected BY DEF IInv
<1> QED BY <1>1, Inductive, PTL

=============================================================================
