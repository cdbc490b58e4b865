-------------------------------- MODULE Sched --------------------------------
(***************************************************************************)
(* The multi-core scheduler of the kernel: the interrupt handlers of       *)
(* IRQ.cpp that move tasks between the per-core running queues and the     *)
(* global sleeping queue, the spin locks that guard the queues, the        *)
(* software interrupts that carry the requests, and the calls by which a   *)
(* task asks to sleep, to be woken, not to be preempted, or for memory.    *)
(*                                                                         *)
(* A core runs either its current task or one interrupt handler.  Handlers *)
(* run with IRQs masked and are cut into steps at every spin lock they     *)
(* take: a section with no other lock inside it is one step, enabled while *)
(* the lock is free; a section that takes another lock keeps its lock in   *)
(* the state.  Tasks are the most general client of this interface: a      *)
(* running task may make any call, in any order the programs in Task.cpp   *)
(* could reach (the guards say which orders they exclude).                 *)
(*                                                                         *)
(* The calls read the core id first and use it later, with IRQs on: the    *)
(* task may have been moved in between, so that its interrupt goes to, and *)
(* "current" finds the task of, a core it ran on before.                   *)
(***************************************************************************)
EXTENDS Integers, FiniteSets

CONSTANTS
    NUM_CORES,      \* number of cores (4 on the board)
    Tasks,          \* tasks created by createKernelTask
    Idle,           \* Idle[c]: the idle task created for core c
    Boot,           \* the bare "new Task()" every core boots on
    NoTask,         \* the null task / PID 0
    prio,           \* prio[t]: Task::p, 0 is the most urgent
    pinned,         \* pinned[t]: the core t is pinned to, or NoCore
    home,           \* home[t]: the core whose boot code queued t
    Hit,            \* tasks that a write through a stale "current" may hit (all of them)
    Astray,         \* cores that an interrupt sent with a stale core id may go to, and
                    \* that go on after a stray SLEEP (all of them)
    MaxPremption    \* bound on the nesting of preemptDisable

Cores == 0 .. NUM_CORES - 1
NoCore == -1
IdleTasks == {Idle[c] : c \in Cores}

ASSUME CoresAssumption == NUM_CORES \in Nat \ {0}
ASSUME TasksAssumption == IsFiniteSet(Tasks)
ASSUME BootAssumption == Boot \notin Tasks /\ NoTask \notin Tasks
ASSUME IdleAssumption ==
    /\ Idle \in [Cores -> Tasks]
    /\ \A c, d \in Cores : Idle[c] = Idle[d] => c = d
ASSUME PrioAssumption ==
    /\ prio \in [Tasks -> Nat]
    /\ \A t \in Tasks \ IdleTasks, i \in IdleTasks : prio[t] < prio[i]
ASSUME HomeAssumption ==
    /\ home \in [Tasks -> Cores]
    /\ \A c \in Cores : home[Idle[c]] = c
ASSUME PinAssumption ==
    /\ pinned \in [Tasks -> Cores \cup {NoCore}]
    /\ \A t \in Tasks : pinned[t] # NoCore => home[t] = pinned[t]
ASSUME StaleAssumption == Hit \subseteq Tasks /\ Astray \subseteq Cores
ASSUME PremptionAssumption == MaxPremption \in Nat

\* Interrupt ids.  All have the same priority, so the lowest id is served first.
RESCHEDULE == 2
SLEEP == 3
WAKEUP == 4
TIMER1 == 97
Irqs == {RESCHEDULE, SLEEP, WAKEUP, TIMER1}

\* The value calcNextCore starts its minimum from.
NoCount == 268435455

VARIABLES
    runningQ,        \* [Cores -> SUBSET Tasks], the 21 lists of each core
    sleepingQ,       \* the global list of sleeping tasks
    current,         \* Core::currentTask
    premption,       \* Task::premption
    timer,           \* Task::timer: "off" (0), "armed" or "expired" (<= counter)
    sleepingOnLock,  \* Task::sleepingOnLock # nullptr (fb_lock is the only mutex)
    ownerPid,        \* fb_lock->ownerPid # 0
    sleepingQLock,   \* core that holds Core::sleepingQLock, or NoCore
    runningQLock,    \* core that holds Core::runningQLock[i], or NoCore
    heapLock,        \* core that holds KernelHeapAllocator::l, or NoCore
    pending,         \* interrupts pending at each core's GIC interface
    irqOff,          \* the task running on the core has IRQs disabled
    tick,            \* compare1 is programmed and has not matched yet
    strayed,         \* history: a SLEEP was sent to another core than its sender's
    hpc,             \* where each core is in its handler ("task": not in one)
    hirq,            \* the interrupt the handler acknowledged
    hscan,           \* which wake-up loop a handler is in
    ht,              \* the task a wake-up loop is moving
    hi,              \* calcNextCore: i
    hcount,          \* calcNextCore: count
    hout             \* calcNextCore: outCore, then nextCore

queueVars == <<runningQ, sleepingQ>>
taskVars == <<premption, timer, sleepingOnLock, ownerPid>>
lockVars == <<sleepingQLock, runningQLock, heapLock>>
gicVars == <<pending, irqOff, tick, strayed>>
calcVars == <<ht, hi, hcount, hout>>
wakeVars == <<hscan, calcVars>>
vars == <<queueVars, current, taskVars, lockVars, gicVars, hpc, hirq, wakeVars>>

HandlerPcs == {"task", "wt_lock", "wt_scan", "wl_lock", "wl_scan", "calc",
               "mv_lock", "mv_remove", "mv_heap", "mv_add",
               "sl_remove", "sl_lock", "sl_heap", "sl_add",
               "resched", "tick_send", "panic"}

TypeOK ==
    /\ runningQ \in [Cores -> SUBSET Tasks]
    /\ sleepingQ \in SUBSET Tasks
    /\ current \in [Cores -> Tasks \cup {Boot}]
    /\ premption \in [Tasks \cup {Boot} -> 0 .. MaxPremption]
    /\ timer \in [Tasks -> {"off", "armed", "expired"}]
    /\ sleepingOnLock \in [Tasks -> BOOLEAN]
    /\ ownerPid \in BOOLEAN
    /\ sleepingQLock \in Cores \cup {NoCore}
    /\ runningQLock \in [Cores -> Cores \cup {NoCore}]
    /\ heapLock \in Cores \cup {NoCore}
    /\ pending \in [Cores -> SUBSET Irqs]
    /\ irqOff \in [Cores -> BOOLEAN]
    /\ tick \in BOOLEAN
    /\ strayed \in BOOLEAN
    /\ hpc \in [Cores -> HandlerPcs]
    /\ hirq \in [Cores -> Irqs \cup {0}]
    /\ hscan \in [Cores -> {"wt_scan", "wl_scan"}]
    /\ ht \in [Cores -> Tasks \cup {NoTask}]
    /\ hi \in [Cores -> 0 .. NUM_CORES]
    /\ hcount \in [Cores -> Nat]
    /\ hout \in [Cores -> Cores]

\* The queue a core starts with: the idle, kernel and screen tasks it has created.
BootQueue(c) == {t \in Tasks : home[t] = c}

\* kernel_main and initSecondaryCore have run on every core: current is the boot
\* task, and core 0 has programmed the first tick.
Init ==
    /\ runningQ = [c \in Cores |-> BootQueue(c)]
    /\ sleepingQ = {}
    /\ current = [c \in Cores |-> Boot]
    /\ premption = [t \in Tasks \cup {Boot} |-> 0]
    /\ timer = [t \in Tasks |-> "off"]
    /\ sleepingOnLock = [t \in Tasks |-> FALSE]
    /\ ownerPid = FALSE
    /\ sleepingQLock = NoCore
    /\ runningQLock = [c \in Cores |-> NoCore]
    /\ heapLock = NoCore
    /\ pending = [c \in Cores |-> {}]
    /\ irqOff = [c \in Cores |-> FALSE]
    /\ tick = TRUE
    /\ strayed = FALSE
    /\ hpc = [c \in Cores |-> "task"]
    /\ hirq = [c \in Cores |-> 0]
    /\ hscan = [c \in Cores |-> "wt_scan"]
    /\ ht = [c \in Cores |-> NoTask]
    /\ hi = [c \in Cores |-> 0]
    /\ hcount = [c \in Cores |-> 0]
    /\ hout = [c \in Cores |-> 0]

-----------------------------------------------------------------------------
(* Helpers *)

Goto(c, l) == hpc' = [hpc EXCEPT ![c] = l]
At(c, l) == hpc[c] = l

\* The handler goes on at l, or writes GICC_EOIR and returns to the task.
GoOn(c, l) ==
    /\ Goto(c, l)
    /\ hirq' = [hirq EXCEPT ![c] = IF l = "task" THEN 0 ELSE @]

\* What ArrayList::removeElement can leave of a sorted list: without the
\* element its binary search may settle on another one and remove that.
removeElement(q, t) == IF t \in q THEN {q \ {t}} ELSE {q} \cup {q \ {u} : u \in q}

\* What is left of the list q when removeElement leaves l: after a stray request to
\* sleep a task may be listed more than once, and one removal takes one of them.
Left(q, l) == IF strayed THEN {l, q} ELSE {l}

\* Send the interrupt irq to core c (GICD_SGIR; a second one coalesces).
send_sgi(irq, c) == pending' = [pending EXCEPT ![c] = @ \cup {irq}]

\* The task list of priority i on core c.
List(c, i) == {t \in runningQ[c] : prio[t] = i}

\* Mutant: off by one.
BugIsPreamptable(c) == premption[current[c]] <= 1

isPreamptable(c) == premption[current[c]] <= 0

\* The tasks reschedule may pick: any element of the first non-empty list.
Candidates(c) == {t \in runningQ[c] : \A u \in runningQ[c] : prio[t] <= prio[u]}

-----------------------------------------------------------------------------
(* Hardware *)

\* Compare register 1 matches the counter: the timer interrupt, routed to core 0.
TimerMatch ==
    /\ tick
    /\ tick' = FALSE
    /\ send_sgi(TIMER1, 0)
    /\ UNCHANGED <<queueVars, current, taskVars, lockVars, irqOff, strayed, hpc, hirq, wakeVars>>

\* The counter passes the wake-up time of t.
Expire(t) ==
    /\ timer[t] = "armed"
    /\ timer' = [timer EXCEPT ![t] = "expired"]
    /\ UNCHANGED <<queueVars, current, premption, sleepingOnLock, ownerPid,
                   lockVars, gicVars, hpc, hirq, wakeVars>>

FirstPc(irq) == CASE irq = TIMER1 -> "wt_lock"
                  [] irq = WAKEUP -> "wt_lock"
                  [] irq = RESCHEDULE -> "resched"
                  [] irq = SLEEP -> "sl_remove"

\* Mutant: pending interrupts are acknowledged in any order.
BugTakeIRQ(c, irq) ==
    /\ At(c, "task")
    /\ ~irqOff[c]
    /\ irq \in pending[c]
    /\ pending' = [pending EXCEPT ![c] = @ \ {irq}]
    /\ hirq' = [hirq EXCEPT ![c] = irq]
    /\ Goto(c, FirstPc(irq))
    /\ UNCHANGED <<queueVars, current, taskVars, lockVars, irqOff, tick, strayed, wakeVars>>

\* irq_handler_spx reads GICC_IAR: the lowest pending id is acknowledged.
TakeIRQ(c, irq) ==
    /\ At(c, "task")
    /\ ~irqOff[c]
    /\ irq \in pending[c]
    /\ \A j \in pending[c] : irq <= j
    /\ pending' = [pending EXCEPT ![c] = @ \ {irq}]
    /\ hirq' = [hirq EXCEPT ![c] = irq]
    /\ Goto(c, FirstPc(irq))
    /\ UNCHANGED <<queueVars, current, taskVars, lockVars, irqOff, tick, strayed, wakeVars>>

-----------------------------------------------------------------------------
(* wakeUpTimers and wakeUpLocks *)

\* Mutant: the wake-up loops do not take the lock of the sleeping queue.
BugWakeLock(c) ==
    /\ At(c, "wt_lock") \/ At(c, "wl_lock")
    /\ hscan' = [hscan EXCEPT ![c] = IF At(c, "wt_lock") THEN "wt_scan" ELSE "wl_scan"]
    /\ Goto(c, hscan'[c])
    /\ UNCHANGED <<queueVars, current, taskVars, lockVars, gicVars, hirq, calcVars>>

\* sleepingQLock->spin() at the head of both loops.
WakeLock(c) ==
    /\ At(c, "wt_lock") \/ At(c, "wl_lock")
    /\ sleepingQLock = NoCore
    /\ sleepingQLock' = c
    /\ hscan' = [hscan EXCEPT ![c] = IF At(c, "wt_lock") THEN "wt_scan" ELSE "wl_scan"]
    /\ Goto(c, hscan'[c])
    /\ UNCHANGED <<queueVars, current, taskVars, runningQLock, heapLock,
                   gicVars, hirq, calcVars>>

TimerDue(t) == timer[t] = "expired"
LockDue(t) == sleepingOnLock[t] /\ ~ownerPid

\* Mutant: calcNextCore forgets that tasks can be pinned.
BugStartCalc(c, t) ==
    /\ ht' = [ht EXCEPT ![c] = t]
    /\ hi' = [hi EXCEPT ![c] = 0]
    /\ hcount' = [hcount EXCEPT ![c] = NoCount]
    /\ hout' = [hout EXCEPT ![c] = 0]
    /\ Goto(c, "calc")

\* calcNextCore: a pinned task goes to its core, any other starts the scan.
StartCalc(c, t) ==
    /\ ht' = [ht EXCEPT ![c] = t]
    /\ hi' = [hi EXCEPT ![c] = 0]
    /\ hcount' = [hcount EXCEPT ![c] = NoCount]
    /\ hout' = [hout EXCEPT ![c] = IF pinned[t] # NoCore THEN pinned[t] ELSE 0]
    /\ Goto(c, IF pinned[t] # NoCore THEN "mv_lock" ELSE "calc")

\* wakeUpTimers finds an expired task.
WakeTimer(c, t) ==
    /\ At(c, "wt_scan")
    /\ t \in sleepingQ
    /\ TimerDue(t)
    /\ timer' = [timer EXCEPT ![t] = "off"]
    /\ StartCalc(c, t)
    /\ UNCHANGED <<queueVars, current, premption, sleepingOnLock, ownerPid,
                   lockVars, gicVars, hirq, hscan>>

\* wakeUpLocks finds a task whose lock has no owner.
WakeLockWaiter(c, t) ==
    /\ At(c, "wl_scan")
    /\ t \in sleepingQ
    /\ LockDue(t)
    /\ sleepingOnLock' = [sleepingOnLock EXCEPT ![t] = FALSE]
    /\ StartCalc(c, t)
    /\ UNCHANGED <<queueVars, current, premption, timer, ownerPid,
                   lockVars, gicVars, hirq, hscan>>

\* The loop ends: sleepingQLock->release(), and the handler goes on.
WakeDone(c) ==
    /\ \/ At(c, "wt_scan") /\ \A t \in sleepingQ : ~TimerDue(t)
       \/ At(c, "wl_scan") /\ \A t \in sleepingQ : ~LockDue(t)
    /\ sleepingQLock' = NoCore
    /\ GoOn(c, IF At(c, "wl_scan") THEN "task"
               ELSE IF hirq[c] = TIMER1 THEN "resched" ELSE "wl_lock")
    /\ hscan' = [hscan EXCEPT ![c] = "wt_scan"]
    /\ UNCHANGED <<queueVars, current, taskVars, runningQLock, heapLock,
                   gicVars, calcVars>>

\* One iteration of calcNextCore, under runningQLock[i].
CalcNextCore(c) ==
    LET i == hi[c]
        size == Cardinality(List(i, prio[ht[c]]))
    IN  /\ At(c, "calc")
        /\ runningQLock[i] = NoCore
        /\ hcount' = [hcount EXCEPT ![c] = IF size < @ THEN size ELSE @]
        /\ hout' = [hout EXCEPT ![c] = IF size < hcount[c] THEN i ELSE @]
        /\ hi' = [hi EXCEPT ![c] = i + 1]
        /\ Goto(c, IF i + 1 = NUM_CORES THEN "mv_lock" ELSE "calc")
        /\ UNCHANGED <<queueVars, current, taskVars, lockVars, gicVars, hirq,
                       hscan, ht>>

\* runningQLock[nextCore]->spin()
MoveLock(c) ==
    /\ At(c, "mv_lock")
    /\ runningQLock[hout[c]] = NoCore
    /\ runningQLock' = [runningQLock EXCEPT ![hout[c]] = c]
    /\ Goto(c, "mv_remove")
    /\ UNCHANGED <<queueVars, current, taskVars, sleepingQLock, heapLock,
                   gicVars, hirq, wakeVars>>

\* sleepingQ->removeElement(t): a panic if it removes nothing; the add that
\* follows may have to grow its list first.
MoveRemove(c) ==
    /\ At(c, "mv_remove")
    /\ \E l \in removeElement(sleepingQ, ht[c]), next \in {"mv_heap", "mv_add"} :
          /\ sleepingQ' \in Left(sleepingQ, l)
          /\ Goto(c, IF l = sleepingQ THEN "panic" ELSE next)
    /\ UNCHANGED <<runningQ, current, taskVars, lockVars, gicVars, hirq, wakeVars>>

\* ArrayList::reallocate in the add: the allocator's lock is taken and released.
GrowList(c) ==
    /\ At(c, "mv_heap") \/ At(c, "sl_heap")
    /\ heapLock = NoCore
    /\ Goto(c, IF At(c, "mv_heap") THEN "mv_add" ELSE "sl_add")
    /\ UNCHANGED <<queueVars, current, taskVars, lockVars, gicVars, hirq, wakeVars>>

\* runningQ[nextCore][t->p]->add(t), release, and back to the head of the loop.
MoveAdd(c) ==
    /\ At(c, "mv_add")
    /\ runningQ' = [runningQ EXCEPT ![hout[c]] = @ \cup {ht[c]}]
    /\ runningQLock' = [runningQLock EXCEPT ![hout[c]] = NoCore]
    /\ ht' = [ht EXCEPT ![c] = NoTask]
    /\ hi' = [hi EXCEPT ![c] = 0]
    /\ hcount' = [hcount EXCEPT ![c] = 0]
    /\ hout' = [hout EXCEPT ![c] = 0]
    /\ Goto(c, hscan[c])
    /\ UNCHANGED <<sleepingQ, current, taskVars, sleepingQLock, heapLock,
                   gicVars, hirq, hscan>>

-----------------------------------------------------------------------------
(* SYSTEM_SLEEP_IRQ *)

\* Mutant: the SLEEP handler leaves current on its running queue.
BugSleepRemove(c) ==
    /\ At(c, "sl_remove")
    /\ runningQLock[c] = NoCore
    /\ Goto(c, "sl_lock")
    /\ UNCHANGED <<queueVars, current, taskVars, lockVars, gicVars, hirq, wakeVars>>

\* Under runningQLock[c]: sort and remove current from its list.
SleepRemove(c) ==
    /\ At(c, "sl_remove")
    /\ runningQLock[c] = NoCore
    /\ LET q == List(c, prio[current[c]])
       IN  \E l \in removeElement(q, current[c]) : \E left \in Left(q, l) :
              runningQ' = [runningQ EXCEPT ![c] = (@ \ q) \cup left]
    /\ Goto(c, "sl_lock")
    /\ UNCHANGED <<sleepingQ, current, taskVars, lockVars, gicVars, hirq, wakeVars>>

\* sleepingQLock->spin(); the add may have to grow the list first.
SleepLock(c) ==
    /\ At(c, "sl_lock")
    /\ sleepingQLock = NoCore
    /\ sleepingQLock' = c
    /\ \E next \in {"sl_heap", "sl_add"} : Goto(c, next)
    /\ UNCHANGED <<queueVars, current, taskVars, runningQLock, heapLock,
                   gicVars, hirq, wakeVars>>

\* Mutant: the SLEEP handler returns without rescheduling.
BugSleepAdd(c) ==
    /\ At(c, "sl_add")
    /\ sleepingQ' = sleepingQ \cup {current[c]}
    /\ sleepingQLock' = NoCore
    /\ GoOn(c, "task")
    /\ UNCHANGED <<runningQ, current, taskVars, runningQLock, heapLock,
                   gicVars, wakeVars>>

\* sleepingQ->add(current) and release: from here on any core may wake current,
\* whose registers are saved only by the reschedule that follows.
SleepAdd(c) ==
    /\ At(c, "sl_add")
    /\ sleepingQ' = sleepingQ \cup {current[c]}
    /\ sleepingQLock' = NoCore
    /\ Goto(c, "resched")
    /\ UNCHANGED <<runningQ, current, taskVars, runningQLock, heapLock,
                   gicVars, hirq, wakeVars>>

-----------------------------------------------------------------------------
(* reschedule *)

AfterResched(c) == IF hirq[c] = TIMER1 THEN "tick_send" ELSE "task"

\* current is not preemptible: nothing happens.
RescheduleSkip(c) ==
    /\ At(c, "resched")
    /\ ~isPreamptable(c)
    /\ GoOn(c, AfterResched(c))
    /\ UNCHANGED <<queueVars, current, taskVars, lockVars, gicVars, wakeVars>>

\* A random element of the first non-empty list becomes current.  With every
\* list empty next would be an uninitialised pointer: any task at all.
Reschedule(c, next) ==
    /\ At(c, "resched")
    /\ isPreamptable(c)
    /\ runningQLock[c] = NoCore
    /\ next \in IF runningQ[c] = {} THEN Tasks ELSE Candidates(c)
    /\ current' = [current EXCEPT ![c] = next]
    /\ GoOn(c, AfterResched(c))
    /\ UNCHANGED <<queueVars, taskVars, lockVars, gicVars, wakeVars>>

\* The tick handler tells the other cores to reschedule and programs the next tick.
TickSend(c) ==
    /\ At(c, "tick_send")
    /\ pending' = [d \in Cores |-> IF d = 0 THEN pending[d] ELSE pending[d] \cup {RESCHEDULE}]
    /\ tick' = TRUE
    /\ GoOn(c, "task")
    /\ UNCHANGED <<queueVars, current, taskVars, lockVars, irqOff, strayed, wakeVars>>

-----------------------------------------------------------------------------
(* Calls a running task makes *)

\* Mutant: the idle task may call into the scheduler like any other.
BugRunning(c) == At(c, "task") /\ current[c] \in Tasks

\* A task that makes calls is executing: not the boot code, and not an idle task,
\* which only waits for events.
Running(c) == At(c, "task") /\ current[c] \in Tasks \ IdleTasks

\* The cores whose id a task can have read: those that have scheduled a task.
Known == {d \in Cores : current[d] # Boot}

\* A core id the task running on c may hold, and the task its "current" may lead to: until
\* a stray SLEEP a pinned task has only run on its own core.
Holds(c, d) == d = c \/ (d \in Astray \cap Known /\ (strayed \/ pinned[current[c]] = NoCore))
LeadsTo(c, t) == t = current[c] \/ (t \in Hit /\ (strayed \/ pinned[current[c]] = NoCore))

\* Task::sleep(ms), first half: the wake-up time of "current", the caller or, when the
\* index was read on another core, the task that runs there.
SetTimer(c, t) ==
    /\ Running(c)
    /\ ~irqOff[c]
    /\ LeadsTo(c, t)
    /\ timer' = [timer EXCEPT ![t] = "armed"]
    /\ UNCHANGED <<queueVars, current, premption, sleepingOnLock, ownerPid,
                   lockVars, gicVars, hpc, hirq, wakeVars>>

\* Spinlock::get, the lock is taken: remember what "current" sleeps on.
SetSleepingOnLock(c, t) ==
    /\ Running(c)
    /\ ~irqOff[c]
    /\ LeadsTo(c, t)
    /\ sleepingOnLock' = [sleepingOnLock EXCEPT ![t] = TRUE]
    /\ UNCHANGED <<queueVars, current, premption, timer, ownerPid,
                   lockVars, gicVars, hpc, hirq, wakeVars>>

\* Task::sleep(): ask core d, whose id the task has read, to put its current task to
\* sleep.  No program does so with preemption or interrupts disabled.
Sleep(c, d) ==
    /\ Running(c)
    /\ ~irqOff[c]
    /\ isPreamptable(c)
    /\ Holds(c, d)
    /\ send_sgi(SLEEP, d)
    /\ strayed' = (strayed \/ d # c)
    /\ UNCHANGED <<queueVars, current, taskVars, lockVars, irqOff, tick,
                   hpc, hirq, wakeVars>>

\* Spinlock::get has taken the mutex / Spinlock::release gives it back.
SetOwner(c) ==
    /\ Running(c)
    /\ ~irqOff[c]
    /\ ownerPid' \in BOOLEAN
    /\ UNCHANGED <<queueVars, current, premption, timer, sleepingOnLock,
                   lockVars, gicVars, hpc, hirq, wakeVars>>

\* Spinlock::free, second half: core d is to wake the sleepers.
SendWakeup(c, d) ==
    /\ Running(c)
    /\ ~irqOff[c]
    /\ Holds(c, d)
    /\ send_sgi(WAKEUP, d)
    /\ UNCHANGED <<queueVars, current, taskVars, lockVars, irqOff, tick, strayed,
                   hpc, hirq, wakeVars>>

\* Only the pinned screen tasks disable preemption, and never with a request of their
\* own to sleep outstanding: they toggle the interrupt mask since their last sleep().
preemptDisable(c) ==
    /\ Running(c)
    /\ pinned[current[c]] # NoCore
    /\ strayed \/ SLEEP \notin pending[c]
    /\ premption[current[c]] < MaxPremption
    /\ premption' = [premption EXCEPT ![current[c]] = @ + 1]
    /\ UNCHANGED <<queueVars, current, timer, sleepingOnLock, ownerPid,
                   lockVars, gicVars, hpc, hirq, wakeVars>>

\* Mutant: one preemptEnable too many.
BugPreemptEnable(c) ==
    /\ Running(c)
    /\ premption' = [premption EXCEPT ![current[c]] = @ - 1]
    /\ UNCHANGED <<queueVars, current, timer, sleepingOnLock, ownerPid,
                   lockVars, gicVars, hpc, hirq, wakeVars>>

preemptEnable(c) ==
    /\ Running(c)
    /\ premption[current[c]] > 0
    /\ premption' = [premption EXCEPT ![current[c]] = @ - 1]
    /\ UNCHANGED <<queueVars, current, timer, sleepingOnLock, ownerPid,
                   lockVars, gicVars, hpc, hirq, wakeVars>>

disableIRQ(c) ==
    /\ Running(c)
    /\ ~irqOff[c]
    /\ irqOff' = [irqOff EXCEPT ![c] = TRUE]
    /\ UNCHANGED <<queueVars, current, taskVars, lockVars, pending, tick, strayed,
                   hpc, hirq, wakeVars>>

enableIRQ(c) ==
    /\ Running(c)
    /\ irqOff[c]
    /\ heapLock # c
    /\ irqOff' = [irqOff EXCEPT ![c] = FALSE]
    /\ UNCHANGED <<queueVars, current, taskVars, lockVars, pending, tick, strayed,
                   hpc, hirq, wakeVars>>

\* Mutant: a task allocates with interrupts enabled.
BugHeapLock(c) ==
    /\ Running(c)
    /\ heapLock = NoCore
    /\ heapLock' = c
    /\ UNCHANGED <<queueVars, current, taskVars, sleepingQLock, runningQLock,
                   gicVars, hpc, hirq, wakeVars>>

\* KernelHeapAllocator::alloc and free: tasks call them with IRQs disabled.
HeapLock(c) ==
    /\ Running(c)
    /\ irqOff[c]
    /\ heapLock = NoCore
    /\ heapLock' = c
    /\ UNCHANGED <<queueVars, current, taskVars, sleepingQLock, runningQLock,
                   gicVars, hpc, hirq, wakeVars>>

HeapRelease(c) ==
    /\ Running(c)
    /\ heapLock = c
    /\ heapLock' = NoCore
    /\ UNCHANGED <<queueVars, current, taskVars, sleepingQLock, runningQLock,
                   gicVars, hpc, hirq, wakeVars>>

-----------------------------------------------------------------------------

HandlerStep(c) ==
    \/ WakeLock(c) \/ WakeDone(c) \/ CalcNextCore(c)
    \/ \E t \in Tasks : WakeTimer(c, t) \/ WakeLockWaiter(c, t) \/ Reschedule(c, t)
    \/ MoveLock(c) \/ MoveRemove(c) \/ GrowList(c) \/ MoveAdd(c)
    \/ SleepRemove(c) \/ SleepLock(c) \/ SleepAdd(c)
    \/ RescheduleSkip(c) \/ TickSend(c)

Interrupt(c) == \E irq \in Irqs : TakeIRQ(c, irq)

TaskStep(c) ==
    \/ \E t \in Tasks : SetTimer(c, t) \/ SetSleepingOnLock(c, t)
    \/ \E d \in Cores : Sleep(c, d) \/ SendWakeup(c, d)
    \/ SetOwner(c)
    \/ preemptDisable(c) \/ preemptEnable(c)
    \/ disableIRQ(c) \/ enableIRQ(c) \/ HeapLock(c) \/ HeapRelease(c)

\* The bound on what follows a stray SLEEP: unless Astray is all the cores, only the
\* interrupts that its cores have got by then are served.
GoesOn == ~strayed \/ Astray = Cores

Next ==
    \/ GoesOn /\ (TimerMatch \/ \E t \in Tasks : Expire(t))
    \/ \E c \in Cores : GoesOn /\ TaskStep(c)
    \/ \E c \in Cores : (GoesOn \/ c \in Astray) /\ (HandlerStep(c) \/ Interrupt(c))
    \/ ~GoesOn /\ UNCHANGED vars

Spec == Init /\ [][Next]_vars

-----------------------------------------------------------------------------
(* Properties *)

\* A handler on core c has taken t out of one queue and not yet put it in another.
InTransit(c, t) ==
    \/ hpc[c] \in {"mv_heap", "mv_add"} /\ ht[c] = t
    \/ hpc[c] \in {"sl_lock", "sl_heap", "sl_add"} /\ current[c] = t

\* The SLEEP handler of core c has taken current out of its running queue.
Descheduling(c) ==
    \/ hpc[c] \in {"sl_lock", "sl_heap", "sl_add"}
    \/ hpc[c] = "resched" /\ hirq[c] = SLEEP

\* No task is in two queues, or both in one and in transit, and none is lost.
Partitioned ==
    \A t \in Tasks :
        /\ \A c, d \in Cores : t \in runningQ[c] /\ t \in runningQ[d] => c = d
        /\ \A c \in Cores : t \in runningQ[c] => t \notin sleepingQ
        /\ \A c \in Cores : InTransit(c, t) =>
              /\ t \notin sleepingQ
              /\ \A d \in Cores : t \notin runningQ[d]
              /\ \A d \in Cores : InTransit(d, t) => c = d
        /\ \/ t \in sleepingQ
           \/ \E c \in Cores : t \in runningQ[c] \/ InTransit(c, t)

CurrentOnQueue ==
    \A c \in Cores :
        \/ current[c] = Boot
        \/ current[c] \in runningQ[c]
        \/ Descheduling(c)

KeepsCore ==
    \A t \in Tasks : premption[t] > 0 =>
        \E c \in Cores : current[c] = t /\ t \in runningQ[c] /\ ~Descheduling(c)

\* The queues partition the tasks.  Whatever the cores do concurrently in
\* wakeUpTimers, wakeUpLocks and the SLEEP handler, which acts on whatever task is
\* current by then, no task is ever in two queues (it would be scheduled by two
\* cores) or lost from all of them, until a stray SLEEP.
OneQueue == ~strayed => Partitioned

\* Until a stray SLEEP, current is a task of the core's own running queue (or the boot
\* task), except between the SLEEP handler's removeElement and its reschedule.
\* removeElement on a list without the element would remove another task.
CurrentQueued == ~strayed => CurrentOnQueue

\* "Finds a task to be executed within the running q" (reschedule): one is there, and
\* the pointer next is not used uninitialised.
RescheduleFinds ==
    \A c \in Cores : At(c, "resched") => runningQ[c] # {} /\ Idle[c] \in runningQ[c]

\* A SLEEP that its sender's own core serves, for whatever task is current by then,
\* never takes the idle task off its queue: reschedule finds a task until a stray SLEEP.
IdleStays == ~strayed => RescheduleFinds

\* The panic "Not found in sleeping Q." of both wake-up loops is unreachable.
NoPanic == \A c \in Cores : hpc[c] # "panic"

\* A task that has disabled preemption keeps its core: it is current there and
\* stays in that core's running queue until it enables preemption again, whatever
\* interrupts arrive in between but for a stray SLEEP.
NonPreemptibleRuns == ~strayed => KeepsCore

\* A pinned task is only ever queued on its own core.
PinRespected ==
    \A t \in Tasks, c \in Cores : t \in runningQ[c] /\ pinned[t] # NoCore => c = pinned[t]

\* A task with IRQs off and without the allocator's lock may be spinning on it.
WantsHeap(c) == hpc[c] = "task" /\ irqOff[c] /\ heapLock # c

\* Core c may be spinning on a lock that core d holds.
WaitsFor(c, d) ==
    \/ hpc[c] \in {"wt_lock", "wl_lock", "sl_lock"} /\ sleepingQLock = d
    \/ hpc[c] = "calc" /\ runningQLock[hi[c]] = d
    \/ hpc[c] = "mv_lock" /\ runningQLock[hout[c]] = d
    \/ hpc[c] \in {"sl_remove", "resched"} /\ runningQLock[c] = d
    \/ (hpc[c] \in {"mv_heap", "sl_heap"} \/ WantsHeap(c)) /\ heapLock = d

\* The level, in the order of acquisition, of the lock core c spins on; a core
\* that spins on none is above them all.
LockLevel(c) ==
    CASE hpc[c] \in {"wt_lock", "wl_lock", "sl_lock"} -> 1
      [] hpc[c] \in {"calc", "mv_lock", "sl_remove", "resched"} -> 2
      [] hpc[c] \in {"mv_heap", "sl_heap"} \/ WantsHeap(c) -> 3
      [] OTHER -> 4

\* No deadlock on the spin locks: a core only ever waits for one that waits for a
\* lock further down the order sleepingQLock, runningQLock, allocator lock, or
\* for none.  In particular no handler spins on a lock its own interrupted task holds.
LockOrder == \A c, d \in Cores : WaitsFor(c, d) => LockLevel(c) < LockLevel(d)

-----------------------------------------------------------------------------
(* The inductive invariant behind these properties, in three layers *)

\* What a handler finds in its locals and what a sleep request implies of current.
RegistersOK ==
    \A c \in Cores :
        /\ hpc[c] = "calc" => hi[c] \in Cores
        /\ hpc[c] \in {"calc", "mv_lock", "mv_remove", "mv_heap", "mv_add"} => ht[c] \in Tasks
        /\ SLEEP \in pending[c] => current[c] \in Tasks
        /\ hpc[c] \in {"sl_remove", "sl_lock", "sl_heap", "sl_add"} => current[c] \in Tasks

\* Lines of the handlers with sleepingQLock and with a runningQLock held.  A core
\* that panics never gives its locks back.
WithSleepingQLock == {"wt_scan", "wl_scan", "calc", "mv_lock", "mv_remove", "mv_heap",
                      "mv_add", "sl_heap", "sl_add", "panic"}
WithRunningQLock == {"mv_remove", "mv_heap", "mv_add", "panic"}

\* Every lock is held by the core whose program counter says so and by no other,
\* and a task that has the allocator's lock cannot be interrupted.
LocksHeld ==
    \A c \in Cores :
        /\ sleepingQLock = c <=> hpc[c] \in WithSleepingQLock
        /\ \A i \in Cores :
              runningQLock[i] = c <=> hpc[c] \in WithRunningQLock /\ hout[c] = i
        /\ heapLock = c => irqOff[c]
        /\ irqOff[c] => hpc[c] = "task"

IdleQueued == \A c \in Cores : Idle[c] \in runningQ[c]

\* The task a wake-up loop works on is still asleep until the loop removes it, and
\* the core chosen for it is the one it is pinned to.
MovingAsleep ==
    \A c \in Cores :
        /\ hpc[c] \in {"calc", "mv_lock", "mv_remove"} => ht[c] \in sleepingQ
        /\ hpc[c] = "calc" => pinned[ht[c]] = NoCore
        /\ hpc[c] \in {"mv_lock", "mv_remove", "mv_heap", "mv_add"} /\ pinned[ht[c]] # NoCore
              => hout[c] = pinned[ht[c]]

\* A task that can be put to sleep: queued here, preemptible and not the idle task.
CanSleep(c) ==
    /\ current[c] \in runningQ[c]
    /\ current[c] \notin IdleTasks
    /\ premption[current[c]] = 0

\* Whoever asked for the sleep, the task it hits can be put to sleep; the handler
\* then works on that task alone until it reschedules.
SleepRequests ==
    \A c \in Cores :
        /\ SLEEP \in pending[c] \/ hpc[c] = "sl_remove" => CanSleep(c)
        /\ hpc[c] \in {"sl_remove", "sl_lock", "sl_heap", "sl_add"} => hirq[c] = SLEEP
        /\ hpc[c] = "task" => hirq[c] = 0
        /\ hirq[c] = SLEEP => SLEEP \notin pending[c]
        /\ Descheduling(c) => /\ current[c] \in Tasks \ IdleTasks
                              /\ premption[current[c]] = 0

\* Pinned tasks run on their own core, and only they are ever non-preemptible.
PinnedRun ==
    /\ premption[Boot] = 0
    /\ \A c \in Cores : current[c] \in Tasks /\ pinned[current[c]] # NoCore
                          => pinned[current[c]] = c
    /\ \A t \in Tasks : premption[t] > 0 =>
          /\ pinned[t] # NoCore
          /\ current[pinned[t]] = t
          /\ t \in runningQ[pinned[t]]
          /\ ~Descheduling(pinned[t])

\* What the properties above lack to be inductive: the locks and the tasks being moved
\* whatever requests arrive where, the rest until a stray SLEEP.
Strengthening ==
    /\ RegistersOK /\ LocksHeld /\ MovingAsleep
    /\ ~strayed => IdleQueued /\ SleepRequests /\ PinnedRun

IInv == TypeOK /\ NoPanic /\ PinRespected /\ OneQueue /\ CurrentQueued /\ Strengthening

=============================================================================
