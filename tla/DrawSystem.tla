------------------------------ MODULE DrawSystem ------------------------------
(***************************************************************************)
(* The programs that run on the scheduler (Task.cpp, FrameBuffer.cpp) and  *)
(* the sleeping mutex they share (Spinlock.cpp): kernel tasks allocate     *)
(* circles and put them on a list, screen tasks take them off, draw them   *)
(* and free them; fb_lock guards the list.                                 *)
(*                                                                         *)
(* Sched has no registers: this module adds, per core, the registers of    *)
(* the program it executes (pc, and the three locals that matter) and, per *)
(* task, the context that reschedule saves and restores.  One of them is   *)
(* the core id that get_core() has returned and the next step uses: it     *)
(* stays in the context of a task that is moved in between.                *)
(***************************************************************************)
EXTENDS Sched, Sequences

CONSTANTS
    Circles,       \* memory blocks a circle can occupy (bounds the heap)
    NoCircle,
    SgiLatency,    \* a task may go round the loop of get() once more before
                   \* the SLEEP interrupt it has sent itself arrives
    SpuriousTas,   \* the store-exclusive of _test_set_lock may fail on a free lock
    ReadApart      \* get_core() is a step of its own; on a single core, where it always
                   \* returns the same, it may be left out

ASSUME SwitchesAssumption == SgiLatency \in BOOLEAN /\ SpuriousTas \in BOOLEAN
ASSUME ReadAssumption == ReadApart \in BOOLEAN /\ (NUM_CORES > 1 => ReadApart)
ASSUME CirclesAssumption == NoCircle \notin Circles
\* A stale core id is used wherever it leads: the bounds of Sched are not wanted here.
ASSUME StaleEverywhere == Hit = Tasks /\ Astray = Cores

VARIABLES
    live,      \* [Cores -> Regs], the registers of each core
    context,   \* [Tasks -> Regs], Task::context
    lockVal,   \* fb_lock->l.val: NoTask (unlocked) or the task that locked it
    circles,   \* the list of circles to draw
    heap       \* circles that are allocated

drawVars == <<live, context, lockVal, circles, heap>>
sysVars == <<vars, drawVars>>

ScreenTasks == {t \in Tasks : pinned[t] # NoCore}
KernelTasks == Tasks \ (ScreenTasks \cup IdleTasks)

\* The entry point createKernelTask stores in the context.
Entry(t) == IF t \in ScreenTasks THEN "get" ELSE IF t \in KernelTasks THEN "k_timer" ELSE "idle"

Regs == [pc : {"idle", "get", "g_mark", "g_sleep", "g_owner",
               "f_owner", "f_unlock", "f_wake",
               "s_test", "s_off", "s_remove", "s_on", "s_pdis", "s_draw", "s_off2",
               "s_heap", "s_delete", "s_on2", "s_pen", "s_timer", "s_sleep",
               "k_timer", "k_sleep", "k_off", "k_heap", "k_alloc", "k_on",
               "c_off", "c_add", "c_grow", "c_on", "k_timer2", "k_sleep2"},
         circle : Circles \cup {NoCircle},
         core : Cores \cup {NoCore},
         ret : {"none", "get", "s_timer", "k_timer2"}]

DrawTypeOK ==
    /\ TypeOK
    /\ live \in [Cores -> Regs]
    /\ context \in [Tasks -> Regs]
    /\ lockVal \in Tasks \cup {NoTask}
    /\ circles \in Seq(Circles)
    /\ heap \in SUBSET Circles

InitRegs(l) == [pc |-> l, circle |-> NoCircle, core |-> NoCore, ret |-> "none"]

DrawInit ==
    /\ Init
    /\ live = [c \in Cores |-> InitRegs("idle")]
    /\ context = [t \in Tasks |-> InitRegs(Entry(t))]
    /\ lockVal = NoTask
    /\ circles = <<>>
    /\ heap = {}

-----------------------------------------------------------------------------
(* Interrupts: the handlers of Sched, and the registers reschedule switches *)

\* copyRegs(regs, &current->context); copyRegs(&next->context, regs)
SwitchRegs(c, next) ==
    LET saved == IF current[c] = Boot THEN context
                 ELSE [context EXCEPT ![current[c]] = live[c]]
    IN  /\ context' = saved
        /\ live' = [live EXCEPT ![c] = saved[next]]

DrawReschedule(c, next) ==
    /\ Reschedule(c, next)
    /\ SwitchRegs(c, next)
    /\ UNCHANGED <<lockVal, circles, heap>>

DrawHandler(c) ==
    \/ /\ hpc[c] # "resched"
       /\ HandlerStep(c)
       /\ UNCHANGED drawVars
    \/ RescheduleSkip(c) /\ UNCHANGED drawVars
    \/ \E t \in Tasks : DrawReschedule(c, t)

-----------------------------------------------------------------------------
(* Programs *)

\* The interrupts a task sends itself are taken before its next line, except that
\* a SLEEP may let get() test the lock once more; ticks and the RESCHEDULEs of
\* core 0 arrive between any two lines.
Prompt(c) ==
    \/ irqOff[c]
    \/ pending[c] \cap {SLEEP, WAKEUP} = {}
    \/ SgiLatency /\ live[c].pc = "get"

\* The program on core c executes the line from and goes on with regs.
Exec(c, from, regs) ==
    /\ Running(c)
    /\ live[c].pc = from
    /\ Prompt(c)
    /\ live' = [live EXCEPT ![c] = regs]
    /\ UNCHANGED context

\* The same registers, at another line.
Step(c, from, to) == Exec(c, from, [live[c] EXCEPT !.pc = to])

\* Data is left alone.
SameData == UNCHANGED <<lockVal, circles, heap>>

\* A line that calls into Sched and touches no data of the programs.
Call(c, from, to) == Step(c, from, to) /\ SameData

\* A line that touches only data.
Local(c, from, to) == Step(c, from, to) /\ UNCHANGED vars

\* Lines that call get_core(): "current" is currentTask[get_core()], and an interrupt is
\* sent to get_core().
CoreLines == {"s_timer", "k_timer", "k_timer2", "g_mark",
              "s_sleep", "k_sleep", "k_sleep2", "g_sleep", "f_wake"}

\* get_core() returns, with IRQs on; what it is for is a step of its own.
ReadCore(c) ==
    /\ ReadApart
    /\ live[c].pc \in CoreLines /\ live[c].core = NoCore
    /\ Exec(c, live[c].pc, [live[c] EXCEPT !.core = c])
    /\ UNCHANGED vars
    /\ SameData

\* The core id the rest of the line uses.
CoreOf(c) == IF ReadApart THEN live[c].core ELSE c

\* The rest of such a line, which uses the core id and drops it.
UseCore(c, from, to) ==
    /\ ReadApart => live[c].core # NoCore
    /\ Exec(c, from, [live[c] EXCEPT !.pc = to, !.core = NoCore])
    /\ SameData

\* Task::sleep(ms): the three calls in screenTask and kernelTask.
TaskSleepMs(c) ==
    \/ /\ \/ UseCore(c, "s_timer", "s_sleep")
          \/ UseCore(c, "k_timer", "k_sleep")
          \/ UseCore(c, "k_timer2", "k_sleep2")
       /\ SetTimer(c, current[CoreOf(c)])
    \/ /\ \/ UseCore(c, "s_sleep", "get")
          \/ UseCore(c, "k_sleep", "k_off")
          \/ UseCore(c, "k_sleep2", "k_timer")
       /\ Sleep(c, CoreOf(c))

\* Where get() returns to.
GetReturn(t) == IF t \in ScreenTasks THEN "s_test" ELSE "c_off"

\* Mutant: the lock is set without testing it.
BugTestAndSetOk(c) ==
    /\ Local(c, "get", "g_owner")
    /\ lockVal' = current[c]
    /\ UNCHANGED <<circles, heap>>

\* Spinlock::get
TestAndSetOk(c) ==
    /\ lockVal = NoTask
    /\ Local(c, "get", "g_owner")
    /\ lockVal' = current[c]
    /\ UNCHANGED <<circles, heap>>

TestAndSetBusy(c) ==
    /\ lockVal # NoTask \/ SpuriousTas
    /\ Local(c, "get", "g_mark")
    /\ SameData

GetMark(c) ==
    /\ UseCore(c, "g_mark", "g_sleep")
    /\ SetSleepingOnLock(c, current[CoreOf(c)])

GetSleep(c) == UseCore(c, "g_sleep", "get") /\ Sleep(c, CoreOf(c))

SpinlockGet(c) ==
    \/ TestAndSetOk(c)
    \/ TestAndSetBusy(c)
    \/ GetMark(c)
    \/ GetSleep(c)
    \/ SetOwner(c) /\ ownerPid' = TRUE /\ Call(c, "g_owner", GetReturn(current[c]))

\* Spinlock::free: release() clears ownerPid, then unlocks; then WAKEUP_ALL.
FreeOwner(c) == SetOwner(c) /\ ownerPid' = FALSE /\ Call(c, "f_owner", "f_unlock")

\* Mutant: the lock is only given up to somebody who waits for it.
BugFreeUnlock(c) ==
    /\ Local(c, "f_unlock", "f_wake")
    /\ lockVal' = IF \E t \in Tasks : sleepingOnLock[t] THEN NoTask ELSE lockVal
    /\ UNCHANGED <<circles, heap>>

FreeUnlock(c) ==
    /\ Local(c, "f_unlock", "f_wake")
    /\ lockVal' = NoTask
    /\ UNCHANGED <<circles, heap>>

FreeWake(c) == UseCore(c, "f_wake", live[c].ret) /\ SendWakeup(c, CoreOf(c))

SpinlockFree(c) ==
    \/ FreeOwner(c)
    \/ FreeUnlock(c)
    \/ FreeWake(c)

\* Room for the circle of every kernel task that is about to allocate one: the
\* bound on the heap, met before IRQs are disabled (the real heap is 50 MB).
HeapRoom == Cardinality(heap) + Cardinality({t \in KernelTasks :
                \E c \in Cores : current[c] = t /\ live[c].pc \in {"k_heap", "k_alloc"}})
            < Cardinality(Circles)

\* kernelTask allocates its circle with IRQs disabled, fills it in and calls
\* paintCircle, which appends it to the list under fb_lock, again with IRQs disabled.
AllocCircle(c) ==
    /\ HeapRelease(c)
    /\ \E x \in Circles \ heap :
          /\ Exec(c, "k_alloc", [live[c] EXCEPT !.pc = "k_on", !.circle = x])
          /\ heap' = heap \cup {x}
    /\ UNCHANGED <<lockVal, circles>>

\* Mutant: the pointer is cleared before it is stored in the list.
BugAddCircle(c, from) ==
    /\ Exec(c, from, [live[c] EXCEPT !.pc = "c_on", !.circle = NoCircle])
    /\ circles' = Append(circles, NoCircle)
    /\ UNCHANGED <<lockVal, heap>>

AddCircle(c, from) ==
    /\ Exec(c, from, [live[c] EXCEPT !.pc = "c_on", !.circle = NoCircle])
    /\ circles' = Append(circles, live[c].circle)
    /\ UNCHANGED <<lockVal, heap>>

KernelTask(c) ==
    \/ HeapRoom /\ disableIRQ(c) /\ Call(c, "k_off", "k_heap")
    \/ HeapLock(c) /\ Call(c, "k_heap", "k_alloc")
    \/ AllocCircle(c)
    \/ enableIRQ(c) /\ Call(c, "k_on", "get")
    \/ disableIRQ(c) /\ Call(c, "c_off", "c_add")
    \/ UNCHANGED vars /\ AddCircle(c, "c_add")
    \/ HeapLock(c) /\ Call(c, "c_add", "c_grow")
    \/ HeapRelease(c) /\ AddCircle(c, "c_grow")
    \/ enableIRQ(c) /\ SameData
          /\ Exec(c, "c_on", [live[c] EXCEPT !.pc = "f_owner", !.ret = "k_timer2"])

\* screenTask: look at the list under fb_lock ...
TestCircles(c) ==
    /\ UNCHANGED vars
    /\ SameData
    /\ \/ /\ Len(circles) > 0
          /\ Exec(c, "s_test", [live[c] EXCEPT !.pc = "s_off", !.circle = Head(circles)])
       \/ /\ Len(circles) = 0
          /\ Exec(c, "s_test", [live[c] EXCEPT !.pc = "f_owner", !.ret = "s_timer"])

\* ... take the first circle off ...
RemoveCircle(c) ==
    /\ Local(c, "s_remove", "s_on")
    /\ circles' = IF circles = <<>> THEN circles ELSE Tail(circles)
    /\ UNCHANGED <<lockVal, heap>>

\* Mutant: the circle is never freed.
BugDeleteCircle(c) ==
    /\ HeapRelease(c)
    /\ Exec(c, "s_delete", [live[c] EXCEPT !.pc = "s_on2", !.circle = NoCircle])
    /\ UNCHANGED <<lockVal, circles, heap>>

\* ... and, drawn, free it.
DeleteCircle(c) ==
    /\ HeapRelease(c)
    /\ Exec(c, "s_delete", [live[c] EXCEPT !.pc = "s_on2", !.circle = NoCircle])
    /\ heap' = heap \ {live[c].circle}
    /\ UNCHANGED <<lockVal, circles>>

ScreenTask(c) ==
    \/ TestCircles(c)
    \/ disableIRQ(c) /\ Call(c, "s_off", "s_remove")
    \/ RemoveCircle(c)
    \/ enableIRQ(c) /\ Call(c, "s_on", "s_pdis")
    \/ preemptDisable(c) /\ Call(c, "s_pdis", "s_draw")
    \/ Local(c, "s_draw", "s_off2") /\ SameData
    \/ disableIRQ(c) /\ Call(c, "s_off2", "s_heap")
    \/ HeapLock(c) /\ Call(c, "s_heap", "s_delete")
    \/ DeleteCircle(c)
    \/ enableIRQ(c) /\ Call(c, "s_on2", "s_pen")
    \/ preemptEnable(c) /\ SameData
          /\ Exec(c, "s_pen", [live[c] EXCEPT !.pc = "f_owner", !.ret = "get"])

-----------------------------------------------------------------------------

Program(c) ==
    ReadCore(c) \/ TaskSleepMs(c) \/ SpinlockGet(c) \/ SpinlockFree(c) \/ KernelTask(c) \/ ScreenTask(c)

DrawNext ==
    \/ TimerMatch /\ UNCHANGED drawVars
    \/ \E t \in Tasks : Expire(t) /\ UNCHANGED drawVars
    \/ \E c \in Cores :
          \/ DrawHandler(c)
          \/ Interrupt(c) /\ UNCHANGED drawVars
          \/ Program(c)

DrawSpec == DrawInit /\ [][DrawNext]_sysVars

\* The counter runs, compare registers match, handlers run to their end and
\* pending interrupts are taken (weak fairness: nothing disables them on one
\* core).  Ticks are 2 ms apart, so a task that is given the core again and again
\* executes instructions, and reschedule draws its victim by a hash of the
\* counter, so every candidate that is drawn from again and again is drawn.
DrawFairness ==
    /\ WF_sysVars(TimerMatch /\ UNCHANGED drawVars)
    /\ \A t \in Tasks : WF_sysVars(Expire(t) /\ UNCHANGED drawVars)
    /\ \A c \in Cores :
          /\ WF_sysVars(DrawHandler(c))
          /\ WF_sysVars(Interrupt(c) /\ UNCHANGED drawVars)
          /\ \A t \in Tasks \ IdleTasks :
                /\ SF_sysVars(current[c] = t /\ Program(c))
                /\ SF_sysVars(DrawReschedule(c, t))

FairDrawSpec == DrawSpec /\ DrawFairness

-----------------------------------------------------------------------------
(* Properties *)

\* The registers of t: those of the core it is current on, or its saved context.
RegsOf(t) == LET on == {c \in Cores : current[c] = t}
             IN  IF on = {} THEN {context[t]} ELSE {live[c] : c \in on}

\* Lines between get()'s testAndSet and release()'s unlock.
Critical == {"g_owner", "f_owner", "f_unlock", "s_test", "s_off", "s_remove", "s_on",
             "s_pdis", "s_draw", "s_off2", "s_heap", "s_delete", "s_on2", "s_pen",
             "c_off", "c_add", "c_grow", "c_on"}

\* fb_lock is a mutex: a task is inside get() ... free() only while it is the one
\* that locked it, so no two tasks work on the circle list at once.
MutualExclusion ==
    \A t \in Tasks : \A r \in RegsOf(t) : r.pc \in Critical => lockVal = t

\* Lines at which a task still uses the circle in its register.
Holding == {"k_on", "get", "g_mark", "g_sleep", "g_owner", "c_off", "c_add", "c_grow",
            "s_off", "s_remove", "s_on", "s_pdis", "s_draw", "s_off2", "s_heap", "s_delete"}
InHand(t) == {r.circle : r \in {q \in RegsOf(t) : q.pc \in Holding}} \ {NoCircle}
Listed == {circles[i] : i \in 1 .. Len(circles)}

\* Every circle on the list or in use is allocated (none is drawn or freed after it
\* was freed), every allocated one is on the list or in use (none leaks), none is
\* listed twice, and no two tasks use the same one.
CirclesAccounted ==
    /\ heap = Listed \cup UNION {InHand(t) : t \in Tasks}
    /\ Len(circles) = Cardinality(Listed)
    /\ \A t, u \in Tasks : t # u => InHand(t) \cap InHand(u) = {}

\* Tasks asleep, the one a handler is just moving out of the queue aside.
Sleepers == sleepingQ \ {ht[c] : c \in Cores}

\* A task that sleeps has something that will wake it: wakeUpTimers and
\* wakeUpLocks only look at tasks with a timer or a lock.
SleeperWakeable ==
    \A t \in Sleepers : timer[t] # "off" \/ sleepingOnLock[t]

\* A circle that was allocated is drawn and freed, although the task that owns it
\* may be preempted anywhere and has to win the mutex to hand it over.
CircleDrawn == \A x \in Circles : x \in heap ~> x \notin heap

\* A task that sleeps on fb_lock is woken: the owner, which may be preempted with
\* the lock, runs again, and its free() finds the sleeper.
WaiterWoken == \A t \in Tasks \ IdleTasks :
    (t \in sleepingQ /\ sleepingOnLock[t]) ~> t \notin sleepingQ

=============================================================================
