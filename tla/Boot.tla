--------------------------------- MODULE Boot ---------------------------------
(***************************************************************************)
(* From reset to the first interrupt on every core: kernel_main on core 0   *)
(* (Kernel.cpp), the secondary cores parked in the ARM stub until they are  *)
(* released, initSecondaryCore (SMP.cpp), and the interrupts that arrive    *)
(* meanwhile.  Pointers the code follows are tracked in objects; following  *)
(* one that is not set yet is recorded in bad, and ends the behaviour.      *)
(***************************************************************************)
EXTENDS Integers, FiniteSets

CONSTANTS
    NUM_CORES,
    THREAD_N,     \* kernel tasks every core creates
    NumDrivers    \* drivers kernel_main loads

ASSUME BootAssumption ==
    /\ NUM_CORES \in Nat \ {0, 1}
    /\ THREAD_N \in Nat
    /\ NumDrivers \in Nat \ {0}

VARIABLES
    pc,           \* where each core is
    kalloc,       \* GlobalKernelAlloc::kalloc: "none", "boot" or "heap"
    drivers,      \* DriverManager::drivers: size and capacity
    mbox,         \* mailbox: "idle", "request", "other", "ok" or "fail"
    objects,      \* globals that point to something, <<name, core>>
    runningQ,     \* runningQ[c]: tasks on the lists of core c
    created,      \* created[c]: tasks core c has created
    pid,          \* pid[t]: pid of task t, 0 before it has one
    freePID,      \* Task::freePID
    pidReg,       \* pidReg[c]: freePID as core c has loaded it
    starting,     \* the core kernel_main is releasing
    spinCached,   \* cores whose spin table entry is written, in core 0's cache
    cleaning,     \* a clean of the spin table's cache line is on its way
    spinMemory,   \* cores whose spin table entry is in memory
    event,        \* cores whose event register is set
    consoleLock,  \* core that holds the console's lock, or -1
    irqOn,        \* cores with interrupts enabled
    armed,        \* the tick is programmed
    pending,      \* pending[c]: interrupts waiting for core c
    scheduling,   \* cores that have rescheduled at least once
    bad           \* <<core, object>>: a core followed a pointer that was not set yet

queueVars == <<runningQ, created, pid, freePID, pidReg>>
spinVars == <<starting, spinCached, cleaning, spinMemory, event>>
irqVars == <<irqOn, armed, pending, scheduling>>
vars == <<pc, kalloc, drivers, mbox, objects, queueVars, spinVars, consoleLock, irqVars, bad>>

Cores == 0 .. NUM_CORES - 1
Secondary == 1 .. NUM_CORES - 1
NoCore == -1

\* The tasks a core creates, in this order: idle, kernel tasks, screen.
PerCore == THREAD_N + 2
Tasks == Cores \X (0 .. PerCore - 1)
OwnTasks(c) == {c} \X (0 .. PerCore - 1)

Global(name) == <<name, 0>>
Lists(c) == <<"lists", c>>
Current(c) == <<"current", c>>
Globals == {Global(n) : n \in {"allocator", "drivers", "console", "sched_lock", "fb_lock",
                              "circles", "runningQLock", "sleepingQLock", "sleepingQ"}}
Objects == Globals \cup {Lists(c) : c \in Cores} \cup {Current(c) : c \in Cores}

\* kernel_main on core 0, the stub's secondary_spin elsewhere; the event registers
\* may hold anything after reset.
Init ==
    /\ pc = [c \in Cores |-> IF c = 0 THEN "boot_alloc" ELSE "wfe"]
    /\ kalloc = "none"
    /\ drivers = [size |-> 0, capacity |-> 0]
    /\ mbox = "idle"
    /\ objects = {}
    /\ runningQ = [c \in Cores |-> {}]
    /\ created = [c \in Cores |-> 0]
    /\ pid = [t \in Tasks |-> 0]
    /\ freePID = 1
    /\ pidReg = [c \in Cores |-> 0]
    /\ starting = 1
    /\ spinCached = {}
    /\ cleaning = FALSE
    /\ spinMemory = {}
    /\ event \in SUBSET Secondary
    /\ consoleLock = NoCore
    /\ irqOn = {}
    /\ armed = FALSE
    /\ pending = [c \in Cores |-> {}]
    /\ scheduling = {}
    /\ bad = {}

-----------------------------------------------------------------------------
(* Helpers *)

Step(c, from, to) == pc[c] = from /\ pc' = [pc EXCEPT ![c] = to]

\* Core c follows pointers; the ones that are not set are recorded.
Follow(c, needed) == bad' = bad \cup ({c} \X (needed \ objects))

Set(made) == objects' = objects \cup made

Allocator == {Global("allocator")}

-----------------------------------------------------------------------------
(* kernel_main up to its tasks *)

SetBootAllocator ==
    /\ Step(0, "boot_alloc", "drivers")
    /\ kalloc' = "boot"
    /\ Set(Allocator)
    /\ UNCHANGED <<drivers, mbox, queueVars, spinVars, consoleLock, irqVars, bad>>

\* DriverManager::init, and new for every driver.
InitDrivers ==
    /\ Step(0, "drivers", "load")
    /\ Follow(0, Allocator)
    /\ Set({Global("drivers")})
    /\ UNCHANGED <<kalloc, drivers, mbox, queueVars, spinVars, consoleLock, irqVars>>

\* Mutant: push_back grows only when there is more than one element too many.
BugLoadDriver ==
    /\ Step(0, "load", IF drivers.size + 1 = NumDrivers THEN "start" ELSE "load")
    /\ drivers' = [size |-> drivers.size + 1,
                   capacity |-> drivers.capacity + (IF drivers.size > drivers.capacity THEN 5 ELSE 0)]
    /\ Follow(0, Allocator \cup {Global("drivers")})
    /\ UNCHANGED <<kalloc, mbox, objects, queueVars, spinVars, consoleLock, irqVars>>

\* DriverManager::load: Vector::push_back, five more elements when it is full.
LoadDriver ==
    /\ Step(0, "load", IF drivers.size + 1 = NumDrivers THEN "start" ELSE "load")
    /\ drivers' = [size |-> drivers.size + 1,
                   capacity |-> drivers.capacity + (IF drivers.size >= drivers.capacity THEN 5 ELSE 0)]
    /\ Follow(0, Allocator \cup {Global("drivers")})
    /\ UNCHANGED <<kalloc, mbox, objects, queueVars, spinVars, consoleLock, irqVars>>

\* DriverManager::startAll: the timer's lock is allocated, the GIC routes the tick
\* and console input to core 0; print_gic_state has no console yet and returns.
StartDrivers ==
    /\ Step(0, "start", "console")
    /\ Follow(0, Allocator \cup {Global("drivers")})
    /\ UNCHANGED <<kalloc, drivers, mbox, objects, queueVars, spinVars, consoleLock, irqVars>>

SetKernelConsole ==
    /\ Step(0, "console", "heap")
    /\ Follow(0, Allocator)
    /\ Set({Global("console")})
    /\ UNCHANGED <<kalloc, drivers, mbox, queueVars, spinVars, consoleLock, irqVars>>

\* new KernelHeapAllocator puts its metadata into boot memory, then it takes over.
MakeHeap ==
    /\ Step(0, "heap", "fb")
    /\ Follow(0, Allocator \cup {Global("console"), Global("drivers")})
    /\ kalloc' = "heap"
    /\ UNCHANGED <<drivers, mbox, objects, queueVars, spinVars, consoleLock, irqVars>>

\* initSchedLock; FBInit until it has written its request.
RequestFrameBuffer ==
    /\ Step(0, "fb", "mbox")
    /\ mbox' = "request"
    /\ Follow(0, Allocator)
    /\ Set({Global("sched_lock"), Global("fb_lock")})
    /\ UNCHANGED <<kalloc, drivers, queueVars, spinVars, consoleLock, irqVars>>

\* The GPU: an answer to somebody else's message, or the answer.
GpuReply ==
    /\ mbox = "request"
    /\ mbox' \in {"other", "ok", "fail"}
    /\ UNCHANGED <<pc, kalloc, drivers, objects, queueVars, spinVars, consoleLock, irqVars, bad>>

\* mbox_call reads an answer; one that is not to its message is dropped.
ReadOther ==
    /\ pc[0] = "mbox" /\ mbox = "other"
    /\ mbox' = "request"
    /\ UNCHANGED <<pc, kalloc, drivers, objects, queueVars, spinVars, consoleLock, irqVars, bad>>

\* The frame buffer is there: kernelFb and circles are allocated.
ReadOk ==
    /\ Step(0, "mbox", "locks") /\ mbox = "ok"
    /\ mbox' = "idle"
    /\ Follow(0, Allocator)
    /\ Set({Global("circles")})
    /\ UNCHANGED <<kalloc, drivers, queueVars, spinVars, consoleLock, irqVars>>

\* Core::panic halts the other cores and hangs.
ReadFail ==
    /\ Step(0, "mbox", "halted") /\ mbox = "fail"
    /\ mbox' = "idle"
    /\ pending' = [c \in Cores |-> IF c = 0 THEN pending[c] ELSE pending[c] \cup {"HALT"}]
    /\ UNCHANGED <<kalloc, drivers, objects, queueVars, spinVars, consoleLock, irqOn, armed,
                   scheduling, bad>>

MakeLocks ==
    /\ Step(0, "locks", "lists")
    /\ Follow(0, Allocator)
    /\ Set({Global("runningQLock"), Global("sleepingQLock")})
    /\ UNCHANGED <<kalloc, drivers, mbox, queueVars, spinVars, consoleLock, irqVars>>

-----------------------------------------------------------------------------
(* Every core creates its lists and tasks *)

MakeLists(c) ==
    /\ Step(c, "lists", "alloc")
    /\ Follow(c, Allocator)
    /\ Set({Lists(c)} \cup (IF c = 0 THEN {Global("sleepingQ")} ELSE {}))
    /\ UNCHANGED <<kalloc, drivers, mbox, queueVars, spinVars, consoleLock, irqVars>>

\* createKernelTask: the task and its stack, then freePID++ in a load and a store.
LoadPid(c) ==
    /\ Step(c, "alloc", "store_pid")
    /\ Follow(c, Allocator)
    /\ pidReg' = [pidReg EXCEPT ![c] = freePID]
    /\ UNCHANGED <<kalloc, drivers, mbox, objects, runningQ, created, pid, freePID, spinVars,
                   consoleLock, irqVars>>

StorePid(c) ==
    /\ Step(c, "store_pid", "add")
    /\ freePID' = pidReg[c] + 1
    /\ pid' = [pid EXCEPT ![<<c, created[c]>>] = pidReg[c]]
    /\ UNCHANGED <<kalloc, drivers, mbox, objects, runningQ, created, pidReg, spinVars,
                   consoleLock, irqVars, bad>>

\* Mutant: one kernel task is forgotten.
BugAddTask(c) ==
    /\ Step(c, "add", IF created[c] + 2 = PerCore THEN "current" ELSE "alloc")
    /\ Follow(c, {Lists(c)})
    /\ runningQ' = [runningQ EXCEPT ![c] = @ \cup {<<c, created[c]>>}]
    /\ created' = [created EXCEPT ![c] = @ + 1]
    /\ UNCHANGED <<kalloc, drivers, mbox, objects, pid, freePID, pidReg, spinVars, consoleLock,
                   irqVars>>

\* The task joins its list, without the queue's lock; the screen task, the last one,
\* is pinned first.
AddTask(c) ==
    /\ Step(c, "add", IF created[c] + 1 = PerCore THEN "current" ELSE "alloc")
    /\ Follow(c, {Lists(c)})
    /\ runningQ' = [runningQ EXCEPT ![c] = @ \cup {<<c, created[c]>>}]
    /\ created' = [created EXCEPT ![c] = @ + 1]
    /\ UNCHANGED <<kalloc, drivers, mbox, objects, pid, freePID, pidReg, spinVars, consoleLock,
                   irqVars>>

\* Mutant: a secondary core leaves current unset.
BugSetCurrent(c) ==
    /\ Step(c, "current", IF c = 0 THEN "store_entry" ELSE "print")
    /\ Follow(c, Allocator)
    /\ Set(IF c = 0 THEN {Current(c)} ELSE {})
    /\ UNCHANGED <<kalloc, drivers, mbox, queueVars, spinVars, consoleLock, irqVars>>

SetCurrent(c) ==
    /\ Step(c, "current", IF c = 0 THEN "store_entry" ELSE "print")
    /\ Follow(c, Allocator)
    /\ Set({Current(c)})
    /\ UNCHANGED <<kalloc, drivers, mbox, queueVars, spinVars, consoleLock, irqVars>>

-----------------------------------------------------------------------------
(* Core::start releases the secondary cores *)

\* The entry is stored, its cache line is cleaned, and the event is sent.  No barrier
\* stands between the last two: the event may be there before the entry.
StoreEntry ==
    /\ Step(0, "store_entry", "clean_entry")
    /\ spinCached' = spinCached \cup {starting}
    /\ UNCHANGED <<kalloc, drivers, mbox, objects, queueVars, starting, cleaning, spinMemory,
                   event, consoleLock, irqVars, bad>>


CleanEntry ==
    /\ Step(0, "clean_entry", "sev")
    /\ cleaning' = (spinMemory # spinCached)
    /\ UNCHANGED <<kalloc, drivers, mbox, objects, queueVars, starting, spinCached, spinMemory,
                   event, consoleLock, irqVars, bad>>

\* The line reaches memory, with the entries stored so far: the clean has completed, or
\* the cache has evicted the line before.
WriteBack ==
    /\ spinMemory # spinCached
    /\ spinMemory' = spinCached
    /\ cleaning' = FALSE
    /\ UNCHANGED <<pc, kalloc, drivers, mbox, objects, queueVars, starting, spinCached, event,
                   consoleLock, irqVars, bad>>

SendEvent ==
    /\ Step(0, "sev", IF starting = NUM_CORES - 1 THEN "print" ELSE "store_entry")
    /\ event' = Cores
    /\ starting' = IF starting = NUM_CORES - 1 THEN starting ELSE starting + 1
    /\ UNCHANGED <<kalloc, drivers, mbox, objects, queueVars, spinCached, cleaning, spinMemory,
                   consoleLock, irqVars, bad>>

\* secondary_spin: wait for an event, then look at the entry; init_core follows.
WaitForEvent(c) ==
    /\ c \in event
    /\ Step(c, "wfe", "ldr")
    /\ event' = event \ {c}
    /\ UNCHANGED <<kalloc, drivers, mbox, objects, queueVars, starting, spinCached, cleaning,
                   spinMemory, consoleLock, irqVars, bad>>

LoadEntry(c) ==
    /\ Step(c, "ldr", IF c \in spinMemory THEN "lists" ELSE "wfe")
    /\ UNCHANGED <<kalloc, drivers, mbox, objects, queueVars, spinVars, consoleLock, irqVars, bad>>

-----------------------------------------------------------------------------
(* Console::print, and interrupts on *)

PrintUp(c) ==
    /\ consoleLock = NoCore
    /\ Step(c, "print", "printed")
    /\ consoleLock' = c
    /\ Follow(c, {Global("console")})
    /\ UNCHANGED <<kalloc, drivers, mbox, objects, queueVars, spinVars, irqVars>>

Printed(c) ==
    /\ Step(c, "printed", "enable")
    /\ consoleLock' = NoCore
    /\ UNCHANGED <<kalloc, drivers, mbox, objects, queueVars, spinVars, irqVars, bad>>

EnableIRQ(c) ==
    /\ Step(c, "enable", IF c = 0 THEN "first_tick" ELSE "wait")
    /\ irqOn' = irqOn \cup {c}
    /\ UNCHANGED <<kalloc, drivers, mbox, objects, queueVars, spinVars, consoleLock, armed,
                   pending, scheduling, bad>>

\* SystemTimer::WaitMicroT1(100000), then kernel_main hangs.
FirstTick ==
    /\ Step(0, "first_tick", "wait")
    /\ armed' = TRUE
    /\ UNCHANGED <<kalloc, drivers, mbox, objects, queueVars, spinVars, consoleLock, irqOn,
                   pending, scheduling, bad>>

-----------------------------------------------------------------------------
(* Interrupts *)

TakesInterrupts(c) == c \in irqOn /\ pc[c] # "halted"

\* reschedule: current and the lists of the core, and some task on them.
RescheduleNeeds(c) ==
    {Current(c), Lists(c)} \cup (IF runningQ[c] = {} THEN {<<"next", c>>} ELSE {})

\* The programmed compare value is reached: the tick wakes sleepers, reschedules, tells
\* the other cores, and is programmed again.
HandleTimer ==
    /\ TakesInterrupts(0) /\ armed
    /\ Follow(0, {Global("sleepingQLock"), Global("sleepingQ")} \cup RescheduleNeeds(0))
    /\ scheduling' = scheduling \cup {0}
    /\ pending' = [c \in Cores |-> IF c = 0 THEN pending[c] ELSE pending[c] \cup {"RESCHEDULE"}]
    /\ UNCHANGED <<pc, kalloc, drivers, mbox, objects, queueVars, spinVars, consoleLock, irqOn, armed>>

HandleReschedule(c) ==
    /\ TakesInterrupts(c) /\ "RESCHEDULE" \in pending[c]
    /\ Follow(c, RescheduleNeeds(c))
    /\ scheduling' = scheduling \cup {c}
    /\ pending' = [pending EXCEPT ![c] = @ \ {"RESCHEDULE"}]
    /\ UNCHANGED <<pc, kalloc, drivers, mbox, objects, queueVars, spinVars, consoleLock, irqOn, armed>>

\* A character has arrived: the UART handler reads it and prints the queues of all cores.
HandleInput ==
    /\ TakesInterrupts(0)
    /\ Follow(0, {Global("console"), Global("sleepingQ")}
                \cup {Current(c) : c \in Cores} \cup {Lists(c) : c \in Cores})
    /\ UNCHANGED <<pc, kalloc, drivers, mbox, objects, queueVars, spinVars, consoleLock, irqVars>>

\* A task that is not pinned is woken: calcNextCore looks at the queues of all cores.
WakeUnpinned(c) ==
    /\ c \in scheduling
    /\ Follow(c, {Global("sleepingQLock"), Global("sleepingQ"), Global("runningQLock")}
                \cup {Lists(d) : d \in Cores})
    /\ UNCHANGED <<pc, kalloc, drivers, mbox, objects, queueVars, spinVars, consoleLock, irqVars>>

-----------------------------------------------------------------------------

KernelMain ==
    \/ SetBootAllocator \/ InitDrivers \/ LoadDriver \/ StartDrivers \/ SetKernelConsole
    \/ MakeHeap \/ RequestFrameBuffer \/ ReadOther \/ ReadOk \/ ReadFail \/ MakeLocks
    \/ StoreEntry \/ CleanEntry \/ SendEvent \/ FirstTick

CreateTasks(c) ==
    MakeLists(c) \/ LoadPid(c) \/ StorePid(c) \/ AddTask(c) \/ SetCurrent(c)

SecondarySpin(c) == WaitForEvent(c) \/ LoadEntry(c)

GoLive(c) == PrintUp(c) \/ Printed(c) \/ EnableIRQ(c)

CoreStep(c) ==
    \/ CreateTasks(c)
    \/ GoLive(c)
    \/ c \in Secondary /\ SecondarySpin(c)

Handle(c) == HandleReschedule(c) \/ WakeUnpinned(c)

\* What the code does with a pointer that is not set is undefined: it ends the behaviour.
Next ==
    /\ bad = {}
    /\ \/ KernelMain
       \/ GpuReply
       \/ WriteBack
       \/ HandleTimer
       \/ HandleInput
       \/ \E c \in Cores : CoreStep(c) \/ Handle(c)

\* Every core executes, and takes its interrupts; the GPU answers, in the end to the
\* request; a clean completes, nothing says when; the timer runs.
Fairness ==
    /\ WF_vars(bad = {} /\ KernelMain)
    /\ SF_vars(bad = {} /\ GpuReply /\ mbox' # "other")
    /\ WF_vars(bad = {} /\ cleaning /\ WriteBack)
    /\ WF_vars(bad = {} /\ HandleTimer)
    /\ \A c \in Cores : /\ WF_vars(bad = {} /\ CoreStep(c))
                        /\ SF_vars(bad = {} /\ PrintUp(c))
                        /\ WF_vars(bad = {} /\ HandleReschedule(c))

Spec == Init /\ [][Next]_vars
FairSpec == Spec /\ Fairness

-----------------------------------------------------------------------------
(* Properties *)

Pcs == {"boot_alloc", "drivers", "load", "start", "console", "heap", "fb", "mbox", "locks",
        "lists", "alloc", "store_pid", "add", "current", "store_entry",
        "clean_entry", "sev", "print", "printed", "enable", "first_tick", "wait", "halted",
        "wfe", "ldr"}

BootTypeOK ==
    /\ pc \in [Cores -> Pcs]
    /\ kalloc \in {"none", "boot", "heap"}
    /\ drivers \in [size : Nat, capacity : Nat]
    /\ drivers.size <= drivers.capacity
    /\ mbox \in {"idle", "request", "other", "ok", "fail"}
    /\ objects \subseteq Objects
    /\ runningQ \in [Cores -> SUBSET Tasks]
    /\ created \in [Cores -> 0 .. PerCore]
    /\ pid \in [Tasks -> Nat]
    /\ freePID \in Nat
    /\ pidReg \in [Cores -> Nat]
    /\ starting \in Secondary
    /\ spinMemory \subseteq spinCached /\ spinCached \subseteq Secondary
    /\ cleaning \in BOOLEAN
    /\ event \subseteq Cores
    /\ consoleLock \in Cores \cup {NoCore}
    /\ irqOn \subseteq Cores
    /\ armed \in BOOLEAN
    /\ pending \in [Cores -> SUBSET {"RESCHEDULE", "HALT"}]
    /\ scheduling \subseteq Cores

\* Core 0 ticks, sends RESCHEDULE to cores that may still be parked, answers console
\* input and wakes tasks without waiting for the others, and says "All cores UP!" before
\* they are.  Whatever the order in which the cores get ahead and interrupts arrive, the
\* only pointers found null are the queues and the current task of another core that has
\* not come up: never a global, nothing of core 0's, and nothing of the core itself.
NoBadAccess ==
    \A access \in bad :
        \E c \in Cores, d \in Secondary : c # d /\ access \in {<<c, Lists(d)>>, <<c, Current(d)>>}

\* A core takes interrupts only in the state Sched!Init describes: current is set, all
\* its tasks are on its queue, none is on another, and every one has a pid that is not
\* 0 (0 is what ownerPid says of a free lock), although freePID++ is not atomic.
ReadyForInterrupts ==
    \A c \in irqOn :
        /\ Current(c) \in objects
        /\ runningQ[c] = OwnTasks(c)
        /\ \A t \in OwnTasks(c) : pid[t] # 0
        /\ \A d \in Cores \ {c} : runningQ[d] \cap OwnTasks(c) = {}

\* The kernel has panicked, or followed a pointer that was not set.
Over == pc[0] = "halted" \/ bad # {}

\* Core c has looked at its entry, or will after an event, with the entry in memory.
Woken(c) ==
    \/ c = 0
    \/ /\ c \in spinMemory
       /\ pc[c] # "wfe" \/ c \in event \/ pc[0] \in {"store_entry", "clean_entry", "sev"}


=============================================================================
