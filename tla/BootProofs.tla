------------------------------ MODULE BootProofs ------------------------------
(***************************************************************************)
(* Proofs about Boot, for any number of cores, tasks and drivers: a core   *)
(* takes interrupts only once everything of its own is there, and the only *)
(* pointers found null on the way up are those of another core.            *)
(***************************************************************************)
EXTENDS Boot, TLAPS

-----------------------------------------------------------------------------
(* The inductive invariant: what a core has done when it is at a line *)

\* Lines of a core that creates its tasks, that has set current, that has its lists.
Creating == {"alloc", "store_pid", "add"}
Released == {"store_entry", "clean_entry", "sev", "print", "printed", "enable",
             "first_tick", "wait"}
HasLists == Creating \cup {"current"} \cup Released

\* A secondary core leaves the stub only after its entry is in memory, and core 0
\* writes entries only after it has set its own current.
Parked ==
    /\ pc[0] \notin {"wfe", "ldr"}
    /\ \A c \in Secondary :
          /\ pc[c] \in {"wfe", "ldr", "lists"} \cup HasLists
          /\ pc[c] \notin {"wfe", "ldr"} => c \in spinMemory
    /\ spinCached # {} => pc[0] \in Released

\* The globals that are set when core 0 is at a line, and those of each core.
ObjectsSet ==
    /\ pc[0] # "boot_alloc" => Global("allocator") \in objects
    /\ pc[0] \notin {"boot_alloc", "drivers"} => Global("drivers") \in objects
    /\ pc[0] \notin {"boot_alloc", "drivers", "load", "start", "console"} =>
          Global("console") \in objects
    /\ pc[0] \in {"lists"} \cup HasLists =>
          Global("runningQLock") \in objects /\ Global("sleepingQLock") \in objects
    /\ pc[0] \in HasLists => Global("sleepingQ") \in objects
    /\ \A c \in Cores : /\ pc[c] \in HasLists => Lists(c) \in objects
                        /\ pc[c] \in Released => Current(c) \in objects

\* The queue of a core is the tasks it has created so far, each with a pid.
QueuesExact ==
    \A c \in Cores :
        /\ runningQ[c] = {c} \X (0 .. created[c] - 1)
        /\ pc[c] \notin HasLists => created[c] = 0
        /\ pc[c] \in Creating => created[c] < PerCore
        /\ pc[c] \in HasLists \ Creating => created[c] = PerCore

PidsSet ==
    /\ freePID > 0
    /\ \A c \in Cores :
          /\ pc[c] = "store_pid" => pidReg[c] > 0
          /\ \A k \in 0 .. created[c] - 1 : pid[<<c, k>>] > 0
          /\ pc[c] = "add" => pid[<<c, created[c]>>] > 0

Masked == scheduling \subseteq irqOn /\ \A c \in irqOn : pc[c] \in {"first_tick", "wait"}

BootInv == BootTypeOK /\ Parked /\ ObjectsSet /\ QueuesExact /\ PidsSet /\ Masked

-----------------------------------------------------------------------------

LEMMA CoresFacts ==
    /\ Cores \subseteq Int /\ 0 \in Cores /\ NoCore \notin Cores
    /\ Secondary = Cores \ {0} /\ 1 \in Secondary
    /\ PerCore \in Nat /\ PerCore > 1
BY BootAssumption DEF Cores, Secondary, NoCore, PerCore

LEMMA TaskFacts ==
    ASSUME NEW c \in Cores
    PROVE  /\ \A k \in 0 .. PerCore - 1 : <<c, k>> \in Tasks
           /\ OwnTasks(c) \subseteq Tasks
           /\ {c} \X (0 .. 0 - 1) = {}
BY DEF Tasks, OwnTasks

LEMMA InitBootInv == Init => BootInv
<1> SUFFICES ASSUME Init PROVE BootInv
  OBVIOUS
<1> USE CoresFacts DEF Init
<1>1. BootTypeOK
  <2>1. created \in [Cores -> 0 .. PerCore] BY SMT
  <2>2. drivers \in [size : Nat, capacity : Nat]
        /\ drivers.size <= drivers.capacity
    OBVIOUS
  <2>3. pc \in [Cores -> Pcs] BY DEF Pcs
  <2>4. event \subseteq Cores /\ spinMemory \subseteq spinCached /\ spinCached \subseteq Secondary OBVIOUS
  <2> QED BY <2>1, <2>2, <2>3, <2>4 DEF BootTypeOK, Objects
<1>2. Parked BY DEF Parked, HasLists, Creating, Released
<1>3. ObjectsSet BY DEF ObjectsSet, HasLists, Creating, Released
<1>4. QueuesExact BY TaskFacts DEF QueuesExact, HasLists, Creating, Released
<1>5. PidsSet /\ Masked BY DEF PidsSet, Masked
<1> QED BY <1>1, <1>2, <1>3, <1>4, <1>5 DEF BootInv

LEMMA KernelMainInv ==
    ASSUME BootInv, KernelMain
    PROVE  BootInv'
<1> USE CoresFacts DEF BootInv, BootTypeOK, Parked, ObjectsSet, QueuesExact, PidsSet,
        Masked, HasLists, Creating, Released, Pcs, Objects, Globals, Step, Set, Follow, Allocator,
        queueVars, spinVars, irqVars
<1>1. CASE SetBootAllocator BY <1>1 DEF SetBootAllocator
<1>2. CASE InitDrivers BY <1>2 DEF InitDrivers
<1>3. CASE LoadDriver BY <1>3 DEF LoadDriver
<1>4. CASE StartDrivers BY <1>4 DEF StartDrivers
<1>5. CASE SetKernelConsole BY <1>5 DEF SetKernelConsole
<1>6. CASE MakeHeap BY <1>6 DEF MakeHeap
<1>7. CASE RequestFrameBuffer BY <1>7 DEF RequestFrameBuffer
<1>8. CASE ReadOther BY <1>8 DEF ReadOther
<1>9. CASE ReadOk BY <1>9 DEF ReadOk
<1>10. CASE ReadFail BY <1>10 DEF ReadFail
<1>11. CASE MakeLocks BY <1>11 DEF MakeLocks
<1>12. CASE StoreEntry BY <1>12 DEF StoreEntry
<1>13. CASE CleanEntry BY <1>13 DEF CleanEntry
<1>14. CASE SendEvent
  <2>1. starting # NUM_CORES - 1 => starting + 1 \in Secondary
    BY BootAssumption DEF Secondary
  <2> QED BY <1>14, <2>1 DEF SendEvent
<1>15. CASE FirstTick BY <1>15 DEF FirstTick
<1> QED BY <1>1, <1>2, <1>3, <1>4, <1>5, <1>6, <1>7, <1>8, <1>9, <1>10, <1>11, <1>12, <1>13, <1>14, <1>15
   DEF KernelMain

LEMMA CoreStepInv ==
    ASSUME BootInv, NEW c \in Cores, CoreStep(c)
    PROVE  BootInv'
<1> USE CoresFacts DEF BootInv, BootTypeOK, Parked, ObjectsSet, QueuesExact, PidsSet,
        Masked, HasLists, Creating, Released, Pcs, Objects, Globals, Step, Set, Follow, Allocator,
        queueVars, spinVars, irqVars
<1>1. CASE MakeLists(c) BY <1>1 DEF MakeLists
<1>2. CASE LoadPid(c) BY <1>2 DEF LoadPid
<1>3. CASE StorePid(c)
  <2> DEFINE t == <<c, created[c]>>
  <2>1. pc[c] = "store_pid" /\ created[c] \in 0 .. PerCore - 1 BY <1>3 DEF StorePid
  <2>2. t \in Tasks BY <2>1, TaskFacts
  <2>3. pidReg[c] \in Nat /\ pidReg[c] > 0 BY <2>1
  <2>4. pid' = [pid EXCEPT ![t] = pidReg[c]] /\ freePID' = pidReg[c] + 1 BY <1>3 DEF StorePid
  <2>5. BootTypeOK' BY <1>3, <2>2, <2>3, <2>4 DEF StorePid
  <2>6. Parked' /\ ObjectsSet' /\ Masked' BY <1>3 DEF StorePid
  <2>7. QueuesExact' BY <1>3 DEF StorePid
  <2>8. \A d \in Cores, k \in 0 .. PerCore - 1 :
           pid'[<<d, k>>] = IF d = c /\ k = created[c] THEN pidReg[c] ELSE pid[<<d, k>>]
    BY <2>4, TaskFacts
  <2>9. PidsSet' BY <1>3, <2>1, <2>3, <2>4, <2>8 DEF StorePid
  <2> QED BY <2>5, <2>6, <2>7, <2>9
<1>4. CASE AddTask(c)
  <2> DEFINE n == created[c]
  <2>1. pc[c] = "add" /\ n \in 0 .. PerCore - 1 /\ pid[<<c, n>>] > 0 BY <1>4 DEF AddTask
  <2>2. /\ created' = [created EXCEPT ![c] = n + 1]
        /\ runningQ' = [runningQ EXCEPT ![c] = @ \cup {<<c, n>>}]
        /\ pc' = [pc EXCEPT ![c] = IF n + 1 = PerCore THEN "current" ELSE "alloc"]
    BY <1>4 DEF AddTask
  <2>3. <<c, n>> \in Tasks /\ n + 1 \in 0 .. PerCore BY <2>1, TaskFacts
  <2>4. BootTypeOK' BY <1>4, <2>2, <2>3 DEF AddTask
  <2>5. Parked' /\ ObjectsSet' /\ Masked' BY <1>4 DEF AddTask
  <2>6. ({c} \X (0 .. n - 1)) \cup {<<c, n>>} = {c} \X (0 .. (n + 1) - 1)
    <3>1. 0 .. (n + 1) - 1 = (0 .. n - 1) \cup {n} BY <2>1
    <3> QED BY <3>1
  <2>7. QueuesExact' BY <2>1, <2>2, <2>3, <2>6
  <2>8. PidsSet' BY <1>4, <2>1, <2>2 DEF AddTask
  <2> QED BY <2>4, <2>5, <2>7, <2>8
<1>5. CASE SetCurrent(c) BY <1>5 DEF SetCurrent
<1>6. CASE PrintUp(c) BY <1>6 DEF PrintUp
<1>7. CASE Printed(c) BY <1>7 DEF Printed
<1>8. CASE EnableIRQ(c) BY <1>8 DEF EnableIRQ
<1>9. CASE WaitForEvent(c) BY <1>9 DEF WaitForEvent
<1>10. CASE LoadEntry(c) BY <1>10 DEF LoadEntry
<1> QED BY <1>1, <1>2, <1>3, <1>4, <1>5, <1>6, <1>7, <1>8, <1>9, <1>10
   DEF CoreStep, CreateTasks, GoLive, SecondarySpin

\* Interrupts change nothing that the boot path relies on.
LEMMA InterruptInv ==
    ASSUME BootInv,
           GpuReply \/ WriteBack \/ HandleTimer \/ HandleInput \/ \E c \in Cores : Handle(c)
    PROVE  BootInv'
<1> USE CoresFacts DEF BootInv, BootTypeOK, Parked, ObjectsSet, QueuesExact, PidsSet,
        Masked, HasLists, Creating, Released, Pcs, Objects, Globals, Step, Set, Follow, Allocator,
        queueVars, spinVars, irqVars
<1>1. CASE GpuReply BY <1>1 DEF GpuReply
<1>2. CASE HandleTimer BY <1>2 DEF HandleTimer, TakesInterrupts
<1>3. CASE HandleInput BY <1>3 DEF HandleInput
<1>4. CASE \E c \in Cores : HandleReschedule(c) BY <1>4 DEF HandleReschedule, TakesInterrupts
<1>5. CASE \E c \in Cores : WakeUnpinned(c) BY <1>5 DEF WakeUnpinned
<1>6. CASE WriteBack
  <2>1. spinMemory' \subseteq spinCached' /\ cleaning' \in BOOLEAN BY <1>6 DEF WriteBack
  <2>2. BootTypeOK' BY <1>6, <2>1 DEF WriteBack
  <2>3. Parked' BY <1>6 DEF WriteBack
  <2>4. ObjectsSet' /\ QueuesExact' /\ PidsSet' /\ Masked' BY <1>6 DEF WriteBack
  <2> QED BY <2>2, <2>3, <2>4
<1> QED BY <1>1, <1>2, <1>3, <1>4, <1>5, <1>6 DEF Handle

LEMMA NextBootInv == BootInv /\ [Next]_vars => BootInv'
<1>1. ASSUME BootInv, UNCHANGED vars PROVE BootInv'
  BY <1>1 DEF vars, queueVars, spinVars, irqVars, BootInv, BootTypeOK, Parked, ObjectsSet,
       QueuesExact, PidsSet, Masked
<1> QED BY <1>1, KernelMainInv, CoreStepInv, InterruptInv DEF Next

\* Every variable keeps its type, the driver table never overflows, and the spin
\* table names secondary cores only.
THEOREM BootTypeCorrect == Spec => []BootTypeOK
<1>1. BootInv => BootTypeOK BY DEF BootInv
<1> QED BY <1>1, InitBootInv, NextBootInv, PTL DEF Spec

\* For any number of cores and tasks: whichever core gets ahead, one that takes
\* interrupts has its current task and exactly its own tasks on its queue, each with
\* a pid although two cores may draw the same one.
THEOREM ReadyOnEveryCore == Spec => []ReadyForInterrupts
<1>1. BootInv => ReadyForInterrupts
  <2> SUFFICES ASSUME BootInv, NEW c \in irqOn
               PROVE  /\ Current(c) \in objects
                      /\ runningQ[c] = OwnTasks(c)
                      /\ \A t \in OwnTasks(c) : pid[t] # 0
                      /\ \A d \in Cores \ {c} : runningQ[d] \cap OwnTasks(c) = {}
    BY DEF ReadyForInterrupts
  <2>1. c \in Cores /\ pc[c] \in {"first_tick", "wait"} BY DEF BootInv, BootTypeOK, Masked
  <2>2. Current(c) \in objects BY <2>1 DEF BootInv, ObjectsSet, Released
  <2>3. created[c] = PerCore
    BY <2>1 DEF BootInv, QueuesExact, HasLists, Creating, Released
  <2>4. runningQ[c] = OwnTasks(c) BY <2>1, <2>3 DEF BootInv, QueuesExact, OwnTasks
  <2>5. \A t \in OwnTasks(c) : pid[t] # 0
    <3> SUFFICES ASSUME NEW k \in 0 .. PerCore - 1 PROVE pid[<<c, k>>] # 0
      BY DEF OwnTasks
    <3>1. pid[<<c, k>>] > 0 BY <2>1, <2>3 DEF BootInv, PidsSet
    <3> QED BY <3>1
  <2>6. \A d \in Cores \ {c} : runningQ[d] \cap OwnTasks(c) = {}
    BY DEF BootInv, QueuesExact, OwnTasks
  <2> QED BY <2>2, <2>4, <2>5, <2>6
<1> QED BY <1>1, InitBootInv, NextBootInv, PTL DEF Spec

-----------------------------------------------------------------------------
(* Which pointers are followed before they are set.  Console input and wake-ups of *)
(* unpinned tasks look at the queues of all cores, and do not wait for them.        *)

\* Once any core has left the stub or has its tasks, what core 0 made is there.
LEMMA GlobalsThere ==
    ASSUME BootInv, NEW c \in Cores, pc[c] \in {"lists"} \cup HasLists
    PROVE  /\ Global("allocator") \in objects /\ Global("console") \in objects
           /\ Global("runningQLock") \in objects /\ Global("sleepingQLock") \in objects
           /\ c \in irqOn => Global("sleepingQ") \in objects
<1>1. CASE c = 0 BY <1>1 DEF BootInv, ObjectsSet, HasLists, Creating, Released, Masked
<1>2. CASE c # 0
  <2>1. c \in spinMemory
    BY <1>2, CoresFacts DEF BootInv, Parked, HasLists, Creating, Released
  <2>2. pc[0] \in Released BY <2>1 DEF BootInv, BootTypeOK, Parked
  <2> QED BY <2>2 DEF BootInv, ObjectsSet, HasLists, Released
<1> QED BY <1>1, <1>2

LEMMA KernelMainFollows ==
    ASSUME BootInv, bad = {}, KernelMain
    PROVE  bad' = {}
<1> USE DEF BootInv, ObjectsSet, Step, Follow, Allocator
<1>1. CASE SetBootAllocator \/ ReadOther \/ ReadFail \/ StoreEntry \/ CleanEntry \/ SendEvent \/ FirstTick
  BY <1>1 DEF SetBootAllocator, ReadOther, ReadFail, StoreEntry, CleanEntry, SendEvent, FirstTick
<1>2. CASE InitDrivers \/ StartDrivers \/ SetKernelConsole \/ MakeHeap \/ RequestFrameBuffer \/ ReadOk
  BY <1>2 DEF InitDrivers, StartDrivers, SetKernelConsole, MakeHeap, RequestFrameBuffer, ReadOk
<1>3. CASE MakeLocks BY <1>3 DEF MakeLocks
<1>4. CASE LoadDriver BY <1>4 DEF LoadDriver
<1> QED BY <1>1, <1>2, <1>3, <1>4 DEF KernelMain

LEMMA CoreStepFollows ==
    ASSUME BootInv, bad = {}, NEW c \in Cores, CoreStep(c)
    PROVE  bad' = {}
<1> USE DEF Step, Follow, Allocator, HasLists, Creating, Released
<1>1. CASE MakeLists(c) \/ LoadPid(c) \/ SetCurrent(c)
  BY <1>1, GlobalsThere DEF MakeLists, LoadPid, SetCurrent
<1>2. CASE AddTask(c) BY <1>2 DEF AddTask, BootInv, ObjectsSet
<1>3. CASE PrintUp(c) BY <1>3, GlobalsThere DEF PrintUp
<1>4. CASE StorePid(c) \/ Printed(c) \/ EnableIRQ(c) \/ WaitForEvent(c) \/ LoadEntry(c)
  BY <1>4 DEF StorePid, Printed, EnableIRQ, WaitForEvent, LoadEntry
<1> QED BY <1>1, <1>2, <1>3, <1>4 DEF CoreStep, CreateTasks, GoLive, SecondarySpin

\* A core that takes interrupts has all of its own that its handlers follow, and all of
\* core 0's.
LEMMA InterruptsFind ==
    ASSUME BootInv, NEW c \in irqOn
    PROVE  /\ c \in Cores /\ RescheduleNeeds(c) \subseteq objects
           /\ Global("sleepingQLock") \in objects /\ Global("sleepingQ") \in objects
           /\ Global("runningQLock") \in objects /\ Global("console") \in objects
           /\ \A d \in {c, 0} : Lists(d) \in objects /\ Current(d) \in objects
<1>1. c \in Cores /\ pc[c] \in {"first_tick", "wait"} BY DEF BootInv, BootTypeOK, Masked
<1>2. Current(c) \in objects /\ Lists(c) \in objects
  BY <1>1 DEF BootInv, ObjectsSet, HasLists, Released
<1>3. runningQ[c] # {}
  <2>1. created[c] = PerCore
    BY <1>1 DEF BootInv, QueuesExact, HasLists, Creating, Released
  <2>2. 0 \in 0 .. PerCore - 1 BY CoresFacts
  <2>3. <<c, 0>> \in runningQ[c] BY <1>1, <2>1, <2>2 DEF BootInv, QueuesExact
  <2> QED BY <2>3
<1>4. RescheduleNeeds(c) \subseteq objects BY <1>2, <1>3 DEF RescheduleNeeds
<1>5. Current(0) \in objects /\ Lists(0) \in objects
  <2>1. CASE c = 0 BY <1>2, <2>1
  <2>2. CASE c # 0
    <3>1. c \in spinMemory
      BY <1>1, <2>2, CoresFacts DEF BootInv, Parked, HasLists, Creating, Released
    <3>2. pc[0] \in Released BY <3>1 DEF BootInv, BootTypeOK, Parked
    <3> QED BY <3>2, CoresFacts DEF BootInv, ObjectsSet, HasLists, Released
  <2> QED BY <2>1, <2>2
<1> QED BY <1>1, <1>2, <1>4, <1>5, GlobalsThere DEF HasLists, Released

LEMMA InterruptFollows ==
    ASSUME BootInv, bad = {},
           GpuReply \/ WriteBack \/ HandleTimer \/ HandleInput \/ \E c \in Cores : Handle(c)
    PROVE  NoBadAccess'
<1>1. bad' = {} => NoBadAccess' BY DEF NoBadAccess
<1>2. CASE GpuReply \/ WriteBack BY <1>1, <1>2 DEF GpuReply, WriteBack
<1>3. CASE HandleTimer BY <1>1, <1>3, InterruptsFind DEF HandleTimer, TakesInterrupts, Follow
<1>4. CASE \E c \in Cores : HandleReschedule(c)
  BY <1>1, <1>4, InterruptsFind DEF HandleReschedule, TakesInterrupts, Follow
<1>5. CASE HandleInput
  <2>1. 0 \in irqOn BY <1>5 DEF HandleInput, TakesInterrupts
  <2>2. SUFFICES ASSUME NEW access \in bad'
                 PROVE  \E c \in Cores, d \in Secondary :
                            c # d /\ access \in {<<c, Lists(d)>>, <<c, Current(d)>>}
    BY DEF NoBadAccess
  <2>3. PICK d \in Cores : access \in {<<0, Lists(d)>>, <<0, Current(d)>>} /\ d # 0
    BY <1>5, <2>1, InterruptsFind DEF HandleInput, Follow
  <2> QED BY <2>3, CoresFacts
<1>6. ASSUME NEW c \in Cores, WakeUnpinned(c) PROVE NoBadAccess'
  <2>1. c \in irqOn BY <1>6 DEF WakeUnpinned, BootInv, Masked
  <2>2. SUFFICES ASSUME NEW access \in bad'
                 PROVE  \E d \in Secondary : c # d /\ access = <<c, Lists(d)>>
    BY DEF NoBadAccess
  <2>3. PICK d \in Cores : access = <<c, Lists(d)>> /\ d \notin {c, 0}
    BY <1>6, <2>1, InterruptsFind DEF WakeUnpinned, Follow
  <2> QED BY <2>3, CoresFacts
<1> QED BY <1>2, <1>3, <1>4, <1>5, <1>6 DEF Handle

\* For any number of cores, and no matter which of them gets ahead, when console input
\* arrives and when tasks are woken, the only pointers a core finds null are the queues
\* and the current task of another core that has not come up.
THEOREM NoBadAccessOnTheWayUp == Spec => []NoBadAccess
<1>1. Init => NoBadAccess BY DEF Init, NoBadAccess
<1>2. ASSUME BootInv, NoBadAccess, [Next]_vars PROVE NoBadAccess'
  <2>1. CASE UNCHANGED vars BY <1>2, <2>1 DEF vars, NoBadAccess
  <2>2. CASE Next
    <3>1. bad = {} BY <2>2 DEF Next
    <3>2. bad' = {} => NoBadAccess' BY DEF NoBadAccess
    <3> QED BY <1>2, <2>2, <3>1, <3>2, KernelMainFollows, CoreStepFollows, InterruptFollows DEF Next
  <2> QED BY <1>2, <2>1, <2>2
<1> QED BY <1>1, <1>2, InitBootInv, NextBootInv, PTL DEF Spec

=============================================================================
