----------------------------- MODULE DrawProofs -----------------------------
(***************************************************************************)
(* Proofs about DrawSystem: on any number of cores the registers of every   *)
(* task are those of its own program, and on one core fb_lock is a mutex,   *)
(* no circle is lost or used twice, and every sleeper has something that    *)
(* will wake it.                                                            *)
(***************************************************************************)
EXTENDS DrawSystem, SchedProofs, SequenceTheorems

-----------------------------------------------------------------------------
(* Every step is a step of Sched *)

LEMMA ProgramIsTask ==
    ASSUME NEW c \in Cores, Program(c)
    PROVE  TaskStep(c) \/ UNCHANGED vars
<1>0. ASSUME NEW t, SetTimer(c, t) \/ SetSleepingOnLock(c, t) PROVE TaskStep(c)
  <2>1. t \in Tasks
    BY <1>0, StaleAssumption DEF SetTimer, SetSleepingOnLock, Running, LeadsTo
  <2> QED BY <1>0, <2>1 DEF TaskStep
<1>7. ASSUME NEW d, Sleep(c, d) \/ SendWakeup(c, d) PROVE TaskStep(c)
  <2>1. d \in Cores BY <1>7, StaleAssumption DEF Sleep, SendWakeup, Holds
  <2> QED BY <1>7, <2>1 DEF TaskStep
<1>1. CASE TaskSleepMs(c) BY <1>0, <1>7, <1>1 DEF TaskSleepMs
<1>2. CASE SpinlockGet(c)
  BY <1>0, <1>7, <1>2 DEF SpinlockGet, TestAndSetOk, TestAndSetBusy, GetMark, GetSleep, Local, TaskStep
<1>3. CASE SpinlockFree(c)
  BY <1>7, <1>3 DEF SpinlockFree, FreeOwner, FreeUnlock, FreeWake, Local, TaskStep
<1>4. CASE KernelTask(c) BY <1>4 DEF KernelTask, AllocCircle, TaskStep
<1>5. CASE ScreenTask(c)
  BY <1>5 DEF ScreenTask, TestCircles, RemoveCircle, DeleteCircle, Local, TaskStep
<1>6. CASE ReadCore(c) BY <1>6 DEF ReadCore
<1> QED BY <1>1, <1>2, <1>3, <1>4, <1>5, <1>6 DEF Program

LEMMA DrawStepRefines == [DrawNext]_sysVars => [Next]_vars
<1> SUFFICES ASSUME [DrawNext]_sysVars PROVE [Next]_vars
  OBVIOUS
<1>0. GoesOn BY StaleEverywhere DEF GoesOn
<1>1. CASE TimerMatch \/ \E t \in Tasks : Expire(t)
  BY <1>0, <1>1 DEF Next
<1>2. ASSUME NEW c \in Cores, DrawHandler(c) PROVE Next
  <2>1. HandlerStep(c) BY <1>2 DEF DrawHandler, DrawReschedule, HandlerStep
  <2> QED BY <1>0, <2>1 DEF Next
<1>3. ASSUME NEW c \in Cores, Interrupt(c) PROVE Next
  BY <1>0, <1>3 DEF Next
<1>4. ASSUME NEW c \in Cores, Program(c) PROVE [Next]_vars
  BY <1>0, <1>4, ProgramIsTask DEF Next
<1>5. CASE UNCHANGED sysVars BY <1>5 DEF sysVars
<1> QED BY <1>1, <1>2, <1>3, <1>4, <1>5 DEF DrawNext

-----------------------------------------------------------------------------
(* The registers of a task fit its program *)

\* Lines at which a task's circle register is in use.
ScreenHolding == {"s_off", "s_remove", "s_on", "s_pdis", "s_draw", "s_off2", "s_heap", "s_delete"}
KernelHolding == {"k_on", "get", "g_mark", "g_sleep", "g_owner", "c_off", "c_add", "c_grow"}

ScreenLines == ScreenHolding \cup
    {"get", "g_mark", "g_sleep", "g_owner", "f_owner", "f_unlock", "f_wake",
     "s_test", "s_on2", "s_pen", "s_timer", "s_sleep"}
KernelLines == KernelHolding \cup
    {"f_owner", "f_unlock", "f_wake", "k_timer", "k_sleep", "k_off", "k_heap", "k_alloc",
     "c_on", "k_timer2", "k_sleep2"}

FreeLines == {"f_owner", "f_unlock", "f_wake"}

\* Registers r that task t can have: a line of its program, a circle exactly where
\* one is in use, and inside free() somewhere to return to.
RegsOK(t, r) ==
    /\ r \in Regs
    /\ t \in ScreenTasks =>
         /\ r.pc \in ScreenLines
         /\ r.pc \in ScreenHolding <=> r.circle \in Circles
         /\ r.pc \in FreeLines => r.ret \in {"get", "s_timer"}
    /\ t \in KernelTasks =>
         /\ r.pc \in KernelLines
         /\ r.pc \in KernelHolding <=> r.circle \in Circles
         /\ r.pc \in FreeLines => r.ret = "k_timer2"
    /\ t \notin ScreenTasks \cup KernelTasks => r = InitRegs("idle")

LiveOK == \A c \in Cores :
    IF current[c] \in Tasks THEN RegsOK(current[c], live[c]) ELSE live[c] = InitRegs("idle")

RegsInv ==
    /\ live \in [Cores -> Regs]
    /\ context \in [Tasks -> Regs]
    /\ \A t \in Tasks : RegsOK(t, context[t])
    /\ LiveOK
    /\ lockVal \in Tasks \cup {NoTask}
    /\ circles \in Seq(Circles)
    /\ heap \in SUBSET Circles

LEMMA InitRegsInv == DrawInit => RegsInv
<1> SUFFICES ASSUME DrawInit PROVE RegsInv
  OBVIOUS
<1>1. \A l \in {"idle", "get", "k_timer"} : InitRegs(l) \in Regs
  BY DEF InitRegs, Regs
<1>2. \A t \in Tasks : RegsOK(t, InitRegs(Entry(t)))
  BY <1>1, CirclesAssumption DEF Entry, RegsOK, InitRegs, ScreenTasks, KernelTasks, ScreenLines, KernelLines,
         ScreenHolding, KernelHolding, FreeLines
<1>3. LiveOK BY BootAssumption DEF DrawInit, Init, LiveOK
<1>4. \A t \in Tasks : Entry(t) \in {"idle", "get", "k_timer"} BY DEF Entry
<1> QED BY <1>1, <1>2, <1>3, <1>4 DEF DrawInit, RegsInv

\* Lines of a program that leave circles, mutex and heap alone, and where they go on.
PlainMoves(t, r) ==
    {<<"s_timer", "s_sleep">>, <<"k_timer", "k_sleep">>, <<"k_timer2", "k_sleep2">>,
     <<"s_sleep", "get">>, <<"k_sleep", "k_off">>, <<"k_sleep2", "k_timer">>,
     <<"get", "g_mark">>, <<"g_mark", "g_sleep">>, <<"g_sleep", "get">>,
     <<"g_owner", GetReturn(t)>>, <<"f_owner", "f_unlock">>, <<"f_wake", r.ret>>,
     <<"k_off", "k_heap">>, <<"k_heap", "k_alloc">>, <<"k_on", "get">>,
     <<"c_off", "c_add">>, <<"c_add", "c_grow">>,
     <<"s_off", "s_remove">>, <<"s_on", "s_pdis">>, <<"s_pdis", "s_draw">>,
     <<"s_draw", "s_off2">>, <<"s_off2", "s_heap">>, <<"s_heap", "s_delete">>,
     <<"s_on2", "s_pen">>}

PlainStep(c) ==
    /\ SameData
    /\ \E m \in PlainMoves(current[c], live[c]) :
          \/ Step(c, m[1], m[2])
          \/ Exec(c, m[1], [live[c] EXCEPT !.pc = m[2], !.core = NoCore])

\* Lines that call free(): they also say where it returns to.
CallFree(c) ==
    /\ SameData
    /\ \/ Exec(c, "c_on", [live[c] EXCEPT !.pc = "f_owner", !.ret = "k_timer2"])
       \/ Exec(c, "s_test", [live[c] EXCEPT !.pc = "f_owner", !.ret = "s_timer"])
       \/ Exec(c, "s_pen", [live[c] EXCEPT !.pc = "f_owner", !.ret = "get"])

\* A program step, seen from the registers and the data of the programs.
LEMMA ProgramEffect ==
    ASSUME NEW c \in Cores, Program(c)
    PROVE  /\ UNCHANGED current
           /\ \/ PlainStep(c)
              \/ ReadCore(c)
              \/ CallFree(c)
              \/ TestAndSetOk(c) \/ FreeUnlock(c)
              \/ AllocCircle(c)
              \/ AddCircle(c, "c_add") \/ AddCircle(c, "c_grow")
              \/ TestCircles(c) \/ RemoveCircle(c) \/ DeleteCircle(c)
<1>0. TaskStep(c) \/ UNCHANGED vars BY ProgramIsTask
<1>1. UNCHANGED current
  BY <1>0 DEF TaskStep, vars, SetTimer, SetSleepingOnLock, Sleep, SetOwner, SendWakeup,
       preemptDisable, preemptEnable, disableIRQ, enableIRQ, HeapLock, HeapRelease
<1>2. CASE TaskSleepMs(c) BY <1>1, <1>2 DEF TaskSleepMs, UseCore, PlainStep, PlainMoves
<1>3. CASE SpinlockGet(c)
  BY <1>1, <1>3 DEF SpinlockGet, TestAndSetBusy, GetMark, GetSleep, UseCore, Local, Call, PlainStep, PlainMoves
<1>4. CASE SpinlockFree(c)
  BY <1>1, <1>4 DEF SpinlockFree, FreeOwner, FreeWake, UseCore, Call, PlainStep, PlainMoves
<1>5. CASE KernelTask(c)
  BY <1>1, <1>5 DEF KernelTask, Call, CallFree, PlainStep, PlainMoves
<1>6. CASE ScreenTask(c)
  BY <1>1, <1>6 DEF ScreenTask, Local, Call, CallFree, PlainStep, PlainMoves
<1> QED BY <1>1, <1>2, <1>3, <1>4, <1>5, <1>6 DEF Program

\* What one line of a program does to the registers of the task that executes it.
LEMMA ExecRegsOK ==
    ASSUME RegsInv, NEW c \in Cores, Running(c),
           \/ PlainStep(c) \/ ReadCore(c) \/ CallFree(c) \/ TestAndSetOk(c) \/ FreeUnlock(c)
           \/ AllocCircle(c) \/ AddCircle(c, "c_add") \/ AddCircle(c, "c_grow")
           \/ TestCircles(c) \/ RemoveCircle(c) \/ DeleteCircle(c)
    PROVE  /\ RegsOK(current[c], live'[c])
           /\ live' = [live EXCEPT ![c] = live'[c]]
           /\ UNCHANGED context
<1> DEFINE t == current[c]
           r == live[c]
<1>1. t \in Tasks /\ RegsOK(t, r) /\ r \in Regs /\ live \in [Cores -> Regs]
  BY DEF Running, RegsInv, LiveOK, RegsOK
<1>2. t \in ScreenTasks \/ t \in KernelTasks BY DEF Running, KernelTasks
<1>3. ~(t \in ScreenTasks /\ t \in KernelTasks) BY DEF KernelTasks
<1> HIDE DEF t, r
<1> USE CirclesAssumption, <1>1, <1>2, <1>3
        DEF RegsOK, Regs, ScreenLines, KernelLines, ScreenHolding, KernelHolding, FreeLines
<1>4. CASE PlainStep(c)
  <2>1. PICK m \in PlainMoves(t, r) :
           Step(c, m[1], m[2]) \/ Exec(c, m[1], [r EXCEPT !.pc = m[2], !.core = NoCore])
    BY <1>4 DEF PlainStep, t, r
  <2>2. PICK q \in {[r EXCEPT !.pc = m[2]], [r EXCEPT !.pc = m[2], !.core = NoCore]} :
           r.pc = m[1] /\ live' = [live EXCEPT ![c] = q] /\ UNCHANGED context
    BY <2>1 DEF Step, Exec, r
  <2>3. RegsOK(t, q)
    <3>0. m[2] \in ScreenLines \cup KernelLines BY <2>2 DEF PlainMoves, GetReturn
    <3>1. q \in Regs /\ q.pc = m[2] /\ q.circle = r.circle /\ q.ret = r.ret
      <4>1. q \in {[r EXCEPT !.pc = m[2]], [r EXCEPT !.pc = m[2], !.core = NoCore]} OBVIOUS
      <4>2. r \in Regs BY <1>1
      <4> HIDE DEF Regs, ScreenLines, KernelLines, r
      <4> DEFINE l == m[2]
      <4>3. l \in ScreenLines \cup KernelLines /\ q \in {[r EXCEPT !.pc = l], [r EXCEPT !.pc = l, !.core = NoCore]}
        BY <3>0, <4>1
      <4> HIDE DEF l
      <4>4. ASSUME q = [r EXCEPT !.pc = l]
            PROVE  q \in Regs /\ q.pc = l /\ q.circle = r.circle /\ q.ret = r.ret
        BY ONLY <4>2, <4>3, <4>4 DEF Regs, ScreenLines, KernelLines, ScreenHolding, KernelHolding
      <4>5. ASSUME q = [r EXCEPT !.pc = l, !.core = NoCore]
            PROVE  q \in Regs /\ q.pc = l /\ q.circle = r.circle /\ q.ret = r.ret
        BY ONLY <4>2, <4>3, <4>5 DEF Regs, ScreenLines, KernelLines, ScreenHolding, KernelHolding
      <4>6. q \in Regs /\ q.pc = l /\ q.circle = r.circle /\ q.ret = r.ret
        <5>1. q = [r EXCEPT !.pc = l] \/ q = [r EXCEPT !.pc = l, !.core = NoCore] BY ONLY <4>3
        <5> QED BY ONLY <5>1, <4>4, <4>5
      <4> QED BY ONLY <4>6 DEF l
    <3>2. t \in ScreenTasks => q.pc \in ScreenLines /\ (q.pc \in ScreenHolding <=> r.pc \in ScreenHolding)
                               /\ (q.pc \in FreeLines => r.pc \in FreeLines)
      BY <2>2, <3>1 DEF PlainMoves, GetReturn
    <3>3. t \in KernelTasks => q.pc \in KernelLines /\ (q.pc \in KernelHolding <=> r.pc \in KernelHolding)
                               /\ (q.pc \in FreeLines => r.pc \in FreeLines)
      BY <2>2, <3>1 DEF PlainMoves, GetReturn
    <3> QED BY <3>1, <3>2, <3>3
  <2>4. live'[c] = q BY <2>2
  <2> QED BY <2>2, <2>3, <2>4 DEF t
<1>11. CASE ReadCore(c)
  <2>1. live' = [live EXCEPT ![c] = [r EXCEPT !.core = c]] /\ UNCHANGED context
    BY <1>11 DEF ReadCore, Exec, r
  <2>2. RegsOK(t, [r EXCEPT !.core = c]) OBVIOUS
  <2>3. live'[c] = [r EXCEPT !.core = c] BY <2>1
  <2> QED BY <2>1, <2>2, <2>3 DEF t
<1>0. ASSUME NEW from, NEW regs, Exec(c, from, regs), r.pc = from => RegsOK(t, regs)
      PROVE  RegsOK(t, live'[c]) /\ live' = [live EXCEPT ![c] = live'[c]] /\ UNCHANGED context
  <2>1. r.pc = from /\ live' = [live EXCEPT ![c] = regs] /\ UNCHANGED context
    BY <1>0 DEF Exec, r
  <2>2. live'[c] = regs BY <2>1
  <2> QED BY <1>0, <2>1, <2>2
<1>5. CASE CallFree(c)
  <2>1. CASE Exec(c, "c_on", [r EXCEPT !.pc = "f_owner", !.ret = "k_timer2"])
    <3>1. r.pc = "c_on" => RegsOK(t, [r EXCEPT !.pc = "f_owner", !.ret = "k_timer2"])
      OBVIOUS
    <3> QED BY <1>0, <2>1, <3>1 DEF t
  <2>2. CASE Exec(c, "s_test", [r EXCEPT !.pc = "f_owner", !.ret = "s_timer"])
    <3>1. r.pc = "s_test" => RegsOK(t, [r EXCEPT !.pc = "f_owner", !.ret = "s_timer"])
      OBVIOUS
    <3> QED BY <1>0, <2>2, <3>1 DEF t
  <2>3. CASE Exec(c, "s_pen", [r EXCEPT !.pc = "f_owner", !.ret = "get"])
    <3>1. r.pc = "s_pen" => RegsOK(t, [r EXCEPT !.pc = "f_owner", !.ret = "get"])
      OBVIOUS
    <3> QED BY <1>0, <2>3, <3>1 DEF t
  <2> QED BY <1>5, <2>1, <2>2, <2>3 DEF CallFree, r
<1>6. CASE TestAndSetOk(c) \/ FreeUnlock(c) \/ RemoveCircle(c)
  BY <1>6 DEF TestAndSetOk, FreeUnlock, RemoveCircle, Local, Step, Exec, t, r
<1>7. CASE AllocCircle(c)
  <2>1. PICK x \in Circles : Exec(c, "k_alloc", [r EXCEPT !.pc = "k_on", !.circle = x])
    BY <1>7 DEF AllocCircle, r
  <2>2. r.pc = "k_alloc" => RegsOK(t, [r EXCEPT !.pc = "k_on", !.circle = x])
    OBVIOUS
  <2> QED BY <1>0, <2>1, <2>2 DEF t
<1>9. CASE AddCircle(c, "c_add") \/ AddCircle(c, "c_grow")
  <2>1. PICK from \in {"c_add", "c_grow"} : Exec(c, from, [r EXCEPT !.pc = "c_on", !.circle = NoCircle])
    BY <1>9 DEF AddCircle, r
  <2>2. r.pc = from => RegsOK(t, [r EXCEPT !.pc = "c_on", !.circle = NoCircle])
    OBVIOUS
  <2> QED BY <1>0, <2>1, <2>2 DEF t
<1>10. CASE DeleteCircle(c)
  <2>1. Exec(c, "s_delete", [r EXCEPT !.pc = "s_on2", !.circle = NoCircle])
    BY <1>10 DEF DeleteCircle, r
  <2>2. r.pc = "s_delete" => RegsOK(t, [r EXCEPT !.pc = "s_on2", !.circle = NoCircle])
    OBVIOUS
  <2> QED BY <1>0, <2>1, <2>2 DEF t
<1>8. CASE TestCircles(c)
  <2>1. Len(circles) > 0 => Head(circles) \in Circles
    BY HeadTailProperties, EmptySeq DEF RegsInv
  <2>2. CASE Len(circles) > 0 /\ Exec(c, "s_test", [r EXCEPT !.pc = "s_off", !.circle = Head(circles)])
    <3>1. r.pc = "s_test" => RegsOK(t, [r EXCEPT !.pc = "s_off", !.circle = Head(circles)])
      BY <2>1, <2>2
    <3> QED BY <1>0, <2>2, <3>1 DEF t
  <2>3. CASE Exec(c, "s_test", [r EXCEPT !.pc = "f_owner", !.ret = "s_timer"])
    <3>1. r.pc = "s_test" => RegsOK(t, [r EXCEPT !.pc = "f_owner", !.ret = "s_timer"])
      OBVIOUS
    <3> QED BY <1>0, <2>3, <3>1 DEF t
  <2> QED BY <1>8, <2>2, <2>3 DEF TestCircles, r
<1> QED BY <1>4, <1>5, <1>6, <1>7, <1>8, <1>9, <1>10, <1>11 DEF t

\* The steps of the system, seen from the programs: the hardware and the handlers
\* leave them alone, reschedule switches registers, a program executes a line.
LEMMA StepKinds ==
    ASSUME [DrawNext]_sysVars
    PROVE  \/ UNCHANGED <<drawVars, current>>
           \/ \E c \in Cores, t \in Tasks : DrawReschedule(c, t)
           \/ \E c \in Cores : Program(c)
<1>1. CASE TimerMatch /\ UNCHANGED drawVars BY <1>1 DEF TimerMatch
<1>2. CASE \E t \in Tasks : Expire(t) /\ UNCHANGED drawVars BY <1>2 DEF Expire
<1>3. ASSUME NEW c \in Cores, Interrupt(c) /\ UNCHANGED drawVars PROVE UNCHANGED <<drawVars, current>>
  BY <1>3 DEF Interrupt, TakeIRQ
<1>4. ASSUME NEW c \in Cores, hpc[c] # "resched", HandlerStep(c), UNCHANGED drawVars
      PROVE  UNCHANGED <<drawVars, current>>
  <2>1. UNCHANGED current
    BY <1>4 DEF HandlerStep, At, WakeLock, WakeDone, CalcNextCore, WakeTimer, WakeLockWaiter,
         Reschedule, MoveLock, MoveRemove, GrowList, MoveAdd, SleepRemove, SleepLock, SleepAdd,
         RescheduleSkip, TickSend
  <2> QED BY <1>4, <2>1
<1>5. ASSUME NEW c \in Cores, RescheduleSkip(c) /\ UNCHANGED drawVars
      PROVE  UNCHANGED <<drawVars, current>>
  BY <1>5 DEF RescheduleSkip
<1>6. CASE UNCHANGED sysVars BY <1>6 DEF sysVars, vars
<1> QED BY <1>1, <1>2, <1>3, <1>4, <1>5, <1>6 DEF DrawNext, DrawHandler

\* reschedule saves the registers of the task it leaves, if it is one, and loads
\* those of the next.
LEMMA RescheduleRegs ==
    ASSUME TypeOK, RegsInv, NEW c \in Cores, NEW next \in Tasks, DrawReschedule(c, next)
    PROVE  RegsInv'
<1> DEFINE saved == IF current[c] = Boot THEN context
                    ELSE [context EXCEPT ![current[c]] = live[c]]
<1>1. /\ context' = saved
      /\ live' = [live EXCEPT ![c] = saved[next]]
      /\ UNCHANGED <<lockVal, circles, heap>>
      /\ current' = [current EXCEPT ![c] = next]
  BY DEF DrawReschedule, SwitchRegs, Reschedule
<1>2. current[c] # Boot => current[c] \in Tasks /\ RegsOK(current[c], live[c])
  BY DEF TypeOK, RegsInv, LiveOK
<1>3. saved \in [Tasks -> Regs] /\ \A t \in Tasks : RegsOK(t, saved[t])
  BY <1>2 DEF RegsInv
<1> HIDE DEF saved
<1>4. LiveOK'
  <2> SUFFICES ASSUME NEW d \in Cores
               PROVE  IF current'[d] \in Tasks THEN RegsOK(current'[d], live'[d])
                      ELSE live'[d] = InitRegs("idle")
    BY DEF LiveOK, RegsOK, ScreenTasks, KernelTasks
  <2>1. CASE d = c BY <2>1, <1>1, <1>3 DEF TypeOK, RegsInv
  <2>2. CASE d # c
    <3>1. current'[d] = current[d] /\ live'[d] = live[d] BY <2>2, <1>1 DEF TypeOK, RegsInv
    <3> QED BY <3>1 DEF RegsInv, LiveOK
  <2> QED BY <2>1, <2>2
<1>5. \A t \in Tasks : RegsOK(t, context'[t]) BY <1>1, <1>3
<1>6. live' \in [Cores -> Regs] BY <1>1, <1>3 DEF RegsInv
<1> QED BY <1>1, <1>3, <1>4, <1>5, <1>6 DEF RegsInv, RegsOK, ScreenTasks, KernelTasks

LEMMA ProgramRegs ==
    ASSUME TypeOK, RegsInv, NEW c \in Cores, Program(c)
    PROVE  RegsInv'
<1>1. UNCHANGED current BY ProgramEffect
<1>2. Running(c)
  BY ProgramEffect DEF PlainStep, ReadCore, CallFree, TestAndSetOk, FreeUnlock, AllocCircle, AddCircle,
       TestCircles, RemoveCircle, DeleteCircle, Local, Step, Exec
<1>3. /\ RegsOK(current[c], live'[c])
      /\ live' = [live EXCEPT ![c] = live'[c]]
      /\ UNCHANGED context
  BY <1>2, ProgramEffect, ExecRegsOK
<1>4. live' \in [Cores -> Regs]
  <2>1. live'[c] \in Regs BY <1>3 DEF RegsOK
  <2> QED BY <1>3, <2>1 DEF RegsInv
<1>5. LiveOK'
  <2> SUFFICES ASSUME NEW d \in Cores
               PROVE  IF current[d] \in Tasks THEN RegsOK(current[d], live'[d])
                      ELSE live'[d] = InitRegs("idle")
    BY <1>1 DEF LiveOK, RegsOK, ScreenTasks, KernelTasks
  <2>1. CASE d = c BY <2>1, <1>2, <1>3 DEF Running
  <2>2. CASE d # c
    <3>1. live'[d] = live[d] BY <2>2, <1>3 DEF RegsInv
    <3> QED BY <3>1 DEF RegsInv, LiveOK
  <2> QED BY <2>1, <2>2
<1>6. lockVal' \in Tasks \cup {NoTask} /\ circles' \in Seq(Circles) /\ heap' \in SUBSET Circles
  <2> USE DEF RegsInv
  <2>1. CASE PlainStep(c) \/ ReadCore(c) \/ CallFree(c) \/ TestCircles(c)
    BY <2>1 DEF PlainStep, ReadCore, CallFree, TestCircles, SameData
  <2>2. CASE TestAndSetOk(c) \/ FreeUnlock(c)
    BY <2>2, <1>2 DEF TestAndSetOk, FreeUnlock, Running
  <2>3. CASE AllocCircle(c) \/ DeleteCircle(c) BY <2>3 DEF AllocCircle, DeleteCircle
  <2>4. CASE AddCircle(c, "c_add") \/ AddCircle(c, "c_grow")
    <3>1. live[c].pc \in {"c_add", "c_grow"} BY <2>4 DEF AddCircle, Exec
    <3>2. RegsOK(current[c], live[c]) BY <1>2 DEF Running, LiveOK
    <3>3. current[c] \in ScreenTasks \/ current[c] \in KernelTasks BY <1>2 DEF Running, KernelTasks
    <3>4. live[c].circle \in Circles
      BY <3>1, <3>2, <3>3 DEF RegsOK, ScreenLines, ScreenHolding, KernelHolding
    <3> QED BY <2>4, <3>4, AppendProperties DEF AddCircle
  <2>5. CASE RemoveCircle(c) BY <2>5, HeadTailProperties DEF RemoveCircle
  <2> QED BY <2>1, <2>2, <2>3, <2>4, <2>5, ProgramEffect
<1> QED BY <1>3, <1>4, <1>5, <1>6 DEF RegsInv, RegsOK, ScreenTasks, KernelTasks

LEMMA NextRegsInv == TypeOK /\ RegsInv /\ [DrawNext]_sysVars => RegsInv'
<1> SUFFICES ASSUME TypeOK, RegsInv, [DrawNext]_sysVars PROVE RegsInv'
  OBVIOUS
<1>1. CASE UNCHANGED <<drawVars, current>>
  BY <1>1 DEF drawVars, RegsInv, LiveOK, RegsOK, ScreenTasks, KernelTasks
<1> QED BY <1>1, StepKinds, RescheduleRegs, ProgramRegs

\* Whatever preempts and moves the tasks, on any number of cores, the registers
\* of every task are those of its own program.
THEOREM DrawInvariance == DrawSpec => [](IInv /\ RegsInv)
<1>1. IInv => TypeOK BY DEF IInv
<1>2. DrawSpec => []IInv
  <2>1. DrawInit => Init BY DEF DrawInit
  <2>2. DrawSpec => Spec BY <2>1, DrawStepRefines, PTL DEF DrawSpec, Spec
  <2> QED BY <2>2, Inductive, PTL
<1> QED BY <1>1, <1>2, InitRegsInv, NextRegsInv, PTL DEF DrawSpec

\* Every variable of the programs, the mutex, the list and the contexts keeps its
\* type: in particular the list only ever holds circles.
THEOREM DrawTypeCorrect == DrawSpec => []DrawTypeOK
<1>1. IInv /\ RegsInv => DrawTypeOK BY DEF IInv, RegsInv, DrawTypeOK
<1> QED BY <1>1, DrawInvariance, PTL

-----------------------------------------------------------------------------
(* One core: a task is in one place, and fb_lock is a mutex.  On two cores a   *)
(* task can be current twice (run DrawMutex), and none of this holds.          *)

\* The registers of t on the only core there is.
Rg(t) == IF current[0] = t THEN live[0] ELSE context[t]

LEMMA OneCoreRegs ==
    ASSUME NUM_CORES = 1, NEW t \in Tasks
    PROVE  Cores = {0} /\ RegsOf(t) = {Rg(t)} /\ RegsOf(t)' = {Rg(t)'}
<1>1. Cores = {0} BY DEF Cores
<1> QED BY <1>1 DEF RegsOf, Rg

\* Between them, saving and restoring contexts keeps the registers of every task.
LEMMA SwitchKeepsRegs ==
    ASSUME NUM_CORES = 1, TypeOK, RegsInv,
           \/ UNCHANGED <<drawVars, current>>
           \/ \E c \in Cores, t \in Tasks : DrawReschedule(c, t)
    PROVE  (\A t \in Tasks : Rg(t)' = Rg(t)) /\ UNCHANGED <<lockVal, circles, heap>>
<1>1. CASE UNCHANGED <<drawVars, current>> BY <1>1 DEF drawVars, Rg
<1>2. ASSUME NEW c \in Cores, NEW next \in Tasks, DrawReschedule(c, next)
      PROVE  (\A t \in Tasks : Rg(t)' = Rg(t)) /\ UNCHANGED <<lockVal, circles, heap>>
  <2> DEFINE saved == IF current[0] = Boot THEN context
                      ELSE [context EXCEPT ![current[0]] = live[0]]
  <2>1. c = 0 /\ 0 \in Cores BY DEF Cores
  <2>2. /\ context' = saved
        /\ live' = [live EXCEPT ![0] = saved[next]]
        /\ UNCHANGED <<lockVal, circles, heap>>
        /\ current' = [current EXCEPT ![0] = next]
    BY <1>2, <2>1 DEF DrawReschedule, SwitchRegs, Reschedule
  <2>3. \A t \in Tasks : saved[t] = Rg(t)
    BY BootAssumption DEF TypeOK, RegsInv, Rg
  <2>4. current'[0] = next /\ live'[0] = saved[next] BY <2>1, <2>2 DEF TypeOK, RegsInv
  <2> HIDE DEF saved
  <2>5. \A t \in Tasks : Rg(t)' = saved[t] BY <2>2, <2>4 DEF Rg
  <2> QED BY <2>2, <2>3, <2>5
<1> QED BY <1>1, <1>2

\* A program line changes the registers of the current task only.
LEMMA ProgramKeepsOthers ==
    ASSUME NUM_CORES = 1, TypeOK, RegsInv, NEW c \in Cores, Program(c)
    PROVE  /\ c = 0 /\ Running(0) /\ UNCHANGED current
           /\ RegsOK(current[0], live[0]) /\ RegsOK(current[0], live'[0])
           /\ current[0] \in ScreenTasks \/ current[0] \in KernelTasks
           /\ live' = [live EXCEPT ![0] = live'[0]]
           /\ \A t \in Tasks : IF t = current[0] THEN Rg(t) = live[0] /\ Rg(t)' = live'[0]
                                                ELSE Rg(t)' = Rg(t)
<1>1. c = 0 /\ 0 \in Cores BY DEF Cores
<1>2. UNCHANGED current BY ProgramEffect
<1>3. Running(0)
  BY <1>1, ProgramEffect DEF PlainStep, ReadCore, CallFree, TestAndSetOk, FreeUnlock, AllocCircle, AddCircle,
       TestCircles, RemoveCircle, DeleteCircle, Local, Step, Exec
<1>4. RegsOK(current[0], live'[0]) /\ live' = [live EXCEPT ![0] = live'[0]] /\ UNCHANGED context
  BY <1>1, <1>3, ProgramEffect, ExecRegsOK
<1>5. RegsOK(current[0], live[0]) BY <1>1, <1>3 DEF Running, RegsInv, LiveOK
<1>6. current[0] \in ScreenTasks \/ current[0] \in KernelTasks BY <1>3 DEF Running, KernelTasks
<1> QED BY <1>1, <1>2, <1>3, <1>4, <1>5, <1>6 DEF Rg

\* Only a testAndSet that succeeds enters the critical section, and only the
\* unlock leaves it.
LEMMA CriticalMoves ==
    ASSUME NUM_CORES = 1, TypeOK, RegsInv, NEW c \in Cores, Program(c)
    PROVE  \/ TestAndSetOk(0) /\ lockVal = NoTask /\ lockVal' = current[0]
           \/ FreeUnlock(0) /\ live[0].pc \in Critical /\ live'[0].pc \notin Critical
           \/ UNCHANGED lockVal /\ (live'[0].pc \in Critical => live[0].pc \in Critical)
<1>0. c = 0 /\ 0 \in Cores /\ live \in [Cores -> Regs] BY DEF Cores, RegsInv
<1>r. RegsOK(current[0], live[0]) /\ (current[0] \in ScreenTasks \/ current[0] \in KernelTasks)
  BY ProgramKeepsOthers
<1>1. CASE PlainStep(c)
  <2>1. PICK m \in PlainMoves(current[0], live[0]) :
           \/ Step(0, m[1], m[2])
           \/ Exec(0, m[1], [live[0] EXCEPT !.pc = m[2], !.core = NoCore])
    BY <1>0, <1>1 DEF PlainStep
  <2>s. SameData BY <1>1 DEF PlainStep
  <2>2. live[0].pc = m[1] /\ live'[0].pc = m[2] /\ UNCHANGED lockVal
    BY <1>0, <2>1, <2>s DEF Step, Exec, SameData, Regs
  <2>3. m[1] \in FreeLines => live[0].ret \notin Critical
    BY <1>r, <2>2 DEF RegsOK, Critical
  <2>4. m[2] \in Critical => m[1] \in Critical
    BY <2>2, <2>3 DEF PlainMoves, Critical, GetReturn, FreeLines
  <2> QED BY <2>2, <2>4
<1>2. CASE CallFree(c)
  BY <1>0, <1>2 DEF CallFree, Exec, SameData, Regs, Critical
<1>3. CASE TestAndSetOk(c) BY <1>0, <1>3 DEF TestAndSetOk
<1>4. CASE FreeUnlock(c)
  BY <1>0, <1>4 DEF FreeUnlock, Local, Step, Exec, Regs, Critical
<1>5. CASE AllocCircle(c)
  BY <1>0, <1>5 DEF AllocCircle, Exec, Regs, Critical
<1>6. CASE AddCircle(c, "c_add") \/ AddCircle(c, "c_grow")
  BY <1>0, <1>6 DEF AddCircle, Exec, Regs, Critical
<1>7. CASE TestCircles(c)
  BY <1>0, <1>7 DEF TestCircles, Exec, SameData, Regs, Critical
<1>8. CASE RemoveCircle(c)
  BY <1>0, <1>8 DEF RemoveCircle, Local, Step, Exec, Regs, Critical
<1>9. CASE DeleteCircle(c)
  BY <1>0, <1>9 DEF DeleteCircle, Exec, Regs, Critical
<1>10. CASE ReadCore(c)
  BY <1>0, <1>10 DEF ReadCore, Exec, SameData, Regs
<1> QED BY <1>10, <1>1, <1>2, <1>3, <1>4, <1>5, <1>6, <1>7, <1>8, <1>9, ProgramEffect

LEMMA NextMutex ==
    ASSUME NUM_CORES = 1, TypeOK, RegsInv, MutualExclusion, [DrawNext]_sysVars
    PROVE  MutualExclusion'
<1>1. \A t \in Tasks : Rg(t).pc \in Critical => lockVal = t
  BY OneCoreRegs DEF MutualExclusion
<1>2. SUFFICES \A t \in Tasks : Rg(t)'.pc \in Critical => lockVal' = t
  BY OneCoreRegs DEF MutualExclusion
<1>3. CASE \/ UNCHANGED <<drawVars, current>>
           \/ \E c \in Cores, t \in Tasks : DrawReschedule(c, t)
  BY <1>1, <1>3, SwitchKeepsRegs
<1>4. ASSUME NEW c \in Cores, Program(c)
      PROVE  \A t \in Tasks : Rg(t)'.pc \in Critical => lockVal' = t
  <2>1. /\ current[0] \in Tasks
        /\ \A t \in Tasks : IF t = current[0] THEN Rg(t) = live[0] /\ Rg(t)' = live'[0]
                                             ELSE Rg(t)' = Rg(t)
    BY <1>4, ProgramKeepsOthers DEF Running
  <2>2. CASE lockVal = NoTask /\ lockVal' = current[0]
    BY <1>1, <2>1, <2>2, BootAssumption
  <2>3. CASE live[0].pc \in Critical /\ live'[0].pc \notin Critical
    BY <1>1, <2>1, <2>3
  <2>4. CASE UNCHANGED lockVal /\ (live'[0].pc \in Critical => live[0].pc \in Critical)
    BY <1>1, <2>1, <2>4
  <2> QED BY <1>4, <2>2, <2>3, <2>4, CriticalMoves
<1> QED BY <1>3, <1>4, StepKinds

\* On one core fb_lock is a mutex: wherever the tick preempts the tasks, only the
\* task whose testAndSet succeeded is between get() and free().
THEOREM MutexOnOneCore ==
    ASSUME NUM_CORES = 1
    PROVE  DrawSpec => []MutualExclusion
<1>1. IInv => TypeOK BY DEF IInv
<1>2. DrawInit => MutualExclusion
  <2> SUFFICES ASSUME DrawInit, NEW t \in Tasks PROVE Rg(t).pc \notin Critical
    BY OneCoreRegs DEF MutualExclusion
  <2>1. Rg(t) \in {InitRegs("idle"), InitRegs("get"), InitRegs("k_timer")}
    BY CoresFacts DEF DrawInit, Rg, Entry
  <2> QED BY <2>1 DEF InitRegs, Critical
<1>3. TypeOK /\ RegsInv /\ MutualExclusion /\ [DrawNext]_sysVars => MutualExclusion'
  BY NextMutex
<1> QED BY <1>1, <1>2, <1>3, DrawInvariance, PTL DEF DrawSpec

-----------------------------------------------------------------------------
(* One core: no circle is lost, freed twice or used after it was freed *)

RemoveLines == {"s_off", "s_remove"}

\* Allocated is what is listed or in a register; no circle is listed twice or in
\* two registers; a task that is about to remove a circle has the head of the
\* list, and nobody else has a circle that is still listed.
HeapExact == \A x \in Circles : x \in heap <=> x \in Listed \/ \E t \in Tasks : Rg(t).circle = x
ListedOnce == \A i, j \in 1 .. Len(circles) : circles[i] = circles[j] => i = j
HandsDisjoint == \A t, u \in Tasks : t # u /\ Rg(t).circle = Rg(u).circle => Rg(t).circle = NoCircle
RemovesHead == \A t \in Tasks : Rg(t).pc \in RemoveLines =>
                   Len(circles) > 0 /\ Rg(t).circle = circles[1]
OffList == \A t \in Tasks : Rg(t).circle \in Listed => Rg(t).pc \in RemoveLines

CirclesInv == HeapExact /\ ListedOnce /\ HandsDisjoint /\ RemovesHead /\ OffList

\* On one core a circle register that is set is in use.
LEMMA InHandIs ==
    ASSUME NUM_CORES = 1, TypeOK, RegsInv, NEW t \in Tasks
    PROVE  RegsOK(t, Rg(t)) /\ InHand(t) = {Rg(t).circle} \ {NoCircle}
<1>1. RegsOK(t, Rg(t))
  BY CoresFacts DEF RegsInv, LiveOK, Rg
<1>2. InHand(t) = {r.circle : r \in {q \in {Rg(t)} : q.pc \in Holding}} \ {NoCircle}
  BY OneCoreRegs DEF InHand
<1>3. CASE Rg(t).pc \in Holding BY <1>1, <1>2, <1>3
<1>4. CASE Rg(t).pc \notin Holding
  <2>1. Rg(t).circle = NoCircle
    BY <1>1, <1>4 DEF RegsOK, Regs, Holding, ScreenHolding, KernelHolding, InitRegs
  <2>2. {q \in {Rg(t)} : q.pc \in Holding} = {} BY <1>4
  <2>3. InHand(t) = {} BY <1>2, <2>2
  <2> QED BY <1>1, <2>1, <2>3
<1> QED BY <1>3, <1>4

\* A sequence without repetitions has as many elements as entries.
LEMMA DistinctLen ==
    ASSUME circles \in Seq(Circles), ListedOnce
    PROVE  Len(circles) = Cardinality(Listed)
<1> DEFINE n == Len(circles)
           f == [i \in 1 .. n |-> circles[i]]
<1>1. n \in Nat BY LenProperties
<1>2. f \in Surjection(1 .. n, Listed) BY DEF Surjection, Listed
<1>3. f \in Injection(1 .. n, Listed) BY <1>2 DEF Injection, IsInjective, Surjection, ListedOnce
<1>4. IsFiniteSet(1 .. n) /\ Cardinality(1 .. n) = n BY <1>1, FS_Interval
<1> HIDE DEF f, n
<1>5. Cardinality(Listed) = Cardinality(1 .. n) BY <1>2, <1>3, <1>4, FS_Surjection
<1> QED BY <1>4, <1>5 DEF n

LEMMA CirclesInvImplies ==
    ASSUME NUM_CORES = 1, TypeOK, RegsInv, CirclesInv
    PROVE  CirclesAccounted
<1>1. \A t \in Tasks : InHand(t) = {Rg(t).circle} \ {NoCircle} BY InHandIs
<1>2. \A t \in Tasks : Rg(t).circle \in Circles \cup {NoCircle} BY InHandIs DEF RegsOK, Regs
<1>3. Listed \subseteq Circles BY LenProperties DEF RegsInv, Listed
<1>4. heap = Listed \cup UNION {InHand(t) : t \in Tasks}
  BY <1>1, <1>2, <1>3, CirclesAssumption DEF CirclesInv, HeapExact, RegsInv
<1>5. \A t, u \in Tasks : t # u => InHand(t) \cap InHand(u) = {}
  BY <1>1 DEF CirclesInv, HandsDisjoint
<1> QED BY <1>4, <1>5, DistinctLen DEF CirclesInv, CirclesAccounted, RegsInv

\* What a line of a program does to the circle in the register, the list and the heap.
LEMMA CircleMoves ==
    ASSUME NUM_CORES = 1, TypeOK, RegsInv, NEW c \in Cores, Program(c)
    PROVE  LET r == live[0]
               q == live'[0]
           IN  \/ /\ q.circle = r.circle /\ UNCHANGED <<circles, heap>>
                  /\ r.pc # "s_remove"
                  /\ q.pc \in RemoveLines <=> r.pc \in RemoveLines
               \/ /\ r.pc = "s_test" /\ q.pc = "s_off" /\ Len(circles) > 0
                  /\ q.circle = Head(circles) /\ UNCHANGED <<circles, heap>>
               \/ /\ r.pc = "s_remove" /\ q.pc = "s_on" /\ q.circle = r.circle
                  /\ circles' = (IF circles = <<>> THEN circles ELSE Tail(circles))
                  /\ UNCHANGED heap
               \/ /\ r.pc = "s_delete" /\ q.pc = "s_on2" /\ q.circle = NoCircle
                  /\ heap' = heap \ {r.circle} /\ UNCHANGED circles
               \/ /\ r.pc = "k_alloc" /\ q.pc = "k_on"
                  /\ q.circle \in Circles \ heap
                  /\ heap' = heap \cup {q.circle} /\ UNCHANGED circles
               \/ /\ r.pc \in {"c_add", "c_grow"} /\ q.pc = "c_on" /\ q.circle = NoCircle
                  /\ circles' = Append(circles, r.circle) /\ UNCHANGED heap
<1>0. c = 0 /\ 0 \in Cores /\ live \in [Cores -> Regs] BY DEF Cores, RegsInv
<1>r. RegsOK(current[0], live[0]) BY ProgramKeepsOthers
<1> USE <1>0 DEF RemoveLines, Regs
<1>1. CASE PlainStep(c)
  <2>1. PICK m \in PlainMoves(current[0], live[0]) :
           \/ Step(0, m[1], m[2])
           \/ Exec(0, m[1], [live[0] EXCEPT !.pc = m[2], !.core = NoCore])
    BY <1>1 DEF PlainStep
  <2>s. UNCHANGED <<circles, heap>> BY <1>1 DEF PlainStep, SameData
  <2>2. /\ live[0].pc = m[1] /\ live'[0].pc = m[2] /\ live'[0].circle = live[0].circle
        /\ UNCHANGED <<circles, heap>>
    BY <2>1, <2>s DEF Step, Exec
  <2>3. m[1] = "f_wake" => live[0].ret \notin RemoveLines
    BY <1>r, <2>2 DEF RegsOK, FreeLines
  <2>4. /\ m[1] # "s_remove"
        /\ m[2] \in RemoveLines <=> m[1] \in RemoveLines
    BY <2>2, <2>3 DEF PlainMoves, GetReturn
  <2> QED BY <2>2, <2>4
<1>2. CASE CallFree(c)
  <2>1. /\ live[0].pc \in {"c_on", "s_test", "s_pen"}
        /\ live'[0].pc = "f_owner" /\ live'[0].circle = live[0].circle
    <3>1. CASE Exec(0, "c_on", [live[0] EXCEPT !.pc = "f_owner", !.ret = "k_timer2"])
      BY <3>1 DEF Exec
    <3>2. CASE Exec(0, "s_test", [live[0] EXCEPT !.pc = "f_owner", !.ret = "s_timer"])
      BY <3>2 DEF Exec
    <3>3. CASE Exec(0, "s_pen", [live[0] EXCEPT !.pc = "f_owner", !.ret = "get"])
      BY <3>3 DEF Exec
    <3> QED BY <1>2, <3>1, <3>2, <3>3 DEF CallFree
  <2> QED BY <1>2, <2>1 DEF CallFree, SameData
<1>3. CASE TestAndSetOk(c)
  BY <1>3 DEF TestAndSetOk, Local, Step, Exec
<1>4. CASE FreeUnlock(c)
  BY <1>4 DEF FreeUnlock, Local, Step, Exec
<1>5. CASE AllocCircle(c)
  BY <1>5 DEF AllocCircle, Exec
<1>6. CASE AddCircle(c, "c_add") \/ AddCircle(c, "c_grow")
  <2>1. /\ live[0].pc \in {"c_add", "c_grow"}
        /\ live'[0].pc = "c_on" /\ live'[0].circle = NoCircle
    <3>1. live[0].pc \in {"c_add", "c_grow"} BY <1>6 DEF AddCircle, Exec
    <3>2. live' = [live EXCEPT ![0] = [live[0] EXCEPT !.pc = "c_on", !.circle = NoCircle]]
      BY <1>6 DEF AddCircle, Exec
    <3>3. live'[0] = [live[0] EXCEPT !.pc = "c_on", !.circle = NoCircle] BY <3>2
    <3> QED BY <3>1, <3>3
  <2> QED BY <1>6, <2>1 DEF AddCircle
<1>7. CASE TestCircles(c)
  <2>1. \/ /\ live[0].pc = "s_test" /\ live'[0].pc = "f_owner"
           /\ live'[0].circle = live[0].circle
        \/ /\ live[0].pc = "s_test" /\ live'[0].pc = "s_off" /\ Len(circles) > 0
           /\ live'[0].circle = Head(circles)
    <3>1. CASE /\ Len(circles) > 0
               /\ Exec(0, "s_test", [live[0] EXCEPT !.pc = "s_off", !.circle = Head(circles)])
      BY <3>1 DEF Exec
    <3>2. CASE Exec(0, "s_test", [live[0] EXCEPT !.pc = "f_owner", !.ret = "s_timer"])
      BY <3>2 DEF Exec
    <3> QED BY <1>7, <3>1, <3>2 DEF TestCircles
  <2> QED BY <1>7, <2>1 DEF TestCircles, SameData
<1>8. CASE RemoveCircle(c)
  BY <1>8 DEF RemoveCircle, Local, Step, Exec
<1>9. CASE DeleteCircle(c)
  BY <1>9 DEF DeleteCircle, Exec
<1>10. CASE ReadCore(c)
  BY <1>10 DEF ReadCore, Exec, SameData, CoreLines
<1> QED BY <1>10, <1>1, <1>2, <1>3, <1>4, <1>5, <1>6, <1>7, <1>8, <1>9, ProgramEffect

LEMMA NextCirclesInv ==
    ASSUME NUM_CORES = 1, TypeOK, RegsInv, MutualExclusion, CirclesInv, [DrawNext]_sysVars
    PROVE  CirclesInv'
<1> USE DEF CirclesInv, HeapExact, ListedOnce, HandsDisjoint, RemovesHead, OffList
<1>1. CASE \/ UNCHANGED <<drawVars, current>>
           \/ \E c \in Cores, t \in Tasks : DrawReschedule(c, t)
  BY <1>1, SwitchKeepsRegs DEF Listed
<1>2. ASSUME NEW c \in Cores, Program(c) PROVE CirclesInv'
  <2> DEFINE me == current[0]
             r == live[0]
             q == live'[0]
  <2>1. /\ me \in Tasks /\ RegsOK(me, r) /\ RegsOK(me, q)
        /\ me \in ScreenTasks \/ me \in KernelTasks
        /\ \A t \in Tasks : IF t = me THEN Rg(t) = r /\ Rg(t)' = q ELSE Rg(t)' = Rg(t)
    BY <1>2, ProgramKeepsOthers DEF Running
  <2>2. \A t \in Tasks : Rg(t).pc \in Critical => lockVal = t
    BY OneCoreRegs DEF MutualExclusion
  <2>3. /\ circles \in Seq(Circles) /\ heap \in SUBSET Circles
        /\ Len(circles) \in Nat /\ Listed \subseteq Circles
    BY LenProperties DEF RegsInv, Listed
  <2>4. \A t \in Tasks : Rg(t).circle \in Circles \cup {NoCircle}
    BY InHandIs DEF RegsOK, Regs
  <2>m. r.pc \in Critical => \A t \in Tasks : t # me => Rg(t).pc \notin RemoveLines
    BY <2>1, <2>2 DEF Critical, RemoveLines
  <2> HIDE DEF me, r, q
  <2>5. CASE /\ q.circle = r.circle /\ UNCHANGED <<circles, heap>>
             /\ r.pc # "s_remove"
             /\ q.pc \in RemoveLines <=> r.pc \in RemoveLines
    BY <2>1, <2>5 DEF Listed
  <2>6. CASE /\ r.pc = "s_test" /\ q.pc = "s_off" /\ Len(circles) > 0
             /\ q.circle = Head(circles) /\ UNCHANGED <<circles, heap>>
    <3>1. q.circle = circles[1] /\ q.circle \in Listed BY <2>3, <2>6 DEF Listed
    <3>2. r.circle = NoCircle
      BY <2>1, <2>6 DEF RegsOK, Regs, ScreenHolding, KernelHolding, KernelLines
    <3>3. Listed' = Listed BY <2>6 DEF Listed
    <3>4. \A t \in Tasks : t # me => Rg(t).circle # q.circle
      BY <2>6, <2>m, <3>1 DEF Critical
    <3>5. q.pc \in RemoveLines BY <2>6 DEF RemoveLines
    <3>6. HeapExact' BY <2>1, <2>3, <2>6, <3>1, <3>2, <3>3, CirclesAssumption
    <3>7. HandsDisjoint' BY <2>1, <3>4
    <3>8. RemovesHead' /\ OffList' BY <2>1, <2>6, <3>1, <3>3, <3>5
    <3> QED BY <2>6, <3>6, <3>7, <3>8
  <2>7. CASE /\ r.pc = "s_remove" /\ q.pc = "s_on" /\ q.circle = r.circle
             /\ circles' = (IF circles = <<>> THEN circles ELSE Tail(circles))
             /\ UNCHANGED heap
    <3>1. Len(circles) > 0 /\ r.circle = circles[1]
      BY <2>1, <2>7 DEF RemoveLines
    <3>2. /\ circles' = Tail(circles) /\ Len(circles') = Len(circles) - 1
          /\ \A i \in 1 .. Len(circles') : circles'[i] = circles[i + 1]
      BY <2>3, <2>7, <3>1, HeadTailProperties, EmptySeq
    <3>3. Listed' = Listed \ {r.circle}
      <4>1. Listed' \subseteq Listed BY <2>3, <3>2 DEF Listed
      <4>2. r.circle \notin Listed' BY <2>3, <3>1, <3>2 DEF Listed
      <4>3. ASSUME NEW x \in Listed, x # r.circle PROVE x \in Listed'
        <5>1. PICK i \in 1 .. Len(circles) : circles[i] = x BY DEF Listed
        <5>2. i # 1 BY <3>1, <4>3, <5>1
        <5>3. i - 1 \in 1 .. Len(circles') /\ circles'[i - 1] = x
          BY <2>3, <3>2, <5>1, <5>2
        <5> QED BY <5>3 DEF Listed
      <4>4. \A x \in Listed : x # r.circle => x \in Listed' BY <4>3
      <4> QED BY <4>1, <4>2, <4>4
    <3>4. ListedOnce' BY <2>3, <3>2
    <3>5. HeapExact' BY <2>1, <2>3, <2>7, <3>3
    <3>6. RemovesHead' BY <2>1, <2>7, <2>m DEF Critical, RemoveLines
    <3>7. OffList' BY <2>1, <2>7, <3>3 DEF RemoveLines
    <3>8. HandsDisjoint' BY <2>1, <2>7
    <3> QED BY <3>4, <3>5, <3>6, <3>7, <3>8
  <2>8. CASE /\ r.pc = "s_delete" /\ q.pc = "s_on2" /\ q.circle = NoCircle
             /\ heap' = heap \ {r.circle} /\ UNCHANGED circles
    <3>1. r.circle \in Circles
      BY <2>1, <2>8 DEF RegsOK, KernelLines, KernelHolding, ScreenHolding
    <3>2. Listed' = Listed /\ r.circle \notin Listed BY <2>1, <2>8 DEF Listed, RemoveLines
    <3>3. \A t \in Tasks : t # me => Rg(t).circle # r.circle
      BY <2>1, <3>1, CirclesAssumption
    <3>4. HeapExact' BY <2>1, <2>3, <2>8, <3>1, <3>2, <3>3, CirclesAssumption
    <3>5. HandsDisjoint' BY <2>1, <2>8
    <3>6. RemovesHead' /\ OffList'
      BY <2>1, <2>3, <2>8, <3>2, CirclesAssumption DEF RemoveLines
    <3> QED BY <2>8, <3>4, <3>5, <3>6
  <2>9. CASE /\ r.pc = "k_alloc" /\ q.pc = "k_on"
             /\ q.circle \in Circles \ heap
             /\ heap' = heap \cup {q.circle} /\ UNCHANGED circles
    <3>1. r.circle = NoCircle
      BY <2>1, <2>9 DEF RegsOK, Regs, ScreenLines, ScreenHolding, KernelHolding
    <3>2. Listed' = Listed /\ q.circle \notin Listed BY <2>9 DEF Listed
    <3>3. \A t \in Tasks : Rg(t).circle # q.circle BY <2>9
    <3>4. HeapExact' BY <2>1, <2>3, <2>9, <3>1, <3>2, <3>3, CirclesAssumption
    <3>5. HandsDisjoint' BY <2>1, <3>3
    <3>6. RemovesHead' /\ OffList' BY <2>1, <2>9, <3>2 DEF RemoveLines
    <3> QED BY <2>9, <3>4, <3>5, <3>6
  <2>10. CASE /\ r.pc \in {"c_add", "c_grow"} /\ q.pc = "c_on" /\ q.circle = NoCircle
              /\ circles' = Append(circles, r.circle) /\ UNCHANGED heap
    <3>1. r.circle \in Circles
      BY <2>1, <2>10 DEF RegsOK, ScreenLines, ScreenHolding, KernelHolding
    <3>2. /\ Len(circles') = Len(circles) + 1 /\ circles'[Len(circles) + 1] = r.circle
          /\ \A i \in 1 .. Len(circles) : circles'[i] = circles[i]
      BY <2>3, <2>10, <3>1, AppendProperties
    <3>3. Listed' = Listed \cup {r.circle}
      <4>1. \A i \in 1 .. Len(circles') : i = Len(circles) + 1 \/ i \in 1 .. Len(circles)
        BY <2>3, <3>2
      <4>2. 1 .. Len(circles) \subseteq 1 .. Len(circles') /\ Len(circles) + 1 \in 1 .. Len(circles')
        BY <2>3, <3>2
      <4> QED BY <3>2, <4>1, <4>2 DEF Listed
    <3>4. r.circle \notin Listed BY <2>1, <2>10 DEF RemoveLines
    <3>5. ListedOnce'
      <4> SUFFICES ASSUME NEW i \in 1 .. Len(circles'), NEW j \in 1 .. Len(circles'),
                          circles'[i] = circles'[j]
                   PROVE  i = j
        OBVIOUS
      <4>1. \A k \in 1 .. Len(circles') : k \in 1 .. Len(circles) \/ k = Len(circles) + 1
        BY <2>3, <3>2
      <4>2. \A k \in 1 .. Len(circles) : circles'[k] # r.circle BY <3>2, <3>4 DEF Listed
      <4> QED BY <3>2, <4>1, <4>2
    <3>6. \A t \in Tasks : t # me => Rg(t).circle # r.circle
      BY <2>1, <3>1, CirclesAssumption
    <3>7. HeapExact' BY <2>1, <2>3, <2>10, <3>1, <3>3, <3>6, CirclesAssumption
    <3>8. HandsDisjoint' BY <2>1, <2>10
    <3>9. RemovesHead' BY <2>1, <2>10, <2>m DEF Critical, RemoveLines
    <3>10. OffList' BY <2>1, <2>3, <2>10, <3>1, <3>3, <3>6, CirclesAssumption
    <3> QED BY <3>5, <3>7, <3>8, <3>9, <3>10
  <2> QED BY <1>2, <2>5, <2>6, <2>7, <2>8, <2>9, <2>10, CircleMoves DEF r, q
<1> QED BY <1>1, <1>2, StepKinds

\* On one core every circle is accounted for at every step: what is allocated is
\* on the list or in exactly one task's hands, so no circle leaks, none is freed
\* twice and none is drawn after it was freed.
THEOREM CirclesOnOneCore ==
    ASSUME NUM_CORES = 1
    PROVE  DrawSpec => []CirclesAccounted
<1>1. DrawInit => CirclesInv
  <2> SUFFICES ASSUME DrawInit PROVE CirclesInv
    OBVIOUS
  <2>1. \A t \in Tasks : Rg(t) \in {InitRegs("idle"), InitRegs("get"), InitRegs("k_timer")}
    BY CoresFacts DEF DrawInit, Rg, Entry
  <2>2. \A t \in Tasks : Rg(t).circle = NoCircle /\ Rg(t).pc \notin RemoveLines
    BY <2>1 DEF InitRegs, RemoveLines
  <2>3. circles = <<>> /\ Len(circles) = 0 /\ Listed = {} /\ heap = {}
    BY EmptySeq DEF DrawInit, Listed
  <2> QED BY <2>2, <2>3, CirclesAssumption
       DEF CirclesInv, HeapExact, ListedOnce, HandsDisjoint, RemovesHead, OffList
<1>2. IInv => TypeOK BY DEF IInv
<1>3. TypeOK /\ RegsInv /\ MutualExclusion /\ CirclesInv /\ [DrawNext]_sysVars => CirclesInv'
  BY NextCirclesInv
<1>4. TypeOK /\ RegsInv /\ CirclesInv => CirclesAccounted BY CirclesInvImplies
<1> QED BY <1>1, <1>2, <1>3, <1>4, DrawInvariance, MutexOnOneCore, PTL DEF DrawSpec

-----------------------------------------------------------------------------
(* One core: whoever sleeps will be woken.  The task the SLEEP handler takes off *)
(* its queue is the one that asked for it, because nothing is scheduled between  *)
(* the request and the handler; with a second core a RESCHEDULE can come first   *)
(* (run DrawOrphan).                                                             *)

\* What the programs need of the scheduler, on one core, where no SLEEP can go astray.
Sound == TypeInv /\ Partitioned /\ CurrentOnQueue

LEMMA OneCoreSound ==
    ASSUME NUM_CORES = 1
    PROVE  DrawSpec => []Sound
<1>1. Init => ~strayed BY DEF Init
<1>2. ~strayed /\ [DrawNext]_sysVars => ~strayed'
  <2> SUFFICES ASSUME ~strayed, [DrawNext]_sysVars PROVE ~strayed'
    OBVIOUS
  <2>1. [Next]_vars BY DrawStepRefines
  <2> QED BY <2>1, StrayNeedsCores
<1>3. IInv /\ ~strayed => Sound BY Layers DEF QueueInv, Sound
<1>4. DrawInit => Init BY DEF DrawInit
<1> QED BY <1>1, <1>2, <1>3, <1>4, DrawInvariance, PTL DEF DrawSpec

Wakeable(t) == timer[t] # "off" \/ sleepingOnLock[t]

\* Lines at which a request to sleep can be outstanding, and lines that make one.
WaitLines == {"get", "k_off", "k_timer", "g_owner", "g_mark"}
TimedLines == {"s_sleep", "k_sleep", "k_sleep2"}

SleepFirst == /\ RESCHEDULE \notin pending[0]
              /\ SLEEP \in pending[0] => hpc[0] = "task" /\ ~irqOff[0]
RequestWakeable ==
    SLEEP \in pending[0] \/ hpc[0] \in {"sl_remove", "sl_lock", "sl_heap", "sl_add"} =>
        Wakeable(current[0]) /\ \A t \in Tasks : t = current[0] => Rg(t).pc \in WaitLines
AsleepWakeable ==
    \A t \in sleepingQ : Rg(t).pc \in WaitLines /\ (t # ht[0] => Wakeable(t))
MovingOne ==
    ht[0] # NoTask => hpc[0] \in {"calc", "mv_lock", "mv_remove", "mv_heap", "mv_add", "panic"}
AskedFor ==
    \A t \in Tasks : /\ Rg(t).pc \in TimedLines => timer[t] # "off"
                     /\ Rg(t).pc = "g_sleep" => sleepingOnLock[t]

SleepInv == SleepFirst /\ RequestWakeable /\ AsleepWakeable /\ MovingOne /\ AskedFor

LEMMA InitSleepInv ==
    ASSUME NUM_CORES = 1, DrawInit
    PROVE  SleepInv
<1>1. \A t \in Tasks : Rg(t) \in {InitRegs("idle"), InitRegs("get"), InitRegs("k_timer")}
  BY CoresFacts DEF DrawInit, Rg, Entry
<1>2. \A t \in Tasks : Rg(t).pc \notin TimedLines /\ Rg(t).pc # "g_sleep"
  BY <1>1 DEF InitRegs, TimedLines
<1> QED BY <1>2, CoresFacts DEF DrawInit, Init, SleepInv, SleepFirst, RequestWakeable,
     AsleepWakeable, MovingOne, AskedFor

\* The wake-up loops clear the timer or the lock of the task they wake, and of no other.
LEMMA WakeSleepInv ==
    ASSUME NUM_CORES = 1, Sound, SleepInv, NEW c \in Cores,
           \A t \in Tasks : Rg(t)' = Rg(t),
           \/ WakeLock(c) \/ WakeDone(c)
           \/ \E t \in Tasks : WakeTimer(c, t) \/ WakeLockWaiter(c, t)
    PROVE  SleepInv'
<1>0. c = 0 /\ 0 \in Cores BY DEF Cores
<1> USE <1>0 DEF Sound, TypeInv, TypeOK, SleepInv, SleepFirst, RequestWakeable, AsleepWakeable,
        MovingOne, AskedFor, Wakeable, queueVars, taskVars, lockVars, gicVars, calcVars,
        At, Goto, GoOn
<1>1. CASE WakeLock(c) BY <1>1 DEF WakeLock
<1>2. CASE WakeDone(c) BY <1>2 DEF WakeDone
<1>3. ASSUME NEW t \in Tasks, WakeTimer(c, t) \/ WakeLockWaiter(c, t) PROVE SleepInv'
  <2>1. /\ hpc[0] \in {"wt_scan", "wl_scan"} /\ t \in sleepingQ
        /\ ht' = [ht EXCEPT ![0] = t] /\ hpc'[0] \in {"calc", "mv_lock"}
        /\ UNCHANGED <<sleepingQ, pending, irqOff, current>>
    BY <1>3 DEF WakeTimer, WakeLockWaiter, StartCalc
  <2>2. \A u \in Tasks : u # t => timer'[u] = timer[u] /\ sleepingOnLock'[u] = sleepingOnLock[u]
    BY <1>3 DEF WakeTimer, WakeLockWaiter
  <2>3. ht[0] = NoTask /\ ht'[0] = t BY <2>1
  <2>4. SleepFirst' /\ RequestWakeable' /\ MovingOne' BY <2>1
  <2>5. AsleepWakeable' BY <2>1, <2>2, <2>3, BootAssumption
  <2>6. AskedFor' BY <2>1, <2>2 DEF WaitLines, TimedLines
  <2> QED BY <2>4, <2>5, <2>6
<1> QED BY <1>1, <1>2, <1>3

LEMMA MoveSleepInv ==
    ASSUME NUM_CORES = 1, Sound, SleepInv, NEW c \in Cores,
           \A t \in Tasks : Rg(t)' = Rg(t),
           CalcNextCore(c) \/ MoveLock(c) \/ MoveRemove(c) \/ GrowList(c) \/ MoveAdd(c)
    PROVE  SleepInv'
<1>0. c = 0 /\ 0 \in Cores BY DEF Cores
<1> USE <1>0 DEF Sound, TypeInv, TypeOK, SleepInv, SleepFirst, RequestWakeable, AsleepWakeable,
        MovingOne, AskedFor, Wakeable, queueVars, taskVars, lockVars, gicVars, calcVars, wakeVars,
        At, Goto, GoOn
<1>1. CASE CalcNextCore(c) BY <1>1 DEF CalcNextCore
<1>2. CASE MoveLock(c) BY <1>2 DEF MoveLock
<1>3. CASE MoveRemove(c)
  <2>1. sleepingQ' \subseteq sleepingQ BY <1>3, RemoveElementShrinks DEF MoveRemove, Left
  <2> QED BY <1>3, <2>1 DEF MoveRemove
<1>4. CASE GrowList(c) BY <1>4 DEF GrowList
<1>5. CASE MoveAdd(c)
  <2>1. ht[0] \notin sleepingQ
    BY <1>5 DEF MoveAdd, RegistersOK, Partitioned, InTransit
  <2>2. /\ ht'[0] = NoTask /\ hpc'[0] \in {"wt_scan", "wl_scan"}
        /\ UNCHANGED <<sleepingQ, pending, irqOff, current, timer, sleepingOnLock>>
    BY <1>5 DEF MoveAdd
  <2> QED BY <1>5, <2>1, <2>2 DEF MoveAdd
<1> QED BY <1>1, <1>2, <1>3, <1>4, <1>5

LEMMA SleepSleepInv ==
    ASSUME NUM_CORES = 1, Sound, SleepInv, NEW c \in Cores,
           \A t \in Tasks : Rg(t)' = Rg(t),
           \/ SleepRemove(c) \/ SleepLock(c) \/ SleepAdd(c)
           \/ RescheduleSkip(c) \/ TickSend(c) \/ \E t \in Tasks : Reschedule(c, t)
    PROVE  SleepInv'
<1>0. c = 0 /\ 0 \in Cores BY DEF Cores
<1> USE <1>0 DEF Sound, TypeInv, TypeOK, SleepInv, SleepFirst, RequestWakeable, AsleepWakeable,
        MovingOne, AskedFor, Wakeable, queueVars, taskVars, lockVars, gicVars, calcVars, wakeVars,
        At, Goto, GoOn, AfterResched
<1>1. CASE SleepRemove(c) BY <1>1 DEF SleepRemove
<1>2. CASE SleepLock(c) BY <1>2 DEF SleepLock
<1>3. CASE SleepAdd(c)
  <2>1. hpc[0] = "sl_add" /\ hpc'[0] = "resched" /\ sleepingQ' = sleepingQ \cup {current[0]}
    BY <1>3 DEF SleepAdd
  <2>2. UNCHANGED <<pending, irqOff, current, timer, sleepingOnLock, ht>> BY <1>3 DEF SleepAdd
  <2>3. current[0] \in Tasks BY <2>1 DEF RegistersOK
  <2>4. AsleepWakeable' BY <2>1, <2>2, <2>3
  <2> QED BY <2>1, <2>2, <2>4
<1>4. CASE RescheduleSkip(c) BY <1>4 DEF RescheduleSkip
<1>5. CASE TickSend(c) BY <1>5 DEF TickSend
<1>6. CASE \E t \in Tasks : Reschedule(c, t) BY <1>6 DEF Reschedule
<1> QED BY <1>1, <1>2, <1>3, <1>4, <1>5, <1>6

\* SLEEP has the lowest id that can be pending on one core: it is served first.
LEMMA HardwareSleepInv ==
    ASSUME NUM_CORES = 1, Sound, SleepInv,
           \A t \in Tasks : Rg(t)' = Rg(t),
           \/ TimerMatch
           \/ \E t \in Tasks : Expire(t)
           \/ \E c \in Cores : Interrupt(c)
    PROVE  SleepInv'
<1>0. Cores = {0} BY DEF Cores
<1> USE <1>0 DEF Sound, TypeInv, TypeOK, SleepInv, SleepFirst, RequestWakeable, AsleepWakeable,
        MovingOne, AskedFor, Wakeable, queueVars, taskVars, lockVars, gicVars, calcVars, wakeVars,
        At, Goto, send_sgi
<1>1. CASE TimerMatch BY <1>1 DEF TimerMatch, TIMER1, SLEEP, RESCHEDULE
<1>2. CASE \E t \in Tasks : Expire(t) BY <1>2 DEF Expire
<1>3. CASE \E c \in Cores : Interrupt(c)
  <2>1. PICK irq \in Irqs : TakeIRQ(0, irq) BY <1>3 DEF Interrupt
  <2>2. SLEEP \in pending[0] => irq = SLEEP
    BY <2>1 DEF TakeIRQ, Irqs, SLEEP, RESCHEDULE, WAKEUP, TIMER1
  <2>3. hpc'[0] = FirstPc(irq) /\ pending'[0] = pending[0] \ {irq} /\ irq \in pending[0]
    BY <2>1 DEF TakeIRQ
  <2>4. /\ irq = SLEEP => FirstPc(irq) = "sl_remove"
        /\ irq # SLEEP => FirstPc(irq) \in {"wt_lock", "resched"}
    BY DEF FirstPc, Irqs, SLEEP, RESCHEDULE, WAKEUP, TIMER1
  <2>5. UNCHANGED <<sleepingQ, current, timer, sleepingOnLock, irqOff, ht>> BY <2>1 DEF TakeIRQ
  <2> QED BY <2>1, <2>2, <2>3, <2>4, <2>5 DEF TakeIRQ
<1> QED BY <1>1, <1>2, <1>3

\* Which call into the scheduler each line of a program makes.
LEMMA ProgramCalls ==
    ASSUME NUM_CORES = 1, TypeOK, RegsInv, NEW c \in Cores, Program(c)
    PROVE  LET l == live[0].pc
               m == live'[0].pc
           IN  /\ Prompt(0)
               /\ \/ UNCHANGED vars /\ l = m /\ l # "get"
                  \/ UNCHANGED vars /\ (l = "get" => m \in WaitLines)
                     /\ m \notin TimedLines /\ m # "g_sleep"
                  \/ SetTimer(0, current[0]) /\ l # "get" /\ m # "g_sleep"
                  \/ SetSleepingOnLock(0, current[0]) /\ l # "get" /\ m \notin TimedLines
                  \/ Sleep(0, 0) /\ l \in TimedLines \cup {"g_sleep"} /\ m \in {"get", "k_off", "k_timer"}
                  \/ /\ \/ SetOwner(0) \/ SendWakeup(0, 0) \/ preemptDisable(0) \/ preemptEnable(0)
                        \/ disableIRQ(0) \/ enableIRQ(0) \/ HeapLock(0) \/ HeapRelease(0)
                     /\ l # "get" /\ m \notin TimedLines /\ m # "g_sleep"
<1>0. c = 0 /\ 0 \in Cores /\ live \in [Cores -> Regs] BY DEF Cores, RegsInv
<1>r. /\ RegsOK(current[0], live[0])
      /\ current[0] \in ScreenTasks \/ current[0] \in KernelTasks
  BY ProgramKeepsOthers
<1>p. Prompt(0)
  BY <1>0, ProgramEffect DEF PlainStep, ReadCore, CallFree, TestAndSetOk, FreeUnlock, AllocCircle, AddCircle,
       TestCircles, RemoveCircle, DeleteCircle, Local, Step, Exec
<1>s. \A from, to : Step(0, from, to) => live[0].pc = from /\ live'[0].pc = to
  BY <1>0 DEF Step, Exec, Regs
<1>u. \A from, to : UseCore(0, from, to) => live[0].pc = from /\ live'[0].pc = to /\ CoreOf(0) = 0
  BY <1>0 DEF UseCore, Exec, Regs, CoreOf, Cores
<1> USE <1>0, <1>p DEF WaitLines, TimedLines
<1>1. CASE TaskSleepMs(c) BY <1>1, <1>u DEF TaskSleepMs
<1>2. CASE SpinlockGet(c)
  BY <1>2, <1>s, <1>u DEF SpinlockGet, TestAndSetOk, TestAndSetBusy, GetMark, GetSleep, Local,
       Call, GetReturn
<1>3. CASE SpinlockFree(c)
  <2>1. live[0].pc = "f_wake" => live[0].ret \in {"get", "s_timer", "k_timer2"}
    BY <1>r DEF RegsOK, FreeLines
  <2> QED BY <1>3, <1>s, <1>u, <2>1 DEF SpinlockFree, FreeOwner, FreeUnlock, FreeWake, Local, Call
<1>4. CASE KernelTask(c)
  <2>1. CASE AllocCircle(c)
    <3>1. live[0].pc = "k_alloc" /\ live'[0].pc = "k_on" BY <2>1 DEF AllocCircle, Exec, Regs
    <3> QED BY <2>1, <3>1 DEF AllocCircle
  <2>2. CASE \E from \in {"c_add", "c_grow"} : AddCircle(c, from) /\ (UNCHANGED vars \/ HeapRelease(c))
    <3>1. live[0].pc \in {"c_add", "c_grow"} /\ live'[0].pc = "c_on" BY <2>2 DEF AddCircle, Exec, Regs
    <3> QED BY <2>2, <3>1
  <2>3. CASE /\ enableIRQ(c)
             /\ Exec(c, "c_on", [live[c] EXCEPT !.pc = "f_owner", !.ret = "k_timer2"])
    <3>1. live[0].pc = "c_on" /\ live'[0].pc = "f_owner" BY <2>3 DEF Exec, Regs
    <3> QED BY <2>3, <3>1
  <2>4. CASE \/ disableIRQ(c) /\ (Call(c, "k_off", "k_heap") \/ Call(c, "c_off", "c_add"))
             \/ HeapLock(c) /\ (Call(c, "k_heap", "k_alloc") \/ Call(c, "c_add", "c_grow"))
             \/ enableIRQ(c) /\ Call(c, "k_on", "get")
    BY <1>s, <2>4 DEF Call
  <2> QED BY <1>4, <2>1, <2>2, <2>3, <2>4 DEF KernelTask
<1>5. CASE ScreenTask(c)
  <2>1. CASE DeleteCircle(c)
    <3>1. live[0].pc = "s_delete" /\ live'[0].pc = "s_on2" BY <2>1 DEF DeleteCircle, Exec, Regs
    <3> QED BY <2>1, <3>1 DEF DeleteCircle
  <2>2. CASE TestCircles(c)
    <3>1. CASE Exec(0, "s_test", [live[0] EXCEPT !.pc = "s_off", !.circle = Head(circles)])
      <4>1. live[0].pc = "s_test" /\ live'[0].pc = "s_off" BY <3>1 DEF Exec, Regs
      <4> QED BY <2>2, <4>1 DEF TestCircles
    <3>2. CASE Exec(0, "s_test", [live[0] EXCEPT !.pc = "f_owner", !.ret = "s_timer"])
      <4>1. live[0].pc = "s_test" /\ live'[0].pc = "f_owner" BY <3>2 DEF Exec, Regs
      <4> QED BY <2>2, <4>1 DEF TestCircles
    <3> QED BY <2>2, <3>1, <3>2 DEF TestCircles
  <2>3. CASE /\ preemptEnable(c)
             /\ Exec(c, "s_pen", [live[c] EXCEPT !.pc = "f_owner", !.ret = "get"])
    <3>1. live[0].pc = "s_pen" /\ live'[0].pc = "f_owner" BY <2>3 DEF Exec, Regs
    <3> QED BY <2>3, <3>1
  <2>4. CASE \/ disableIRQ(c) /\ (Call(c, "s_off", "s_remove") \/ Call(c, "s_off2", "s_heap"))
             \/ enableIRQ(c) /\ (Call(c, "s_on", "s_pdis") \/ Call(c, "s_on2", "s_pen"))
             \/ preemptDisable(c) /\ Call(c, "s_pdis", "s_draw")
             \/ HeapLock(c) /\ Call(c, "s_heap", "s_delete")
             \/ Local(c, "s_draw", "s_off2")
             \/ RemoveCircle(c)
    BY <1>s, <2>4 DEF Call, Local, RemoveCircle
  <2> QED BY <1>5, <2>1, <2>2, <2>3, <2>4 DEF ScreenTask
<1>6. CASE ReadCore(c)
  <2>1. live'[0].pc = live[0].pc /\ live[0].pc # "get" BY <1>6 DEF ReadCore, Exec, Regs, CoreLines
  <2> QED BY <1>6, <2>1 DEF ReadCore
<1> QED BY <1>1, <1>2, <1>3, <1>4, <1>5, <1>6 DEF Program

LEMMA ProgramSleepInv ==
    ASSUME NUM_CORES = 1, Sound, RegsInv, SleepInv, NEW c \in Cores, Program(c)
    PROVE  SleepInv'
<1> DEFINE me == current[0]
           l == live[0].pc
           m == live'[0].pc
<1>1. /\ 0 \in Cores /\ TypeOK BY DEF Cores, Sound, TypeInv
<1>2. /\ hpc[0] = "task" /\ me \in Tasks /\ UNCHANGED current
      /\ \A t \in Tasks : IF t = me THEN Rg(t).pc = l /\ Rg(t)'.pc = m ELSE Rg(t)' = Rg(t)
  BY <1>1, ProgramKeepsOthers DEF Running, At
<1>3. me \notin sleepingQ
  BY <1>1, <1>2, BootAssumption DEF Sound, CurrentOnQueue, Partitioned, Descheduling
<1>4. /\ Prompt(0)
      /\ \/ UNCHANGED vars /\ l = m /\ l # "get"
         \/ UNCHANGED vars /\ (l = "get" => m \in WaitLines) /\ m \notin TimedLines /\ m # "g_sleep"
         \/ SetTimer(0, current[0]) /\ l # "get" /\ m # "g_sleep"
         \/ SetSleepingOnLock(0, current[0]) /\ l # "get" /\ m \notin TimedLines
         \/ Sleep(0, 0) /\ l \in TimedLines \cup {"g_sleep"} /\ m \in {"get", "k_off", "k_timer"}
         \/ /\ \/ SetOwner(0) \/ SendWakeup(0, 0) \/ preemptDisable(0) \/ preemptEnable(0)
               \/ disableIRQ(0) \/ enableIRQ(0) \/ HeapLock(0) \/ HeapRelease(0)
            /\ l # "get" /\ m \notin TimedLines /\ m # "g_sleep"
  BY <1>1, ProgramCalls
<1>5. SLEEP \in pending[0] => l = "get"
  BY <1>4 DEF Prompt, SleepInv, SleepFirst
<1> HIDE DEF me, l, m
<1> USE <1>1 DEF TypeOK, queueVars, taskVars, lockVars, gicVars, calcVars, wakeVars, send_sgi
<1>6. UNCHANGED <<sleepingQ, hpc, ht>>
  BY <1>4 DEF vars, SetTimer, SetSleepingOnLock, Sleep, SetOwner, SendWakeup,
       preemptDisable, preemptEnable, disableIRQ, enableIRQ, HeapLock, HeapRelease
<1>7. /\ \A t \in Tasks : timer'[t] = timer[t] \/ (t = me /\ timer'[t] # "off")
      /\ \A t \in Tasks : sleepingOnLock'[t] = sleepingOnLock[t] \/ (t = me /\ sleepingOnLock'[t])
      /\ m \in TimedLines => timer'[me] # "off"
      /\ m = "g_sleep" => sleepingOnLock'[me]
  BY <1>2, <1>4 DEF SleepInv, AskedFor, me, vars, SetTimer, SetSleepingOnLock, Sleep, SetOwner, SendWakeup,
       preemptDisable, preemptEnable, disableIRQ, enableIRQ, HeapLock, HeapRelease, TimedLines
<1>8. \/ pending' = pending /\ (SLEEP \in pending[0] => UNCHANGED irqOff /\ m \in WaitLines)
      \/ /\ pending' = [pending EXCEPT ![0] = @ \cup {WAKEUP}] /\ UNCHANGED irqOff
         /\ SLEEP \notin pending[0]
      \/ /\ pending' = [pending EXCEPT ![0] = @ \cup {SLEEP}] /\ UNCHANGED irqOff /\ ~irqOff[0]
         /\ Wakeable(me)' /\ m \in WaitLines
  <2>1. CASE UNCHANGED vars /\ ((l = m /\ l # "get") \/ (l = "get" => m \in WaitLines))
    BY <1>5, <2>1 DEF vars
  <2>2. CASE SetTimer(0, current[0]) /\ l # "get" BY <1>5, <2>2 DEF SetTimer
  <2>3. CASE SetSleepingOnLock(0, current[0]) /\ l # "get" BY <1>5, <2>3 DEF SetSleepingOnLock
  <2>4. CASE Sleep(0, 0) /\ l \in TimedLines \cup {"g_sleep"} /\ m \in {"get", "k_off", "k_timer"}
    <3>1. Wakeable(me) BY <1>2, <2>4 DEF SleepInv, AskedFor, Wakeable
    <3> QED BY <1>2, <2>4, <3>1 DEF Sleep, WaitLines, Wakeable, me
  <2>5. CASE SendWakeup(0, 0) /\ l # "get" BY <1>5, <2>5 DEF SendWakeup
  <2>6. CASE /\ \/ SetOwner(0) \/ preemptDisable(0) \/ preemptEnable(0)
                \/ disableIRQ(0) \/ enableIRQ(0) \/ HeapLock(0) \/ HeapRelease(0)
             /\ l # "get"
    BY <1>5, <2>6 DEF SetOwner, preemptDisable, preemptEnable, disableIRQ, enableIRQ,
         HeapLock, HeapRelease
  <2> QED BY <1>4, <2>1, <2>2, <2>3, <2>4, <2>5, <2>6
<1>9. SleepFirst' BY <1>2, <1>6, <1>8 DEF SleepInv, SleepFirst, SLEEP, WAKEUP, RESCHEDULE
<1>10. RequestWakeable'
  <2>1. SLEEP \in pending'[0] => Wakeable(me)' /\ m \in WaitLines
    BY <1>2, <1>7, <1>8 DEF SleepInv, RequestWakeable, Wakeable, SLEEP, WAKEUP, me
  <2> QED BY <1>2, <1>6, <2>1 DEF RequestWakeable, Wakeable, me
<1>11. AsleepWakeable' BY <1>2, <1>3, <1>6, <1>7 DEF SleepInv, AsleepWakeable, Wakeable
<1>12. MovingOne' BY <1>6 DEF SleepInv, MovingOne
<1>13. AskedFor' BY <1>2, <1>7 DEF SleepInv, AskedFor
<1> QED BY <1>9, <1>10, <1>11, <1>12, <1>13 DEF SleepInv

LEMMA NextSleepInv ==
    ASSUME NUM_CORES = 1, Sound, RegsInv, SleepInv, [DrawNext]_sysVars
    PROVE  SleepInv'
<1>0. TypeOK BY DEF Sound, TypeInv
<1>1. ASSUME UNCHANGED sysVars PROVE SleepInv'
  BY <1>1 DEF sysVars, vars, drawVars, queueVars, taskVars, gicVars, wakeVars, calcVars, Rg,
       SleepInv, SleepFirst, RequestWakeable, AsleepWakeable, MovingOne, AskedFor, Wakeable
<1>2. CASE \E c \in Cores : Program(c) BY <1>2, ProgramSleepInv
<1>3. ASSUME UNCHANGED <<drawVars, current>> \/ \E c \in Cores, t \in Tasks : DrawReschedule(c, t)
      PROVE  \A t \in Tasks : Rg(t)' = Rg(t)
  BY <1>0, <1>3, SwitchKeepsRegs
<1>4. ASSUME NEW c \in Cores, DrawHandler(c), \A t \in Tasks : Rg(t)' = Rg(t) PROVE SleepInv'
  <2>1. HandlerStep(c) BY <1>4 DEF DrawHandler, DrawReschedule, HandlerStep
  <2> QED BY <1>4, <2>1, WakeSleepInv, MoveSleepInv, SleepSleepInv DEF HandlerStep
<1>5. CASE /\ TimerMatch \/ (\E t \in Tasks : Expire(t)) \/ \E c \in Cores : Interrupt(c)
           /\ \A t \in Tasks : Rg(t)' = Rg(t)
  BY <1>5, HardwareSleepInv
<1> QED BY <1>1, <1>2, <1>3, <1>4, <1>5, StepKinds DEF DrawNext

\* On one core every sleeping task has a timer running or waits for the mutex: the
\* SLEEP handler never puts away a task that did not ask for it.
THEOREM SleepersOnOneCore ==
    ASSUME NUM_CORES = 1
    PROVE  DrawSpec => []SleeperWakeable
<1>1. DrawInit => SleepInv BY InitSleepInv
<1>2. Sound /\ RegsInv /\ SleepInv /\ [DrawNext]_sysVars => SleepInv' BY NextSleepInv
<1>3. SleepInv => SleeperWakeable
  BY CoresFacts DEF SleepInv, AsleepWakeable, SleeperWakeable, Sleepers, Wakeable
<1> QED BY <1>1, <1>2, <1>3, DrawInvariance, OneCoreSound, PTL DEF DrawSpec

=============================================================================
