------------------------------ MODULE MCSched ------------------------------
(* A two-core instance of Sched: one idle task per core, a screen task pinned *)
(* to core 1 and a kernel task that may run on either core.                   *)
EXTENDS Sched

CONSTANTS i0, i1, screen, kernel

MCTasks == {i0, i1, screen, kernel}
MCIdle == [c \in 0 .. 1 |-> IF c = 0 THEN i0 ELSE i1]
MCprio == [t \in MCTasks |-> CASE t = screen -> 0 [] t = kernel -> 19 [] OTHER -> 20]
MCpinned == [t \in MCTasks |-> IF t = screen THEN 1 ELSE -1]
MChome == [t \in MCTasks |-> IF t = i0 THEN 0 ELSE 1]
=============================================================================
