------------------------------ MODULE MCDraw2 ------------------------------
(* DrawSystem on two cores: an idle task each, a screen task pinned to core 1 *)
(* and kernel tasks, booted on core 1, that may move to either core.          *)
EXTENDS DrawSystem

CONSTANTS i0, i1, screen, Kernels

MCTasks == {i0, i1, screen} \cup Kernels
MCIdle == [c \in 0 .. 1 |-> IF c = 0 THEN i0 ELSE i1]
MCprio == [t \in MCTasks |-> CASE t = screen -> 0 [] t \in Kernels -> 19 [] OTHER -> 20]
MCpinned == [t \in MCTasks |-> IF t = screen THEN 1 ELSE -1]
MChome == [t \in MCTasks |-> IF t = i0 THEN 0 ELSE 1]
=============================================================================
