------------------------------ MODULE MCDraw1 ------------------------------
(* DrawSystem on one core: the idle task, a screen task and kernel tasks. *)
EXTENDS DrawSystem, TLC

CONSTANTS i0, screen, Kernels

MCTasks == {i0, screen} \cup Kernels
MCIdle == [c \in {0} |-> i0]
MCprio == [t \in MCTasks |-> CASE t = screen -> 0 [] t = i0 -> 20 [] OTHER -> 19]
MCpinned == [t \in MCTasks |-> IF t = screen THEN 0 ELSE -1]
MChome == [t \in MCTasks |-> 0]
Symmetry == Permutations(Kernels) \cup Permutations(Circles)
=============================================================================
