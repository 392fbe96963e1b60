-------------------------- MODULE MCClientLifecycle --------------------------
(* Model checking instance of ClientLifecycle: the task set is the union   *)
(* the specification assumes.                                              *)
EXTENDS ClientLifecycle, TLC

CONSTANTS o1, p1

MCOps == {o1}
MCPolls == {p1}
MCTasks == {o1, p1}
Symmetry == Permutations(Tokens) \cup Permutations(Drainers)
=============================================================================
