------------------------------- MODULE MCProc -------------------------------
(***************************************************************************)
(* Process lifecycles for TLC: four task structures, which are reused, and  *)
(* three pids, the first of them the shell's.  Tasks are interchangeable.   *)
(***************************************************************************)
EXTENDS Proc, TLC

CONSTANTS t1, t2, t3, t4, a1

SamePrio == [t \in Tasks |-> 0]

Symmetry == Permutations(Tasks)
=============================================================================
