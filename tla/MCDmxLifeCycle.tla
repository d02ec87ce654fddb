--------------------------- MODULE MCDmxLifeCycle ---------------------------
(* DmxLifeCycle with tasks that are all alike.                              *)
EXTENDS DmxLifeCycle, TLC

Symmetry == Permutations(Tasks)
=============================================================================
