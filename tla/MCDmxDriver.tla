---------------------------- MODULE MCDmxDriver ----------------------------
(* DmxDriver on small instances; the configurations choose the calls, the  *)
(* traffic on the bus and what may run late.                               *)
EXTENDS DmxDriver, TLC

\* The tasks are interchangeable: no action names one.
Symmetry == Permutations(Tasks)
=============================================================================
