---------------------------- MODULE MCMasterKey ----------------------------
(* The master key on small instances.                                       *)
EXTENDS MasterKeyProps, TLC

CONSTANTS p1, p2     \* processes

Symmetry == Permutations(Procs)
=============================================================================
