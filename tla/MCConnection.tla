---------------------------- MODULE MCConnection ----------------------------
(* Connection on small instances.  Task goroutines are interchangeable, so   *)
(* runs that check no liveness identify states up to a permutation of them.  *)
EXTENDS Connection, TLC

TaskSymmetry == Permutations(Tasks)
=============================================================================
