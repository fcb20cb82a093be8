------------------------------- MODULE MCFifo -------------------------------
(* FifoManager for TLC.  The goroutines that write to a connection are      *)
(* interchangeable: no property names one of them.                          *)
EXTENDS FifoManager, TLC

CallerSymmetry == Permutations(Callers)
=============================================================================
