---------------------------- MODULE MCHeapQueue ----------------------------
(* HeapQueue for TLC.                                                      *)
EXTENDS HeapQueue, TLC

ValueSymmetry == Permutations(Values)
=============================================================================
