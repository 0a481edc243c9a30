---------------------------- MODULE MCBalancing ----------------------------
(* Balancing for TLC: callers are interchangeable, clients are not.        *)
EXTENDS Balancing, TLC

CallerSymmetry == Permutations(Callers)
=============================================================================
