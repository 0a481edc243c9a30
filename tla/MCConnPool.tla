----------------------------- MODULE MCConnPool -----------------------------
(***************************************************************************)
(* ConnPool on small instances.  Connections are interchangeable, and so   *)
(* are callers.                                                            *)
(***************************************************************************)
EXTENDS ConnPool, TLC

Symmetry == Permutations(Conns) \cup Permutations(Callers)
=============================================================================
