----------------------------- MODULE MCDNSProxy -----------------------------
(* DNSProxy for TLC.                                                       *)
EXTENDS DNSProxy, TLC

\* Connections are interchangeable; handlers are not, one serves UDP.
ConnSymmetry == Permutations(Values)
=============================================================================
