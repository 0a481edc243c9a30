---------------------------- MODULE MCDeadlines ----------------------------
(* Deadlines for TLC: sets of configurations, and symmetry. *)
EXTENDS Deadlines, TLC

Timeouts == 0..2

AllOptions == [handshake : Timeouts, read : Timeouts, write : Timeouts]

\* No handshake timeout, or timeouts for all that follows the handshake.
SoundOptions == {o \in AllOptions : o.handshake = 0 \/ (o.read > 0 /\ o.write > 0)}

WorkerSymmetry == Permutations(Workers)
=============================================================================
