------------------------------ MODULE MCDaemon ------------------------------
(***************************************************************************)
(* Daemon for TLC: each block of the file absent, wrong in each of the     *)
(* ways validate looks for, and right.                                     *)
(***************************************************************************)
EXTENDS Daemon

A == Text("a", FALSE)

Good == [addr |-> A, name |-> A]

MCFiles ==
  {Nil, Unreadable} \cup
    Configs({Empty, A}, {"below", "within", "above"}, 0..1,
            {Empty, Text("Failover", FALSE), Text("other", FALSE)},
            {<<>>, <<Good>>, <<[Good EXCEPT !.name = Empty]>>,
             <<Good, [Good EXCEPT !.addr = Empty]>>})

MCVerbosities == {Text("debug", TRUE), Text("other", FALSE)}
=============================================================================
