----------------------------- MODULE Deadlines -----------------------------
(***************************************************************************)
(* The deadlines of sockets, as UDPConn and TCPConn (conn.go) and the TLS  *)
(* dialer (client.go) set them.  A deadline belongs to the socket and      *)
(* lasts until the next one replaces it; a read or write that finds it     *)
(* passed fails.  The UDP workers share one socket, each with a UDPConn of *)
(* its own per request (server.go); a TLS connection has one user at a     *)
(* time (ConnPool!Exclusive).                                              *)
(*                                                                         *)
(* A deadline is kept as the ticks left until it.  Time that passes in     *)
(* code that does not block is not counted.                                *)
(***************************************************************************)
EXTENDS Integers

CONSTANTS
  Workers,   \* the goroutines of UDPServer.ListenAndServe
  Streams,   \* TLS connections, each with the goroutine that has it
  Socket,    \* the UDP workers' socket
  Addrs,     \* client addresses
  NoAddr,    \* remote is nil
  Options,   \* configurations: [handshake, read, write], 0 for no timeout
  Longest,   \* bound: a wait is counted up to here
  Never      \* no deadline is set

ASSUME DeadlinesAssumption ==
  /\ Longest \in Nat
  /\ Options \subseteq [handshake : 0..Longest - 1, read : 0..Longest - 1, write : 0..Longest - 1]
  /\ Never \notin Int
  /\ NoAddr \notin Addrs
  /\ Workers \cap Streams = {}
  /\ Socket \notin Streams

Users == Workers \cup Streams

Sockets == Streams \cup {Socket}

\* The socket below a user's connection.
On(u) == IF u \in Workers THEN Socket ELSE u

VARIABLES
  opts,     \* the timeouts configured for the UDP listener and the TLS clients;
            \* one variable, since neither's deadlines meet the other's
  left,     \* ticks until each socket's read and write deadlines
  pc,       \* what each user does
  waited,   \* how long its handshake, read or write has taken
  remote,   \* UDPConn.remote
  misused   \* who got an error from UDPConn for reading twice or writing first

vars == <<opts, left, pc, waited, remote, misused>>

\* Mutant of Deadline: it is set only once.
DeadlineOnce(t, x) == IF t > 0 /\ x = Never THEN t ELSE x

\* Mutant of Deadline: the timeout is added to the deadline there is.
DeadlineExtended(t, x) == IF t > 0 /\ x # Never THEN x + t ELSE IF t > 0 THEN t ELSE x

\* What SetReadDeadline(time.Now().Add(t)) or its counterpart makes of a
\* deadline of x, done only for a positive t.
Deadline(t, x) == IF t > 0 THEN t ELSE x

\* An operation on s has time left.
InTime(s, op) == left[s][op] # 0

\* The operation is over; the user goes on to what is next.
End(u, op, next) ==
  /\ pc[u] = op
  /\ pc' = [pc EXCEPT ![u] = next]
  /\ waited' = [waited EXCEPT ![u] = 0]

-----------------------------------------------------------------------------
(* Connections.                                                            *)

\* Mutant of NewUDPConn: the worker keeps one UDPConn for all its requests.
NewUDPConnOnce(u) ==
  /\ u \in Workers /\ pc[u] = "new"
  /\ pc' = [pc EXCEPT ![u] = "open"]
  /\ UNCHANGED <<opts, left, waited, remote, misused>>

NewUDPConn(u) ==
  /\ u \in Workers /\ pc[u] = "new"
  /\ pc' = [pc EXCEPT ![u] = "open"]
  /\ remote' = [remote EXCEPT ![u] = NoAddr]
  /\ UNCHANGED <<opts, left, waited, misused>>

\* The dialer has a TCP connection, sets both deadlines and begins the
\* handshake.
Dial(u) ==
  /\ u \in Streams /\ pc[u] = "new"
  /\ pc' = [pc EXCEPT ![u] = "handshake"]
  /\ left' = [left EXCEPT ![u] = [op \in {"read", "write"} |-> Deadline(opts.handshake, Never)]]
  /\ UNCHANGED <<opts, waited, remote, misused>>

Handshake(u) ==
  /\ End(u, "handshake", "open")
  /\ InTime(u, "read")
  /\ UNCHANGED <<opts, left, remote, misused>>

\* The handshake fails, or takes too long.
HandshakeFail(u) ==
  /\ End(u, "handshake", "new")
  /\ UNCHANGED <<opts, left, remote, misused>>

\* A stream is closed: Destroy(), or the end of Handle.
Finish(u) ==
  /\ u \in Streams /\ pc[u] = "open"
  /\ pc' = [pc EXCEPT ![u] = "new"]
  /\ UNCHANGED <<opts, left, waited, remote, misused>>

-----------------------------------------------------------------------------
(* Reads and writes.  UDPConn is read once, then may be written.           *)

\* u begins to read or write, with a timeout of t: the deadline is set, and the
\* user waits. When UDPConn refuses, Handle returns instead.
Start(u, op, t, refused) ==
  /\ pc' = [pc EXCEPT ![u] = IF refused THEN "new" ELSE op]
  /\ left' = IF refused THEN left ELSE [left EXCEPT ![On(u)][op] = Deadline(t, @)]
  /\ misused' = IF refused THEN misused \cup {u} ELSE misused
  /\ UNCHANGED <<opts, waited, remote>>

\* Mutant of Read: the deadline is left as it was.
ReadUntimed(u) ==
  /\ pc[u] = "open"
  /\ Start(u, "read", 0, u \in Workers /\ remote[u] # NoAddr)

Read(u) ==
  /\ pc[u] = "open"
  /\ Start(u, "read", opts.read, u \in Workers /\ remote[u] # NoAddr)

\* Data arrives. A worker's remote is the datagram's sender.
ReadDone(u) ==
  /\ End(u, "read", IF u \in Workers THEN "asked" ELSE "open")
  /\ InTime(On(u), "read")
  /\ \E a \in Addrs : remote' = [remote EXCEPT ![u] = IF u \in Workers THEN a ELSE @]
  /\ UNCHANGED <<opts, left, misused>>

\* Handle has no response to write.
GiveUp(u) ==
  /\ End(u, "asked", "new")
  /\ UNCHANGED <<opts, left, remote, misused>>

Write(u) ==
  /\ pc[u] = IF u \in Workers THEN "asked" ELSE "open"
  /\ Start(u, "write", opts.write, u \in Workers /\ remote[u] = NoAddr)

WriteDone(u) ==
  /\ End(u, "write", IF u \in Workers THEN "new" ELSE "open")
  /\ InTime(On(u), "write")
  /\ UNCHANGED <<opts, left, remote, misused>>

\* The deadline has passed: Destroy() for a stream, and Handle returns.
TimedOut(u, op) ==
  /\ End(u, op, "new")
  /\ ~InTime(On(u), op)
  /\ UNCHANGED <<opts, left, remote, misused>>

\* It fails for another reason.
Broken(u, op) ==
  /\ End(u, op, "new")
  /\ InTime(On(u), op)
  /\ UNCHANGED <<opts, left, remote, misused>>

\* Time passes, but not beyond a deadline that somebody waits for.
Tick ==
  /\ \A u \in Users : pc[u] \in {"read", "write"} => InTime(On(u), pc[u])
  /\ \A u \in Streams : pc[u] = "handshake" => InTime(u, "read")
  /\ left' = [s \in Sockets |-> [op \in {"read", "write"} |->
                IF left[s][op] \in {Never, 0} THEN left[s][op] ELSE left[s][op] - 1]]
  /\ waited' = [u \in Users |->
                  IF pc[u] \in {"handshake", "read", "write"} /\ waited[u] < Longest
                  THEN waited[u] + 1 ELSE waited[u]]
  /\ UNCHANGED <<opts, pc, remote, misused>>

-----------------------------------------------------------------------------

Init ==
  /\ opts \in Options
  /\ left = [s \in Sockets |-> [op \in {"read", "write"} |-> Never]]
  /\ pc = [u \in Users |-> "new"]
  /\ waited = [u \in Users |-> 0]
  /\ remote = [u \in Users |-> NoAddr]
  /\ misused = {}

Step(u) ==
  \/ NewUDPConn(u) \/ Dial(u) \/ Handshake(u) \/ HandshakeFail(u) \/ Finish(u)
  \/ Read(u) \/ ReadDone(u) \/ GiveUp(u) \/ Write(u) \/ WriteDone(u)
  \/ \E op \in {"read", "write"} : TimedOut(u, op) \/ Broken(u, op)

Next == (\E u \in Users : Step(u)) \/ Tick

Spec == Init /\ [][Next]_vars

-----------------------------------------------------------------------------
(* Properties.                                                             *)

\* The values the variables range over.
TypeOK ==
  /\ opts \in Options
  /\ left \in [Sockets -> [{"read", "write"} -> 0..Longest \cup {Never}]]
  /\ pc \in [Users -> {"new", "handshake", "open", "read", "asked", "write"}]
  /\ waited \in [Users -> 0..Longest]
  /\ remote \in [Users -> Addrs \cup {NoAddr}]
  /\ misused \subseteq Workers

\* A read or write fails for lack of time only when a timeout is configured for
\* it and it has taken that long: neither an earlier operation on the socket,
\* nor the handshake, nor another worker's read cuts it short ("the timeout
\* associated with each read from a remote connection").
NotCutShort ==
  [][\A u \in Users, op \in {"read", "write"} :
       TimedOut(u, op) => opts[op] > 0 /\ waited[u] >= opts[op]]_vars

\* The handshake, reads and writes of a TLS connection take no longer than
\* their timeouts, whatever deadlines were set on it before.
InBounds ==
  \A u \in Streams :
    pc[u] \in {"handshake", "read", "write"} /\ opts[pc[u]] > 0 => waited[u] <= opts[pc[u]]

\* The UDP workers use UDPConn as it demands: no read of one that has read, no
\* write to one that has not, over any sequence of requests and timeouts.
NoMisuse == misused = {}
=============================================================================
