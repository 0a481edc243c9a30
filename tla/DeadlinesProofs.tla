--------------------------- MODULE DeadlinesProofs ---------------------------
(***************************************************************************)
(* For any number of UDP workers and TLS connections and any timeouts:     *)
(* UDPConn is used as it demands, no handshake, read or write of a TLS     *)
(* connection outlasts its timeout, and, where no deadline of a handshake  *)
(* is left in force, none is cut short.                                    *)
(***************************************************************************)
EXTENDS Deadlines, TLAPS

Ops == {"read", "write"}

-----------------------------------------------------------------------------
(* Types.                                                                  *)

\* A new deadline is one of the values deadlines have.
LEMMA DeadlineType ==
  ASSUME NEW t \in 0..Longest - 1, NEW x \in 0..Longest \cup {Never}
  PROVE  Deadline(t, x) \in 0..Longest \cup {Never}
  BY DeadlinesAssumption DEF Deadline

\* A timeout is a number of ticks below the bound.
LEMMA OptsType ==
  ASSUME opts \in Options
  PROVE  /\ opts.handshake \in 0..Longest - 1
         /\ opts.read \in 0..Longest - 1
         /\ opts.write \in 0..Longest - 1
  BY DeadlinesAssumption

\* Beginning a read or write keeps the types.
LEMMA StartTypes ==
  ASSUME TypeOK, NEW u \in Users, NEW op \in Ops, NEW t \in 0..Longest - 1,
         NEW refused \in BOOLEAN, refused => u \in Workers, Start(u, op, t, refused)
  PROVE  TypeOK'
<1>1. pc' \in [Users -> {"new", "handshake", "open", "read", "asked", "write"}]
  BY DEF Start, TypeOK, Ops
<1>2. left' \in [Sockets -> [{"read", "write"} -> 0..Longest \cup {Never}]]
  <2>1. On(u) \in Sockets
    BY DEF On, Users, Sockets
  <2>2. Deadline(t, left[On(u)][op]) \in 0..Longest \cup {Never}
    <3>1. left[On(u)][op] \in 0..Longest \cup {Never}
      BY <2>1 DEF TypeOK, Ops
    <3> QED
      BY <3>1, DeadlineType, Zenon
  <2> QED
    BY <2>1, <2>2 DEF Start, TypeOK, Ops
<1>3. misused' \subseteq Workers
  BY DEF Start, TypeOK
<1> QED
  BY <1>1, <1>2, <1>3 DEF Start, TypeOK

\* Ending an operation keeps the types of what it changes.
LEMMA EndTypes ==
  ASSUME TypeOK, NEW u \in Users, NEW op, NEW next \in {"new", "open", "asked"}, End(u, op, next)
  PROVE  /\ pc' \in [Users -> {"new", "handshake", "open", "read", "asked", "write"}]
         /\ waited' \in [Users -> 0..Longest]
  BY DeadlinesAssumption DEF End, TypeOK

\* Every step keeps the types.
LEMMA TypeStep == TypeOK /\ [Next]_vars => TypeOK'
<1> SUFFICES ASSUME TypeOK, [Next]_vars PROVE TypeOK'
  OBVIOUS
<1>0. opts \in Options
  BY DEF TypeOK
<1>1. ASSUME NEW u \in Users, NewUDPConn(u) \/ Finish(u) PROVE TypeOK'
  BY <1>1 DEF NewUDPConn, Finish, TypeOK
<1>2. ASSUME NEW u \in Users, Dial(u) PROVE TypeOK'
  <2>1. Deadline(opts.handshake, Never) \in 0..Longest \cup {Never}
    BY <1>0, OptsType, DeadlineType, Zenon
  <2>2. left' \in [Sockets -> [{"read", "write"} -> 0..Longest \cup {Never}]]
    BY <1>2, <2>1, Zenon DEF Dial, TypeOK
  <2> QED
    BY <1>2, <2>2 DEF Dial, TypeOK
<1>3. ASSUME NEW u \in Users, Handshake(u) \/ HandshakeFail(u) \/ GiveUp(u) \/ WriteDone(u)
      PROVE TypeOK'
  <2>1. \E op \in {"handshake", "asked", "write"}, next \in {"new", "open", "asked"} :
          End(u, op, next)
    BY <1>3 DEF Handshake, HandshakeFail, GiveUp, WriteDone
  <2>2. UNCHANGED <<opts, left, remote, misused>>
    BY <1>3 DEF Handshake, HandshakeFail, GiveUp, WriteDone
  <2> QED
    BY <2>1, <2>2, EndTypes DEF TypeOK
<1>4. ASSUME NEW u \in Users, ReadDone(u) PROVE TypeOK'
  <2>1. remote' \in [Users -> Addrs \cup {NoAddr}]
    BY <1>4 DEF ReadDone, TypeOK
  <2>2. \E next \in {"new", "open", "asked"} : End(u, "read", next)
    BY <1>4 DEF ReadDone
  <2> QED
    BY <1>4, <2>1, <2>2, EndTypes DEF ReadDone, TypeOK
<1>5. ASSUME NEW u \in Users, Read(u) \/ Write(u) PROVE TypeOK'
  <2>1. \E op \in Ops, t \in 0..Longest - 1, refused \in BOOLEAN :
          (refused => u \in Workers) /\ Start(u, op, t, refused)
    <3>1. CASE Read(u)
      BY <1>0, <3>1, OptsType, Zenon DEF Read, Ops
    <3>2. CASE Write(u)
      BY <1>0, <3>2, OptsType, Zenon DEF Write, Ops
    <3> QED
      BY <1>5, <3>1, <3>2
  <2> QED
    BY <2>1, StartTypes
<1>6. ASSUME NEW u \in Users, NEW op \in Ops, TimedOut(u, op) \/ Broken(u, op) PROVE TypeOK'
  <2>1. End(u, op, "new") /\ UNCHANGED <<opts, left, remote, misused>>
    BY <1>6 DEF TimedOut, Broken
  <2> QED
    BY <2>1, EndTypes DEF TypeOK
<1>7. CASE Tick
  <2>1. \A s \in Sockets, op \in Ops :
          (IF left[s][op] \in {Never, 0} THEN left[s][op] ELSE left[s][op] - 1) \in 0..Longest \cup {Never}
    BY DeadlinesAssumption DEF TypeOK, Ops
  <2>2. left' \in [Sockets -> [{"read", "write"} -> 0..Longest \cup {Never}]]
    BY <1>7, <2>1 DEF Tick, Ops
  <2>3. waited' \in [Users -> 0..Longest]
    BY <1>7, DeadlinesAssumption DEF Tick, TypeOK
  <2> QED
    BY <1>7, <2>2, <2>3 DEF Tick, TypeOK
<1>8. CASE UNCHANGED vars
  BY <1>8 DEF vars, TypeOK
<1> QED
  BY <1>1, <1>2, <1>3, <1>4, <1>5, <1>6, <1>7, <1>8 DEF Next, Step, Ops

\* Every variable keeps its type, whatever timeouts are configured: in particular
\* no deadline that SetReadDeadline or SetWriteDeadline sets lies further off
\* than a timeout.
THEOREM TypesKept == Spec => []TypeOK
<1>1. Init => TypeOK
  BY DeadlinesAssumption DEF Init, TypeOK
<1> QED
  BY <1>1, TypeStep, PTL DEF Spec

-----------------------------------------------------------------------------
(* UDPConn.                                                                *)

\* A worker's UDPConn has read nothing when it is to read, and something when
\* it is to write.
Fresh ==
  /\ misused = {}
  /\ \A w \in Workers :
       /\ pc[w] # "handshake"
       /\ pc[w] = "open" => remote[w] = NoAddr
       /\ pc[w] = "asked" => remote[w] # NoAddr

\* No step disturbs it.
LEMMA FreshStep == TypeOK /\ Fresh /\ [Next]_vars => Fresh'
<1> SUFFICES ASSUME TypeOK, Fresh, [Next]_vars PROVE Fresh'
  OBVIOUS
<1>1. ASSUME NEW u \in Users, NewUDPConn(u) \/ Finish(u) \/ Dial(u) PROVE Fresh'
  BY <1>1, DeadlinesAssumption DEF NewUDPConn, Finish, Dial, TypeOK, Fresh, Users
<1>2. ASSUME NEW u \in Users,
             \/ HandshakeFail(u) \/ GiveUp(u)
             \/ \E op \in Ops : TimedOut(u, op) \/ Broken(u, op)
      PROVE Fresh'
  <2>1. pc' = [pc EXCEPT ![u] = "new"] /\ UNCHANGED <<remote, misused>>
    BY <1>2 DEF HandshakeFail, GiveUp, TimedOut, Broken, End
  <2> QED
    BY <2>1 DEF TypeOK, Fresh
<1>3. ASSUME NEW u \in Users, Handshake(u) PROVE Fresh'
  BY <1>3, DeadlinesAssumption DEF Handshake, End, TypeOK, Fresh
<1>4. ASSUME NEW u \in Users, ReadDone(u) PROVE Fresh'
  BY <1>4, DeadlinesAssumption DEF ReadDone, End, TypeOK, Fresh, Users
<1>5. ASSUME NEW u \in Users, Read(u) \/ Write(u) PROVE Fresh'
  <2>1. \E op \in Ops : pc' = [pc EXCEPT ![u] = op] /\ UNCHANGED <<remote, misused>>
    BY <1>5 DEF Read, Write, Start, Fresh, Ops
  <2> QED
    BY <2>1 DEF TypeOK, Fresh, Ops
<1>6. ASSUME NEW u \in Users, WriteDone(u) PROVE Fresh'
  BY <1>6, DeadlinesAssumption DEF WriteDone, End, TypeOK, Fresh, Users
<1>7. CASE Tick
  BY <1>7 DEF Tick, Fresh
<1>8. CASE UNCHANGED vars
  BY <1>8 DEF vars, Fresh
<1> QED
  BY <1>1, <1>2, <1>3, <1>4, <1>5, <1>6, <1>7, <1>8 DEF Next, Step, Ops

\* Over any sequence of requests, answers and timeouts, no worker reads from a
\* UDPConn twice or writes to one that has not read: the error of conn.go:40
\* and :58, which would end its request, never happens.
THEOREM UDPConnUse == Spec => []NoMisuse
<1>1. Init => Fresh
  BY DEF Init, Fresh, Users
<1>2. Fresh => NoMisuse
  BY DEF Fresh, NoMisuse
<1> QED
  BY <1>1, <1>2, TypesKept, FreshStep, PTL DEF Spec

-----------------------------------------------------------------------------
(* Steps by what they do to deadlines and waits.                           *)

Waiting == {"handshake", "read", "write"}

\* Only those who wait have waited.
Idle == \A u \in Users : pc[u] \notin Waiting => waited[u] = 0

\* u has nothing to wait for from now on.
Leaves(u) ==
  /\ \E next \in {"new", "open", "asked"} : pc' = [pc EXCEPT ![u] = next]
  /\ waited' = [waited EXCEPT ![u] = 0]
  /\ UNCHANGED <<opts, left>>

\* u begins to read or write.
Waits(u, op) ==
  /\ pc[u] \in {"open", "asked"}
  /\ pc' = [pc EXCEPT ![u] = op]
  /\ left' = [left EXCEPT ![On(u)][op] = Deadline(opts[op], @)]
  /\ UNCHANGED <<opts, waited>>

\* A step is one of four kinds.
LEMMA KindsOfStep ==
  ASSUME TypeOK, Fresh, Idle, Next
  PROVE  \/ \E u \in Users : Leaves(u)
         \/ \E u \in Users, op \in Ops : Waits(u, op)
         \/ \E u \in Users : Dial(u)
         \/ Tick
<1>1. ASSUME NEW u \in Users, NewUDPConn(u) \/ Finish(u) PROVE Leaves(u)
  <2>1. waited = [waited EXCEPT ![u] = 0]
    BY <1>1 DEF NewUDPConn, Finish, Idle, Waiting, TypeOK
  <2> QED
    BY <1>1, <2>1 DEF NewUDPConn, Finish, Leaves
<1>2. ASSUME NEW u \in Users,
             \/ Handshake(u) \/ HandshakeFail(u) \/ ReadDone(u) \/ GiveUp(u) \/ WriteDone(u)
             \/ \E op \in Ops : TimedOut(u, op) \/ Broken(u, op)
      PROVE Leaves(u)
  BY <1>2 DEF Handshake, HandshakeFail, ReadDone, GiveUp, WriteDone, TimedOut, Broken, End, Leaves
<1>3. ASSUME NEW u \in Users, Read(u) PROVE Waits(u, "read")
  BY <1>3, Zenon DEF Read, Start, Fresh, Waits
<1>4. ASSUME NEW u \in Users, Write(u) PROVE Waits(u, "write")
  BY <1>4, Zenon DEF Write, Start, Fresh, Waits
<1> QED
  BY <1>1, <1>2, <1>3, <1>4 DEF Next, Step, Ops

\* The deadlines and waits after a tick.
LEMMA TickEffect ==
  ASSUME TypeOK, Tick, NEW s \in Sockets, NEW op \in Ops
  PROVE  /\ left[s][op] \in Nat \ {0} => left'[s][op] = left[s][op] - 1
         /\ left[s][op] \in {Never, 0} => left'[s][op] = left[s][op]
  BY DeadlinesAssumption DEF Tick, Ops

\* No step disturbs Idle.
LEMMA IdleStep == TypeOK /\ Fresh /\ Idle /\ [Next]_vars => Idle'
<1> SUFFICES ASSUME TypeOK, Fresh, Idle, [Next]_vars PROVE Idle'
  OBVIOUS
<1>1. ASSUME NEW u \in Users, Leaves(u) PROVE Idle'
  BY <1>1 DEF Leaves, Idle, TypeOK
<1>2. ASSUME NEW u \in Users, NEW op \in Ops, Waits(u, op) PROVE Idle'
  BY <1>2 DEF Waits, Idle, TypeOK, Ops, Waiting
<1>3. ASSUME NEW u \in Users, Dial(u) PROVE Idle'
  BY <1>3 DEF Dial, Idle, TypeOK, Waiting
<1>4. CASE Tick
  BY <1>4 DEF Tick, Idle, Waiting
<1>5. CASE UNCHANGED vars
  BY <1>5 DEF vars, Idle
<1> QED
  BY <1>1, <1>2, <1>3, <1>4, <1>5, KindsOfStep

-----------------------------------------------------------------------------
(* No longer than the timeout.                                             *)

\* When stream u is at kind, with a timeout for it, the time it has waited and
\* the time left until op's deadline add up to that timeout.
AddsUp(u, kind, op) ==
  pc[u] = kind /\ opts[kind] > 0 =>
    left[u][op] \in Nat /\ left[u][op] + waited[u] = opts[kind]

\* So it is throughout a handshake (judged by the read deadline), read or write.
Exact ==
  \A u \in Streams :
    AddsUp(u, "handshake", "read") /\ AddsUp(u, "read", "read") /\ AddsUp(u, "write", "write")

\* Time that passes is taken from what is left and added to what was waited.
LEMMA TickAddsUp ==
  ASSUME TypeOK, Tick, NEW u \in Streams, NEW kind \in Waiting, NEW op \in Ops,
         kind \in Ops => kind = op, kind \notin Ops => op = "read", AddsUp(u, kind, op)
  PROVE  AddsUp(u, kind, op)'
<1> SUFFICES ASSUME pc[u] = kind, opts[kind] > 0 PROVE AddsUp(u, kind, op)'
  BY DEF Tick, AddsUp
<1>1. u \in Users /\ u \in Sockets /\ On(u) = u
  BY DeadlinesAssumption DEF Users, Sockets, On
<1>2. left[u][op] \in Nat /\ left[u][op] + waited[u] = opts[kind]
  BY DEF AddsUp
<1>3. left[u][op] # 0
  BY <1>1 DEF Tick, InTime, Waiting, Ops
<1>4. left'[u][op] = left[u][op] - 1
  BY <1>1, <1>2, <1>3, TickEffect
<1>5. waited[u] \in Nat /\ opts[kind] \in 0..Longest - 1
  BY <1>1, OptsType DEF TypeOK, Waiting
<1>6. waited'[u] = waited[u] + 1
  <2>1. waited[u] < Longest
    BY <1>2, <1>3, <1>5, DeadlinesAssumption
  <2> QED
    BY <1>1, <2>1 DEF Tick, Waiting
<1>7. left'[u][op] \in Nat /\ left'[u][op] + waited'[u] = opts[kind]
  BY <1>2, <1>3, <1>4, <1>5, <1>6
<1>8. opts' = opts
  BY DEF Tick
<1> QED
  BY <1>7, <1>8 DEF AddsUp

\* No step disturbs Exact.
LEMMA ExactStep == TypeOK /\ Fresh /\ Idle /\ Exact /\ [Next]_vars => Exact'
<1> SUFFICES ASSUME TypeOK, Fresh, Idle, Exact, [Next]_vars PROVE Exact'
  OBVIOUS
<1>0. Streams \subseteq Users /\ Streams \subseteq Sockets
  BY DEF Users, Sockets
<1>1. ASSUME NEW u \in Users, Leaves(u) PROVE Exact'
  BY <1>0, <1>1 DEF Leaves, Exact, AddsUp, TypeOK
<1>2. ASSUME NEW u \in Users, NEW op \in Ops, Waits(u, op) PROVE Exact'
  <2> SUFFICES ASSUME NEW v \in Streams
               PROVE /\ AddsUp(v, "handshake", "read")'
                     /\ AddsUp(v, "read", "read")'
                     /\ AddsUp(v, "write", "write")'
    BY DEF Exact
  <2>1. CASE v = u
    <3>1. pc'[u] = op /\ waited'[u] = 0 /\ opts' = opts
      BY <1>2 DEF Waits, Idle, Waiting, TypeOK
    <3>2. On(u) = u /\ u \in Sockets
      BY <1>0, <2>1, DeadlinesAssumption DEF On
    <3>3. opts[op] > 0 => left'[u][op] = opts[op]
      BY <1>2, <3>2 DEF Waits, Deadline, TypeOK, Ops
    <3>4. opts[op] \in Nat
      BY OptsType, DeadlinesAssumption DEF TypeOK, Ops
    <3> QED
      BY <2>1, <3>1, <3>3, <3>4 DEF AddsUp, Ops
  <2>2. CASE v # u
    <3>1. On(u) # v
      BY <2>2, DeadlinesAssumption DEF On
    <3>2. left'[v] = left[v] /\ pc'[v] = pc[v] /\ UNCHANGED <<opts, waited>>
      BY <1>0, <1>2, <2>2, <3>1 DEF Waits, TypeOK
    <3> QED
      BY <3>2 DEF Exact, AddsUp
  <2> QED
    BY <2>1, <2>2
<1>3. ASSUME NEW u \in Users, Dial(u) PROVE Exact'
  <2> SUFFICES ASSUME NEW v \in Streams
               PROVE /\ AddsUp(v, "handshake", "read")'
                     /\ AddsUp(v, "read", "read")'
                     /\ AddsUp(v, "write", "write")'
    BY DEF Exact
  <2>1. CASE v = u
    <3>1. pc'[u] = "handshake" /\ waited'[u] = 0 /\ opts' = opts
      BY <1>3 DEF Dial, Idle, Waiting, TypeOK
    <3>2. left'[u]["read"] = Deadline(opts.handshake, Never)
      BY <1>0, <1>3, <2>1 DEF Dial, TypeOK
    <3>3. opts.handshake \in Nat
      BY OptsType, DeadlinesAssumption DEF TypeOK
    <3> QED
      BY <2>1, <3>1, <3>2, <3>3 DEF AddsUp, Deadline
  <2>2. CASE v # u
    <3>1. left'[v] = left[v] /\ pc'[v] = pc[v] /\ UNCHANGED <<opts, waited>>
      BY <1>0, <1>3, <2>2 DEF Dial, TypeOK
    <3> QED
      BY <3>1 DEF Exact, AddsUp
  <2> QED
    BY <2>1, <2>2
<1>4. CASE Tick
  BY <1>4, TickAddsUp DEF Exact, Waiting, Ops
<1>5. CASE UNCHANGED vars
  BY <1>5 DEF vars, Exact, AddsUp
<1> QED
  BY <1>1, <1>2, <1>3, <1>4, <1>5, KindsOfStep

\* A handshake, read or write on a TLS connection never outlasts the timeout
\* configured for it, whatever deadlines earlier operations set on the socket
\* (TCPConn.Read, TCPConn.Write and the dialer replace them before they wait).
THEOREM WithinTimeout == Spec => []InBounds
<1>1. Init => Fresh /\ Idle /\ Exact
  BY DEF Init, Fresh, Idle, Exact, AddsUp, Users
<1>2. TypeOK /\ Exact => InBounds
  <2> SUFFICES ASSUME TypeOK, Exact, NEW u \in Streams, pc[u] \in Waiting, opts[pc[u]] > 0
               PROVE waited[u] <= opts[pc[u]]
    BY DEF InBounds, Waiting
  <2>1. waited[u] \in Nat
    BY DEF TypeOK, Users
  <2>2. \E op \in Ops : left[u][op] \in Nat /\ left[u][op] + waited[u] = opts[pc[u]]
    BY DEF Exact, AddsUp, Waiting, Ops
  <2> QED
    BY <2>1, <2>2
<1> QED
  BY <1>1, <1>2, TypesKept, FreshStep, IdleStep, ExactStep, PTL DEF Spec

-----------------------------------------------------------------------------
(* No shorter than the timeout.                                            *)

\* A handshake timeout comes with timeouts for what follows the handshake.
NoLeftover == \A o \in Options : o.handshake = 0 \/ (o.read > 0 /\ o.write > 0)

\* Without a timeout there is no deadline; with one, the deadline of the socket,
\* which others may move ahead, is not before the user's own.
Late ==
  /\ \A s \in Sockets, op \in Ops : opts[op] = 0 => left[s][op] = Never
  /\ \A u \in Users, op \in Ops : pc[u] = op /\ opts[op] > 0 =>
       left[On(u)][op] \in Nat /\ left[On(u)][op] + waited[u] >= opts[op]

\* A user's socket is one of the sockets, and a stream's is its own.
LEMMA OnSocket ==
  /\ \A u \in Users : On(u) \in Sockets
  /\ \A u \in Users, v \in Streams : On(u) = v => u = v
  BY DeadlinesAssumption DEF On, Users, Sockets

\* Each timeout is a number below the bound of what is counted.
LEMMA TimeoutType == ASSUME TypeOK, NEW op \in Ops PROVE opts[op] \in Nat /\ opts[op] < Longest
  BY OptsType, DeadlinesAssumption DEF TypeOK, Ops

\* No step disturbs Late, not even another worker's read on the same socket.
LEMMA LateStep ==
  ASSUME NoLeftover
  PROVE  TypeOK /\ Fresh /\ Idle /\ Late /\ [Next]_vars => Late'
<1> SUFFICES ASSUME TypeOK, Fresh, Idle, Late, [Next]_vars PROVE Late'
  OBVIOUS
<1>1. ASSUME NEW u \in Users, Leaves(u) PROVE Late'
  <2>1. \A v \in Users, op \in Ops : pc'[v] = op => pc[v] = op /\ waited'[v] = waited[v]
    BY <1>1 DEF Leaves, TypeOK, Ops
  <2> QED
    BY <1>1, <2>1 DEF Leaves, Late
<1>2. ASSUME NEW u \in Users, NEW o \in Ops, Waits(u, o) PROVE Late'
  <2>1. \A s \in Sockets, op \in Ops :
          left'[s][op] = IF s = On(u) /\ op = o THEN Deadline(opts[o], left[s][op])
                                                ELSE left[s][op]
    BY <1>2, OnSocket DEF Waits, TypeOK, Ops
  <2>2. \A s \in Sockets, op \in Ops : opts'[op] = 0 => left'[s][op] = Never
    BY <1>2, <2>1 DEF Waits, Late, Deadline
  <2>3. ASSUME NEW v \in Users, NEW op \in Ops, pc'[v] = op, opts'[op] > 0
        PROVE left'[On(v)][op] \in Nat /\ left'[On(v)][op] + waited'[v] >= opts'[op]
    <3>1. opts[op] > 0 /\ opts[op] \in Nat /\ waited'[v] \in Nat /\ opts' = opts /\ waited' = waited
      BY <1>2, <2>3, TimeoutType, DeadlinesAssumption DEF Waits, TypeOK
    <3>2. CASE On(v) = On(u) /\ op = o
      <4>1. left'[On(v)][op] = opts[op]
        BY <2>1, <3>1, <3>2, OnSocket DEF Deadline
      <4> QED
        BY <3>1, <4>1
    <3>3. CASE ~(On(v) = On(u) /\ op = o)
      <4>1. left'[On(v)][op] = left[On(v)][op]
        BY <2>1, <3>3, OnSocket
      <4>2. v # u
        BY <1>2, <2>3, <3>3 DEF Waits, TypeOK
      <4>3. pc[v] = op
        BY <1>2, <2>3, <4>2 DEF Waits, TypeOK
      <4> QED
        BY <3>1, <4>1, <4>3 DEF Late
    <3> QED
      BY <3>2, <3>3
  <2> QED
    BY <2>2, <2>3 DEF Late
<1>3. ASSUME NEW u \in Users, Dial(u) PROVE Late'
  <2>1. opts.handshake = 0 \/ (opts["read"] > 0 /\ opts["write"] > 0)
    BY DEF NoLeftover, TypeOK
  <2>2. opts.handshake \in Nat /\ opts["read"] \in Nat /\ opts["write"] \in Nat
    BY OptsType, DeadlinesAssumption DEF TypeOK
  <2>3. \A s \in Sockets, op \in Ops :
          left'[s][op] = IF s = u THEN Deadline(opts.handshake, Never) ELSE left[s][op]
    BY <1>3 DEF Dial, TypeOK, Ops
  <2>4. \A s \in Sockets, op \in Ops : opts'[op] = 0 => left'[s][op] = Never
    <3> SUFFICES ASSUME NEW s \in Sockets, NEW op \in Ops, opts'[op] = 0 PROVE left'[s][op] = Never
      OBVIOUS
    <3>1. opts.handshake = 0
      BY <1>3, <2>1, <2>2 DEF Dial, Ops
    <3> QED
      BY <1>3, <2>3, <3>1 DEF Dial, Late, Deadline
  <2>5. ASSUME NEW v \in Users, NEW op \in Ops, pc'[v] = op, opts'[op] > 0
        PROVE left'[On(v)][op] \in Nat /\ left'[On(v)][op] + waited'[v] >= opts'[op]
    <3>1. v # u /\ pc[v] = op /\ UNCHANGED <<opts, waited>>
      BY <1>3, <2>5 DEF Dial, TypeOK, Ops
    <3>2. left'[On(v)][op] = left[On(v)][op]
      BY <1>3, <2>3, <3>1, OnSocket DEF Dial
    <3> QED
      BY <2>5, <3>1, <3>2 DEF Late
  <2> QED
    BY <2>4, <2>5 DEF Late
<1>4. ASSUME Tick PROVE Late'
  <2>1. \A s \in Sockets, op \in Ops : opts'[op] = 0 => left'[s][op] = Never
    BY <1>4, TickEffect, SMTT(30) DEF Tick, Late
  <2>2. ASSUME NEW v \in Users, NEW op \in Ops, pc'[v] = op, opts'[op] > 0
        PROVE left'[On(v)][op] \in Nat /\ left'[On(v)][op] + waited'[v] >= opts'[op]
    <3>1. pc[v] = op /\ opts' = opts /\ opts[op] > 0
      BY <1>4, <2>2 DEF Tick
    <3>2. left[On(v)][op] \in Nat /\ left[On(v)][op] + waited[v] >= opts[op]
      BY <3>1 DEF Late
    <3>3. left[On(v)][op] # 0
      BY <1>4, <3>1 DEF Tick, InTime, Ops
    <3>4. left'[On(v)][op] = left[On(v)][op] - 1
      BY <1>4, <3>2, <3>3, TickEffect, OnSocket
    <3>5. waited'[v] = IF waited[v] < Longest THEN waited[v] + 1 ELSE waited[v]
      BY <1>4, <3>1 DEF Tick, Ops
    <3>6. waited[v] \in Nat /\ opts[op] \in Nat /\ opts[op] < Longest /\ Longest \in Nat
      BY TimeoutType, DeadlinesAssumption DEF TypeOK
    <3> QED
      BY <3>1, <3>2, <3>3, <3>4, <3>5, <3>6
  <2> QED
    BY <2>1, <2>2 DEF Late
<1>5. CASE UNCHANGED vars
  BY <1>5 DEF vars, Late
<1> QED
  BY <1>1, <1>2, <1>3, <1>4, <1>5, KindsOfStep

\* Where a handshake timeout comes with a read and a write timeout, a read or
\* write fails for lack of time only after its own timeout: neither the dialer's
\* deadline nor the workers that share the UDP socket cut it short. Without the
\* assumption it is false (client.go:101).
THEOREM NoneCutShort == ASSUME NoLeftover PROVE Spec => NotCutShort
<1>1. Init => Fresh /\ Idle /\ Late
  BY DEF Init, Fresh, Idle, Late, Users, Ops
<1>2. TypeOK /\ Late =>
        [\A u \in Users, op \in {"read", "write"} :
           TimedOut(u, op) => opts[op] > 0 /\ waited[u] >= opts[op]]_vars
  <2> SUFFICES ASSUME TypeOK, Late, NEW u \in Users, NEW op \in Ops, TimedOut(u, op)
               PROVE opts[op] > 0 /\ waited[u] >= opts[op]
    BY DEF Ops
  <2>1. pc[u] = op /\ left[On(u)][op] = 0
    BY DEF TimedOut, End, InTime
  <2>2. opts[op] \in Nat /\ waited[u] \in Nat
    BY TimeoutType, DeadlinesAssumption DEF TypeOK
  <2>3. opts[op] # 0
    BY <2>1, OnSocket, DeadlinesAssumption DEF Late
  <2> QED
    BY <2>1, <2>2, <2>3 DEF Late
<1> QED
  BY <1>1, <1>2, TypesKept, FreshStep, IdleStep, LateStep, PTL DEF Spec, NotCutShort
=============================================================================
