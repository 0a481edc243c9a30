------------------------------ MODULE ConnPool ------------------------------
(***************************************************************************)
(* PersistentConnPool (internal/network/persistent.go): the pool of open   *)
(* connections to one upstream server, shared by the goroutines that       *)
(* handle client requests, with the TLS dialer of client.go that opens     *)
(* connections.                                                            *)
(*                                                                         *)
(* The actors are                                                          *)
(*   - the goroutine NewPersistentConnPool starts to fill the pool;        *)
(*   - the callers, which call Conn(), use the connection, and end with    *)
(*     "go conn.Close()" or "go conn.Destroy()";                           *)
(*   - the goroutines those statements start (closers), and the ones that  *)
(*     close a stale or half-open connection (dying).                      *)
(* A step is what one of them does between two points at which another can *)
(* see or change the shared state: a call on the queue, a dial, a close.   *)
(***************************************************************************)
EXTENDS MRUQueue

CONSTANTS
  Callers,       \* goroutines that ask for connections
  StaleTimeout,  \* ticks; non-positive disables the staleness check
  NoConn         \* "no connection in hand"

ASSUME PoolAssumption ==
  /\ StaleTimeout \in Int
  /\ NoConn \notin Values

\* The connections the dialer may ever open; a connection is opened once.
Conns == Values

VARIABLES
  sock,      \* [Conns -> {"fresh", "open", "closed"}]: the network's view
  fillLeft,  \* iterations the filling goroutine has left
  filling,   \* the connection it has dialled and not yet pushed, or NoConn
  pc,        \* where each caller is in Conn() or after it
  hand,      \* the connection each caller has, or NoConn
  stamp,     \* the Unix second Pop returned with hand
  closers,   \* goroutines running PersistentConn.Close or .Destroy
  dying,     \* connections a bare "go conn.Close()" is about to close
  cxOpen,    \* cx_open events emitted for each connection
  cxClose,   \* cx_close events emitted for each connection
  \* History, read by properties only.
  idleSince, \* the tick at which each connection was last pushed
  dropped    \* connections the filling goroutine dialled and could not push

callVars == <<pc, hand, stamp>>
fillVars == <<fillLeft, filling, dropped>>
eventVars == <<cxOpen, cxClose>>
vars == <<store, now, sock, callVars, fillVars, closers, dying, eventVars, idleSince>>

Closer == [conn : Conns, destroyed : BOOLEAN]

-----------------------------------------------------------------------------
(* The dialer, and the connections it opens.                               *)

Fresh == {c \in Conns : sock[c] = "fresh"}

\* The TCP connection is established and the TLS handshake succeeds; the pool
\* reports the connection as opened.
DialOk(c) ==
  /\ c \in Fresh
  /\ sock' = [sock EXCEPT ![c] = "open"]
  /\ cxOpen' = [cxOpen EXCEPT ![c] = @ + 1]
  /\ UNCHANGED <<cxClose, dying>>

\* The dial fails: either no connection is established, or one is and its
\* handshake fails, in which case a goroutine is left behind to close it.
DialFail ==
  /\ \/ UNCHANGED <<sock, dying>>
     \/ \E c \in Fresh :
          /\ sock' = [sock EXCEPT ![c] = "open"]
          /\ dying' = dying \cup {c}
  /\ UNCHANGED eventVars

CloseSocket(c) == sock' = [sock EXCEPT ![c] = "closed"]

\* Push succeeds, and the history records when.
PutBack(c) ==
  /\ Insert(c)
  /\ idleSince' = [idleSince EXCEPT ![c] = now]

-----------------------------------------------------------------------------
(* NewPersistentConnPool's goroutine: Capacity rounds of dial and push.    *)

FillDial ==
  /\ fillLeft > 0 /\ filling = NoConn
  /\ \E c \in Conns : DialOk(c) /\ filling' = c
  /\ UNCHANGED <<store, now, callVars, fillLeft, dropped, closers, idleSince>>

\* Mutant of FillDialFail: one round too many.
FillDialFailOnceMore ==
  /\ fillLeft >= 0 /\ filling = NoConn
  /\ DialFail
  /\ fillLeft' = fillLeft - 1
  /\ UNCHANGED <<store, now, callVars, filling, dropped, closers, idleSince>>

FillDialFail ==
  /\ fillLeft > 0 /\ filling = NoConn
  /\ DialFail
  /\ fillLeft' = fillLeft - 1
  /\ UNCHANGED <<store, now, callVars, filling, dropped, closers, idleSince>>

\* The answer of Push is ignored: a refused connection is neither queued nor
\* closed.
FillPush ==
  /\ filling # NoConn
  /\ \/ PutBack(filling) /\ UNCHANGED dropped
     \/ Refuse(filling) /\ dropped' = dropped \cup {filling} /\ UNCHANGED idleSince
  /\ fillLeft' = fillLeft - 1
  /\ filling' = NoConn
  /\ UNCHANGED <<now, sock, callVars, closers, dying, eventVars>>

-----------------------------------------------------------------------------
(* Conn().                                                                 *)

\* p.conns.Pop() answers an item.
ConnPop(r) ==
  /\ pc[r] = "idle"
  /\ \E x \in store :
       /\ Pop(x)
       /\ hand' = [hand EXCEPT ![r] = x.value]
       /\ stamp' = [stamp EXCEPT ![r] = x.priority]
  /\ pc' = [pc EXCEPT ![r] = "popped"]
  /\ UNCHANGED <<now, sock, fillVars, closers, dying, eventVars, idleSince>>

\* p.conns.Pop() answers that the queue is empty.
ConnPopEmpty(r) ==
  /\ pc[r] = "idle"
  /\ store = {}
  /\ pc' = [pc EXCEPT ![r] = "dial"]
  /\ UNCHANGED <<store, now, sock, hand, stamp, fillVars, closers, dying, eventVars, idleSince>>

\* Mutant of IsFresh: the timeout itself still counts as fresh.
IsFreshInclusive(sec) == StaleTimeout <= 0 \/ SinceUnix(sec) <= StaleTimeout

IsFresh(sec) == StaleTimeout <= 0 \/ SinceUnix(sec) < StaleTimeout

ConnReuse(r) ==
  /\ pc[r] = "popped"
  /\ IsFresh(stamp[r])
  /\ pc' = [pc EXCEPT ![r] = "hold"]
  /\ UNCHANGED <<store, now, sock, hand, stamp, fillVars, closers, dying, eventVars, idleSince>>

\* Mutant of ConnStale: the stale connection is closed, and used all the same.
ConnStaleUsed(r) ==
  /\ pc[r] = "popped"
  /\ ~IsFresh(stamp[r])
  /\ cxClose' = [cxClose EXCEPT ![hand[r]] = @ + 1]
  /\ dying' = dying \cup {hand[r]}
  /\ pc' = [pc EXCEPT ![r] = "hold"]
  /\ UNCHANGED <<store, now, sock, hand, stamp, fillVars, closers, cxOpen, idleSince>>

ConnStale(r) ==
  /\ pc[r] = "popped"
  /\ ~IsFresh(stamp[r])
  /\ cxClose' = [cxClose EXCEPT ![hand[r]] = @ + 1]
  /\ dying' = dying \cup {hand[r]}
  /\ hand' = [hand EXCEPT ![r] = NoConn]
  /\ pc' = [pc EXCEPT ![r] = "dial"]
  /\ UNCHANGED <<store, now, sock, stamp, fillVars, closers, cxOpen, idleSince>>

ConnDial(r) ==
  /\ pc[r] = "dial"
  /\ \E c \in Conns : DialOk(c) /\ hand' = [hand EXCEPT ![r] = c]
  /\ pc' = [pc EXCEPT ![r] = "hold"]
  /\ UNCHANGED <<store, now, stamp, fillVars, closers, idleSince>>

\* Conn() answers an error.
ConnDialFail(r) ==
  /\ pc[r] = "dial"
  /\ DialFail
  /\ pc' = [pc EXCEPT ![r] = "idle"]
  /\ UNCHANGED <<store, now, hand, stamp, fillVars, closers, idleSince>>

-----------------------------------------------------------------------------
(* What a caller does with the PersistentConn it was given.                *)

\* "go upstream.Close()" or "go upstream.Destroy()", once per connection.
Finish(r, destroyed) ==
  /\ pc[r] = "hold"
  /\ closers' = closers \cup {[conn |-> hand[r], destroyed |-> destroyed]}
  /\ hand' = [hand EXCEPT ![r] = NoConn]
  /\ pc' = [pc EXCEPT ![r] = "idle"]
  /\ UNCHANGED <<store, now, sock, stamp, fillVars, dying, eventVars, idleSince>>

\* Mutant of RunClose: put() ignores what Push answers.
RunCloseIgnored(k) ==
  /\ k \in closers /\ ~k.destroyed
  /\ \/ PutBack(k.conn)
     \/ Refuse(k.conn) /\ UNCHANGED idleSince
  /\ closers' = closers \ {k}
  /\ UNCHANGED <<now, sock, callVars, fillVars, dying, eventVars>>

\* Mutant of RunClose: cx_close is emitted before it is known whether the
\* connection will be closed.
RunCloseReported(k) ==
  /\ k \in closers /\ ~k.destroyed
  /\ \/ PutBack(k.conn) /\ UNCHANGED sock
     \/ Refuse(k.conn) /\ CloseSocket(k.conn) /\ UNCHANGED idleSince
  /\ cxClose' = [cxClose EXCEPT ![k.conn] = @ + 1]
  /\ closers' = closers \ {k}
  /\ UNCHANGED <<now, callVars, fillVars, dying, cxOpen>>

\* The closer callback of a connection that was not destroyed: put().
RunClose(k) ==
  /\ k \in closers /\ ~k.destroyed
  /\ \/ PutBack(k.conn) /\ UNCHANGED sock
     \/ Refuse(k.conn) /\ CloseSocket(k.conn) /\ UNCHANGED idleSince
  /\ closers' = closers \ {k}
  /\ UNCHANGED <<now, callVars, fillVars, dying, eventVars>>

\* Mutant of RunDestroy: without its return, the closed connection is put back.
RunDestroyPut(k) ==
  /\ k \in closers /\ k.destroyed
  /\ cxClose' = [cxClose EXCEPT ![k.conn] = @ + 1]
  /\ CloseSocket(k.conn)
  /\ PutBack(k.conn)
  /\ closers' = closers \ {k}
  /\ UNCHANGED <<now, callVars, fillVars, dying, cxOpen>>

\* The closer callback of a destroyed connection.
RunDestroy(k) ==
  /\ k \in closers /\ k.destroyed
  /\ cxClose' = [cxClose EXCEPT ![k.conn] = @ + 1]
  /\ CloseSocket(k.conn)
  /\ closers' = closers \ {k}
  /\ UNCHANGED <<store, now, callVars, fillVars, dying, cxOpen, idleSince>>

\* A bare "go conn.Close()" runs.
RunDying(c) ==
  /\ c \in dying
  /\ CloseSocket(c)
  /\ dying' = dying \ {c}
  /\ UNCHANGED <<store, now, callVars, fillVars, closers, eventVars, idleSince>>

Pass ==
  /\ Tick
  /\ UNCHANGED <<store, sock, callVars, fillVars, closers, dying, eventVars, idleSince>>

-----------------------------------------------------------------------------

Init ==
  /\ QInit
  /\ sock = [c \in Conns |-> "fresh"]
  /\ fillLeft = IF Capacity > 0 THEN Capacity ELSE 0
  /\ filling = NoConn
  /\ pc = [r \in Callers |-> "idle"]
  /\ hand = [r \in Callers |-> NoConn]
  /\ stamp = [r \in Callers |-> 0]
  /\ closers = {}
  /\ dying = {}
  /\ cxOpen = [c \in Conns |-> 0]
  /\ cxClose = [c \in Conns |-> 0]
  /\ idleSince = [c \in Conns |-> 0]
  /\ dropped = {}

Fill == FillDial \/ FillDialFail \/ FillPush

Call(r) ==
  \/ ConnPop(r) \/ ConnPopEmpty(r)
  \/ ConnReuse(r) \/ ConnStale(r)
  \/ ConnDial(r) \/ ConnDialFail(r)

Background ==
  \/ Fill
  \/ \E k \in closers : RunClose(k) \/ RunDestroy(k)
  \/ \E c \in dying : RunDying(c)

Next ==
  \/ Background
  \/ \E r \in Callers : Call(r) \/ Finish(r, TRUE) \/ Finish(r, FALSE)
  \/ Pass

Spec == Init /\ [][Next]_vars

-----------------------------------------------------------------------------
(* Properties.                                                             *)

\* The values the variables range over (persistent.go's types).
TypeOK ==
  /\ store \subseteq Item
  /\ now \in Nat
  /\ sock \in [Conns -> {"fresh", "open", "closed"}]
  /\ fillLeft \in Nat
  /\ filling \in Conns \cup {NoConn}
  /\ pc \in [Callers -> {"idle", "popped", "dial", "hold"}]
  /\ hand \in [Callers -> Conns \cup {NoConn}]
  /\ stamp \in [Callers -> Nat]
  /\ closers \subseteq Closer
  /\ dying \subseteq Conns
  /\ cxOpen \in [Conns -> Nat]
  /\ cxClose \in [Conns -> Nat]
  /\ idleSince \in [Conns -> Nat]
  /\ dropped \subseteq Conns

\* Where a connection can be besides the queue.
Held == {hand[r] : r \in Callers} \ {NoConn}
Filling == {filling} \ {NoConn}
Closing == {k.conn : k \in closers}

Open == {c \in Conns : sock[c] = "open"}

\* A connection has at most one owner: it is in the queue once, or in the hand
\* of one caller, or with one closing goroutine.  Two requests never write to
\* the same connection, whatever the interleaving of Pop, put() and Destroy.
Exclusive ==
  /\ \A x, y \in store : x.value = y.value => x = y
  /\ \A r, s \in Callers : hand[r] = hand[s] => r = s \/ hand[r] = NoConn
  /\ \A k, l \in closers : k.conn = l.conn => k = l
  /\ Queued \cap (Held \cup Filling \cup Closing \cup dying \cup dropped) = {}
  /\ Held \cap (Filling \cup Closing \cup dying \cup dropped) = {}
  /\ Filling \cap (Closing \cup dying \cup dropped) = {}
  /\ Closing \cap (dying \cup dropped) = {}
  /\ dying \cap dropped = {}

\* The proxy never queues, holds or returns to the pool a connection it has
\* closed itself: put(), the stale path and Destroy do not race on one.
UsableIsOpen == Queued \cup Held \cup Filling \cup Closing \cup dying \subseteq Open

\* The pool keeps at most Capacity connections (PersistentConnPoolOpts), even
\* though Push compares with = and the filling goroutine competes with put().
CapacityBound == Capacity > 0 => Cardinality(store) <= Capacity

\* A connection that is open is in the queue, in use or about to be closed:
\* no path of Conn(), put() or Close forgets one.
NoLeak == Open \subseteq Queued \cup Held \cup Filling \cup Closing \cup dying

\* Every open connection is somewhere, forgotten ones included.
Accounted == Open \subseteq Queued \cup Held \cup Filling \cup Closing \cup dying \cup dropped

\* The one exception to NoLeak: the filling goroutine, which ignores what Push
\* answers, may forget a connection in each of its Capacity rounds, no more.
LeaksOnlyByFilling ==
  /\ Accounted
  /\ Capacity > 0 => Cardinality(dropped) + fillLeft <= Capacity

\* cx_open and cx_close are emitted at most once per connection, cx_close only
\* after cx_open, and never for a connection that can still be used.
EventsHonest ==
  \A c \in Conns :
    /\ cxOpen[c] <= 1
    /\ cxClose[c] <= cxOpen[c]
    /\ c \in Queued \cup Held \cup Filling => cxOpen[c] = 1 /\ cxClose[c] = 0

\* Conn() reuses a cached connection.
Reuses(r) == pc[r] = "popped" /\ pc'[r] = "hold"

\* Conn() never reuses a connection that has been idle for StaleTimeout or
\* longer, although it measures the idle time from a time cut to the second.
NeverReusesStale ==
  [][\A r \in Callers :
       Reuses(r) /\ StaleTimeout > 0 => now - idleSince[hand[r]] < StaleTimeout]_vars

-----------------------------------------------------------------------------
(* The inductive invariant of the proofs, part by part.                    *)

\* A caller has a connection exactly between Pop or dial and the end of use,
\* and the filling goroutine only within a round.
Coupled ==
  /\ \A r \in Callers : hand[r] # NoConn <=> pc[r] \in {"popped", "hold"}
  /\ filling # NoConn => fillLeft > 0

\* No second goroutine has a connection, all that have one have it open, and
\* every open connection is somewhere.
Owned == Exclusive /\ UsableIsOpen /\ dropped \subseteq Open /\ Accounted

\* The filling goroutine's rounds, done and to do, are Capacity in all.
Rounds ==
  /\ IsFiniteSet(dropped)
  /\ Capacity <= 0 => fillLeft = 0
  /\ Capacity > 0 => Cardinality(dropped) + fillLeft <= Capacity

\* The connections somebody may yet write to, or return to the pool.
InUse == Queued \cup Held \cup Filling \cup Closing

\* EventsHonest, with what it needs of the connections not yet opened and of
\* those on their way to put() or Destroy.
Events ==
  \A c \in Conns :
    /\ cxOpen[c] <= 1
    /\ cxClose[c] <= cxOpen[c]
    /\ c \in Fresh => cxOpen[c] = 0
    /\ c \in InUse => cxOpen[c] = 1 /\ cxClose[c] = 0

\* An item's tag, and the one Pop returned, is no later than the push.
Tagged ==
  /\ \A x \in store : x.priority * Second <= idleSince[x.value]
  /\ \A r \in Callers : pc[r] = "popped" => stamp[r] * Second <= idleSince[hand[r]]

IInv ==
  /\ TypeOK
  /\ Coupled
  /\ Owned
  /\ IsFiniteSet(store) /\ CapacityBound
  /\ Rounds
  /\ Events
  /\ Tagged
=============================================================================
