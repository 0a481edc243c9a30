--------------------------- MODULE ConnPoolProofs ---------------------------
(***************************************************************************)
(* Proofs about ConnPool for every set of connections and callers, every   *)
(* capacity and every stale timeout.                                       *)
(***************************************************************************)
EXTENDS ConnPool, FiniteSetTheorems, TLAPS

\* Every step keeps the types and the pc/hand coupling.
LEMMA TypeStep ==
  ASSUME TypeOK, Coupled, [Next]_vars
  PROVE  TypeOK' /\ Coupled'
<1> USE QueueAssumption, PoolAssumption DEF TypeOK, Coupled, Conns, Item, Closer
<1>1. CASE FillDial
  BY <1>1 DEF FillDial, DialOk, Fresh, callVars
<1>2. CASE FillDialFail
  BY <1>2 DEF FillDialFail, DialFail, Fresh, eventVars, callVars
<1>3. CASE FillPush
  BY <1>3 DEF FillPush, PutBack, Insert, Refuse, Unix, eventVars, callVars
<1>4. ASSUME NEW r \in Callers, Call(r) PROVE TypeOK' /\ Coupled'
  <2>1. CASE ConnPop(r)
    BY <2>1 DEF ConnPop, Pop, MostRecent, fillVars, eventVars
  <2>2. CASE ConnPopEmpty(r)
    BY <2>2 DEF ConnPopEmpty, fillVars, eventVars
  <2>3. CASE ConnReuse(r)
    BY <2>3 DEF ConnReuse, fillVars, eventVars
  <2>4. CASE ConnStale(r)
    BY <2>4 DEF ConnStale, fillVars
  <2>5. CASE ConnDial(r)
    BY <2>5 DEF ConnDial, DialOk, Fresh, fillVars
  <2>6. CASE ConnDialFail(r)
    BY <2>6 DEF ConnDialFail, DialFail, Fresh, fillVars, eventVars
  <2> QED BY <1>4, <2>1, <2>2, <2>3, <2>4, <2>5, <2>6 DEF Call
<1>5. ASSUME NEW r \in Callers, NEW d \in BOOLEAN, Finish(r, d) PROVE TypeOK' /\ Coupled'
  BY <1>5 DEF Finish, fillVars, eventVars
<1>6. ASSUME NEW k \in closers, RunClose(k) PROVE TypeOK' /\ Coupled'
  BY <1>6, SMTT(30) DEF RunClose, PutBack, Insert, Refuse, Unix, CloseSocket, callVars, fillVars, eventVars
<1>7. ASSUME NEW k \in closers, RunDestroy(k) PROVE TypeOK' /\ Coupled'
  BY <1>7 DEF RunDestroy, CloseSocket, callVars, fillVars
<1>8. ASSUME NEW c \in dying, RunDying(c) PROVE TypeOK' /\ Coupled'
  BY <1>8 DEF RunDying, CloseSocket, callVars, fillVars, eventVars
<1>9. CASE Pass
  BY <1>9 DEF Pass, Tick, callVars, fillVars, eventVars
<1>10. CASE UNCHANGED vars
  BY <1>10 DEF vars, callVars, fillVars, eventVars
<1> QED
  BY <1>1, <1>2, <1>3, <1>4, <1>5, <1>6, <1>7, <1>8, <1>9, <1>10, Zenon DEF Next, Background, Fill

\* A step that moves no connection leaves the places connections are in alone.
LEMMA PlacesFrame ==
  ASSUME UNCHANGED <<store, sock, hand, filling, closers, dying, dropped>>, Owned
  PROVE  Owned'
<1>1. Queued' = Queued  BY DEF Queued
<1>2. Held' = Held  BY DEF Held
<1>3. Filling' = Filling  BY DEF Filling
<1>4. Closing' = Closing  BY DEF Closing
<1>5. Open' = Open  BY DEF Open, Conns
<1>6. UsableIsOpen'
  BY <1>1, <1>2, <1>3, <1>4, <1>5 DEF Owned, UsableIsOpen
<1>7. Exclusive'
  BY <1>1, <1>2, <1>3, <1>4, <1>5 DEF Owned, Exclusive
<1>8. Accounted'
  BY <1>1, <1>2, <1>3, <1>4, <1>5 DEF Owned, Accounted
<1> QED BY <1>5, <1>6, <1>7, <1>8 DEF Owned

\* Push of a connection that is not queued queues it once.
LEMMA InsertOnce ==
  ASSUME NEW c, c \notin Queued, Insert(c), Exclusive
  PROVE  /\ Queued' = Queued \cup {c}
         /\ \A x, y \in store' : x.value = y.value => x = y
<1> DEFINE new == [value |-> c, priority |-> Unix(now)]
<1>1. store' = store \cup {new} /\ new.value = c
  BY DEF Insert
<1>2. \A x \in store : x.value # c
  BY DEF Queued
<1> HIDE DEF new
<1>3. Queued' = Queued \cup {c}
  BY <1>1 DEF Queued
<1> QED BY <1>1, <1>2, <1>3 DEF Exclusive

\* Every step keeps connections exclusively owned, and open while owned: each
\* moves one connection from one place to another.
LEMMA OwnedStep ==
  ASSUME TypeOK, Coupled, Owned, [Next]_vars
  PROVE  Owned'
<1> USE QueueAssumption, PoolAssumption DEF TypeOK, Coupled, Conns
<1>1. CASE FillDial
  <2>1. PICK c \in Conns : DialOk(c) /\ filling' = c
    BY <1>1 DEF FillDial
  <2>2. /\ Open' = Open \cup {c} /\ c \notin Open
        /\ Filling' = {c} /\ Filling = {}
        /\ Queued' = Queued /\ Held' = Held /\ Closing' = Closing
        /\ UNCHANGED <<store, hand, closers, dying, dropped>>
    BY <1>1, <2>1 DEF FillDial, DialOk, Fresh, callVars, Open, Filling, Queued, Held, Closing
  <2> QED BY <2>2 DEF Owned, Exclusive, UsableIsOpen, Accounted
<1>2. ASSUME DialFail, UNCHANGED <<store, hand, filling, closers, dropped>> PROVE Owned'
  <2>1. CASE UNCHANGED <<sock, dying>>
    BY <1>2, <2>1, PlacesFrame
  <2>2. CASE \E c \in Fresh : sock' = [sock EXCEPT ![c] = "open"] /\ dying' = dying \cup {c}
    <3>1. PICK c \in Fresh : sock' = [sock EXCEPT ![c] = "open"] /\ dying' = dying \cup {c}
      BY <2>2, Zenon
    <3>2. /\ Open' = Open \cup {c} /\ c \notin Open
          /\ Queued' = Queued /\ Held' = Held /\ Closing' = Closing /\ Filling' = Filling
      BY <1>2, <3>1 DEF Fresh, Open, Filling, Queued, Held, Closing
    <3> QED BY <1>2, <3>1, <3>2, SMTT(30) DEF Owned, Exclusive, UsableIsOpen, Accounted
  <2> QED BY <1>2, <2>1, <2>2 DEF DialFail
<1>3. CASE FillPush
  <2>1. /\ Filling = {filling} /\ Filling' = {}
        /\ Held' = Held /\ Closing' = Closing /\ Open' = Open
        /\ UNCHANGED <<hand, closers, dying>>
    BY <1>3 DEF FillPush, callVars, Open, Filling, Held, Closing
  <2>2. CASE PutBack(filling) /\ UNCHANGED dropped
    <3>1. /\ Queued' = Queued \cup {filling}
          /\ \A x, y \in store' : x.value = y.value => x = y
      <4>1. filling \notin Queued
        BY <2>1 DEF Owned, Exclusive
      <4> QED BY <2>2, <4>1, InsertOnce DEF PutBack, Owned
    <3> QED BY <2>1, <2>2, <3>1 DEF Owned, Exclusive, UsableIsOpen, Accounted
  <2>3. CASE Refuse(filling) /\ dropped' = dropped \cup {filling}
    <3>1. Queued' = Queued /\ UNCHANGED store
      BY <2>3 DEF Refuse, Queued
    <3> QED BY <2>1, <2>3, <3>1 DEF Owned, Exclusive, UsableIsOpen, Accounted
  <2> QED BY <1>3, <2>2, <2>3 DEF FillPush
<1>4. ASSUME NEW r \in Callers, Call(r) PROVE Owned'
  <2>1. CASE ConnPop(r)
    <3>1. PICK x \in store : Pop(x) /\ hand' = [hand EXCEPT ![r] = x.value]
      BY <2>1, Zenon DEF ConnPop
    <3>2. /\ store' = store \ {x} /\ x.value \in Queued /\ x.value \in Conns
          /\ Queued' = Queued \ {x.value}
      BY <3>1 DEF Pop, Queued, Item, Owned, Exclusive
    <3>3. /\ Held' = Held \cup {x.value}
          /\ Filling' = Filling /\ Closing' = Closing /\ Open' = Open
          /\ UNCHANGED <<closers, dying, dropped>>
      BY <2>1, <3>1, <3>2, SMTT(30) DEF ConnPop, fillVars, Held, Filling, Closing, Open
    <3>4. \A q, s \in Callers : hand'[q] = hand'[s] => q = s \/ hand'[q] = NoConn
      BY <3>1, <3>2 DEF Owned, Exclusive, Held
    <3> QED BY <3>2, <3>3, <3>4, SMTT(30) DEF Owned, Exclusive, UsableIsOpen, Accounted
  <2>2. CASE ConnPopEmpty(r) \/ ConnReuse(r)
    BY <2>2, PlacesFrame DEF ConnPopEmpty, ConnReuse, fillVars
  <2>3. CASE ConnStale(r)
    <3>1. /\ hand[r] \in Held /\ Held' = Held \ {hand[r]}
          /\ dying' = dying \cup {hand[r]}
          /\ Queued' = Queued /\ Filling' = Filling /\ Closing' = Closing /\ Open' = Open
          /\ UNCHANGED <<store, closers, dropped>>
      BY <2>3 DEF ConnStale, fillVars, Held, Queued, Filling, Closing, Open, Owned, Exclusive
    <3>2. \A q, s \in Callers : hand'[q] = hand'[s] => q = s \/ hand'[q] = NoConn
      BY <2>3 DEF ConnStale, Owned, Exclusive
    <3> QED BY <3>1, <3>2 DEF Owned, Exclusive, UsableIsOpen, Accounted
  <2>4. CASE ConnDial(r)
    <3>1. PICK c \in Conns : DialOk(c) /\ hand' = [hand EXCEPT ![r] = c]
      BY <2>4, Zenon DEF ConnDial
    <3>2. /\ Open' = Open \cup {c} /\ c \notin Open
          /\ Held' = Held \cup {c}
          /\ Queued' = Queued /\ Filling' = Filling /\ Closing' = Closing
          /\ UNCHANGED <<store, closers, dying, dropped>>
      BY <2>4, <3>1 DEF ConnDial, DialOk, Fresh, fillVars, Open, Held, Queued, Filling, Closing
    <3>3. \A q, s \in Callers : hand'[q] = hand'[s] => q = s \/ hand'[q] = NoConn
      BY <3>1, <3>2 DEF Owned, Exclusive, Held, UsableIsOpen
    <3> QED BY <3>2, <3>3 DEF Owned, Exclusive, UsableIsOpen, Accounted
  <2>5. CASE ConnDialFail(r)
    BY <2>5, <1>2 DEF ConnDialFail, fillVars
  <2> QED BY <1>4, <2>1, <2>2, <2>3, <2>4, <2>5 DEF Call
<1>5. ASSUME NEW r \in Callers, NEW d \in BOOLEAN, Finish(r, d) PROVE Owned'
  <2>1. /\ hand[r] \in Held /\ Held' = Held \ {hand[r]}
        /\ Queued' = Queued /\ Filling' = Filling /\ Open' = Open
        /\ UNCHANGED <<store, dying, dropped>>
    BY <1>5 DEF Finish, fillVars, Held, Queued, Filling, Open, Owned, Exclusive
  <2>2. Closing' = Closing \cup {hand[r]}
    <3> DEFINE k == [conn |-> hand[r], destroyed |-> d]
    <3>1. closers' = closers \cup {k} /\ k.conn = hand[r]
      BY <1>5 DEF Finish
    <3> HIDE DEF k
    <3> QED BY <3>1 DEF Closing
  <2>3. \A k, m \in closers' : k.conn = m.conn => k = m
    BY <1>5, <2>1, SMTT(30) DEF Finish, Closing, Owned, Exclusive
  <2>4. \A q, s \in Callers : hand'[q] = hand'[s] => q = s \/ hand'[q] = NoConn
    BY <1>5 DEF Finish, Owned, Exclusive
  <2> QED BY <2>1, <2>2, <2>3, <2>4, SMTT(30) DEF Owned, Exclusive, UsableIsOpen, Accounted
<1>6. ASSUME NEW k \in closers, RunClose(k) PROVE Owned'
  <2>1. /\ k.conn \in Closing /\ k.conn \in Conns /\ Closing' = Closing \ {k.conn}
        /\ Held' = Held /\ Filling' = Filling
        /\ closers' = closers \ {k}
        /\ UNCHANGED <<hand, dying, dropped>>
    BY <1>6 DEF RunClose, callVars, fillVars, Closer, Held, Filling, Closing, Owned, Exclusive
  <2>2. CASE PutBack(k.conn) /\ UNCHANGED sock
    <3>1. /\ Queued' = Queued \cup {k.conn}
          /\ \A x, y \in store' : x.value = y.value => x = y
      <4>1. k.conn \notin Queued
        BY <2>1 DEF Owned, Exclusive
      <4> QED BY <2>2, <4>1, InsertOnce DEF PutBack, Owned
    <3>2. Open' = Open
      BY <2>2 DEF Open
    <3> QED BY <2>1, <3>1, <3>2, SMTT(30) DEF Owned, Exclusive, UsableIsOpen, Accounted
  <2>3. CASE Refuse(k.conn) /\ CloseSocket(k.conn)
    <3>1. Queued' = Queued /\ UNCHANGED store /\ Open' = Open \ {k.conn}
      BY <2>1, <2>3 DEF Refuse, CloseSocket, Queued, Open
    <3> QED BY <2>1, <3>1, SMTT(30) DEF Owned, Exclusive, UsableIsOpen, Accounted
  <2> QED BY <1>6, <2>2, <2>3 DEF RunClose
<1>7. ASSUME NEW k \in closers, RunDestroy(k) PROVE Owned'
  <2>1. /\ k.conn \in Closing /\ k.conn \in Conns /\ Closing' = Closing \ {k.conn}
        /\ Open' = Open \ {k.conn}
        /\ Queued' = Queued /\ Held' = Held /\ Filling' = Filling
        /\ closers' = closers \ {k}
        /\ UNCHANGED <<store, hand, dying, dropped>>
    BY <1>7, SMTT(30) DEF RunDestroy, CloseSocket, callVars, fillVars, Closer, Held, Queued, Filling,
                Closing, Open, Owned, Exclusive
  <2> QED BY <2>1, SMTT(30) DEF Owned, Exclusive, UsableIsOpen, Accounted
<1>8. ASSUME NEW c \in dying, RunDying(c) PROVE Owned'
  <2>1. /\ dying' = dying \ {c} /\ Open' = Open \ {c}
        /\ Queued' = Queued /\ Held' = Held /\ Filling' = Filling /\ Closing' = Closing
        /\ UNCHANGED <<store, hand, closers, dropped>>
    BY <1>8, SMTT(30) DEF RunDying, CloseSocket, callVars, fillVars, Held, Queued, Filling, Closing, Open
  <2> QED BY <1>8, <2>1, SMTT(30) DEF Owned, Exclusive, UsableIsOpen, Accounted
<1>9. CASE Pass \/ UNCHANGED vars
  BY <1>9, PlacesFrame DEF Pass, vars, callVars, fillVars
<1>10. CASE FillDialFail
  BY <1>2, <1>10 DEF FillDialFail, callVars
<1> QED
  BY <1>1, <1>3, <1>4, <1>5, <1>6, <1>7, <1>8, <1>9, <1>10, Zenon DEF Next, Background, Fill

\* One more element makes a finite set at most one larger.
LEMMA AddBound ==
  ASSUME NEW S, NEW x, IsFiniteSet(S)
  PROVE  /\ IsFiniteSet(S \cup {x})
         /\ Cardinality(S) \in Nat /\ Cardinality(S \cup {x}) \in Nat
         /\ Cardinality(S \cup {x}) <= Cardinality(S) + 1
<1>1. /\ IsFiniteSet(S \cup {x})
      /\ Cardinality(S \cup {x}) = IF x \in S THEN Cardinality(S) ELSE Cardinality(S) + 1
  BY FS_AddElement
<1>2. Cardinality(S) \in Nat
  BY FS_CardinalityType
<1> QED BY <1>1, <1>2

\* The queue stays finite and within the capacity: only Push adds to it, and
\* not when it is full.
LEMMA CapacityStep ==
  ASSUME TypeOK, IsFiniteSet(store), CapacityBound, [Next]_vars
  PROVE  IsFiniteSet(store)' /\ CapacityBound'
<1> USE QueueAssumption DEF CapacityBound
<1>1. ASSUME NEW c, Insert(c) PROVE IsFiniteSet(store)' /\ CapacityBound'
  <2> DEFINE new == [value |-> c, priority |-> Unix(now)]
  <2>1. store' = store \cup {new} /\ (Capacity > 0 => Cardinality(store) # Capacity)
    BY <1>1 DEF Insert, Full
  <2> HIDE DEF new
  <2>2. /\ IsFiniteSet(store') /\ Cardinality(store) \in Nat /\ Cardinality(store') \in Nat
        /\ Cardinality(store') <= Cardinality(store) + 1
    BY <2>1, AddBound, Zenon
  <2> QED BY <2>1, <2>2
<1>2. ASSUME NEW x, store' = store \ {x} PROVE IsFiniteSet(store)' /\ CapacityBound'
  <2>1. /\ IsFiniteSet(store') /\ Cardinality(store) \in Nat /\ Cardinality(store') \in Nat
        /\ Cardinality(store') <= Cardinality(store)
    BY <1>2, FS_RemoveElement, FS_CardinalityType, SMTT(30)
  <2> QED BY <2>1
<1>3. CASE FillPush
  BY <1>1, <1>3 DEF FillPush, PutBack, Refuse
<1>4. ASSUME NEW r \in Callers, ConnPop(r) PROVE IsFiniteSet(store)' /\ CapacityBound'
  BY <1>2, <1>4, Zenon DEF ConnPop, Pop
<1>5. ASSUME NEW k \in closers, RunClose(k) PROVE IsFiniteSet(store)' /\ CapacityBound'
  BY <1>1, <1>5 DEF RunClose, PutBack, Refuse
<1>6. ASSUME UNCHANGED store PROVE IsFiniteSet(store)' /\ CapacityBound'
  BY <1>6
<1>7. CASE FillDial \/ FillDialFail \/ Pass \/ UNCHANGED vars
  BY <1>6, <1>7 DEF FillDial, FillDialFail, Pass, vars
<1>8. ASSUME NEW r \in Callers, Call(r) \/ Finish(r, TRUE) \/ Finish(r, FALSE)
      PROVE IsFiniteSet(store)' /\ CapacityBound'
  BY <1>4, <1>6, <1>8 DEF Call, ConnPopEmpty, ConnReuse, ConnStale, ConnDial, ConnDialFail, Finish
<1>9. ASSUME NEW k \in closers, RunDestroy(k) PROVE IsFiniteSet(store)' /\ CapacityBound'
  BY <1>6, <1>9 DEF RunDestroy
<1>10. ASSUME NEW c \in dying, RunDying(c) PROVE IsFiniteSet(store)' /\ CapacityBound'
  BY <1>6, <1>10 DEF RunDying
<1> QED
  BY <1>3, <1>5, <1>7, <1>8, <1>9, <1>10, Zenon DEF Next, Background, Fill

\* A round of the filling goroutine forgets at most one connection.
LEMMA RoundsStep ==
  ASSUME TypeOK, Coupled, Rounds, [Next]_vars
  PROVE  Rounds'
<1> USE QueueAssumption DEF TypeOK, Rounds
<1>1. Cardinality(dropped) \in Nat
  BY FS_CardinalityType
<1>2. CASE FillPush
  <2>1. fillLeft > 0 /\ fillLeft' = fillLeft - 1
    BY <1>2 DEF FillPush, Coupled
  <2>2. CASE UNCHANGED dropped
    BY <1>1, <2>1, <2>2
  <2>3. CASE dropped' = dropped \cup {filling}
    <3>1. /\ IsFiniteSet(dropped') /\ Cardinality(dropped') \in Nat
          /\ Cardinality(dropped') <= Cardinality(dropped) + 1
      BY <2>3, AddBound
    <3> QED BY <1>1, <2>1, <3>1
  <2> QED BY <1>2, <2>2, <2>3 DEF FillPush
<1>3. CASE FillDialFail
  BY <1>1, <1>3 DEF FillDialFail
<1>4. ASSUME UNCHANGED <<fillLeft, dropped>> PROVE Rounds'
  BY <1>4
<1>5. CASE FillDial \/ Pass \/ UNCHANGED vars
  BY <1>4, <1>5 DEF FillDial, Pass, vars, fillVars
<1>6. ASSUME NEW r \in Callers, Call(r) \/ Finish(r, TRUE) \/ Finish(r, FALSE) PROVE Rounds'
  BY <1>4, <1>6 DEF Call, ConnPop, ConnPopEmpty, ConnReuse, ConnStale, ConnDial, ConnDialFail,
                    Finish, fillVars
<1>7. ASSUME NEW k \in closers, RunClose(k) \/ RunDestroy(k) PROVE Rounds'
  BY <1>4, <1>7 DEF RunClose, RunDestroy, fillVars
<1>8. ASSUME NEW c \in dying, RunDying(c) PROVE Rounds'
  BY <1>4, <1>8 DEF RunDying, fillVars
<1> QED
  BY <1>2, <1>3, <1>5, <1>6, <1>7, <1>8, Zenon DEF Next, Background, Fill

\* A step that emits no event keeps Events if it opens no connection for use.
LEMMA EventsFrame ==
  ASSUME Events, UNCHANGED eventVars, Fresh' \subseteq Fresh, InUse' \subseteq InUse
  PROVE  Events'
BY DEF Events, eventVars, Conns

\* A connection that is opened for use has exactly the one cx_open event.
LEMMA EventsOpen ==
  ASSUME TypeOK, Events, NEW c \in Conns, DialOk(c), InUse' \subseteq InUse \cup {c}
  PROVE  Events'
<1>1. cxOpen[c] = 0 /\ cxClose[c] = 0
  BY DEF TypeOK, Events, DialOk
<1>2. /\ Fresh' \subseteq Fresh \ {c}
      /\ cxOpen' = [cxOpen EXCEPT ![c] = 1] /\ cxClose' = cxClose
  BY <1>1 DEF TypeOK, DialOk, Fresh, Conns
<1> QED BY <1>1, <1>2 DEF TypeOK, Events, Conns

\* A connection that is in use when its cx_close is emitted had none before.
LEMMA EventsClose ==
  ASSUME TypeOK, Events, NEW c \in InUse, c \in Conns,
         cxClose' = [cxClose EXCEPT ![c] = @ + 1], UNCHANGED cxOpen,
         Fresh' \subseteq Fresh, InUse' \subseteq InUse \ {c}
  PROVE  Events'
BY DEF TypeOK, Events, Conns

\* Every step keeps the lifecycle events in order.
LEMMA EventsStep ==
  ASSUME TypeOK, Coupled, Owned, Events, [Next]_vars
  PROVE  Events'
<1> USE PoolAssumption DEF TypeOK, Coupled, Conns
<1>1. CASE FillDial
  <2>1. PICK c \in Conns : DialOk(c) /\ filling' = c
    BY <1>1 DEF FillDial
  <2>2. InUse' \subseteq InUse \cup {c}
    BY <1>1, <2>1 DEF FillDial, callVars, InUse, Queued, Held, Filling, Closing
  <2> QED BY <2>1, <2>2, EventsOpen
<1>2. CASE FillDialFail
  <2>1. InUse' = InUse /\ Fresh' \subseteq Fresh
    BY <1>2 DEF FillDialFail, DialFail, callVars, InUse, Queued, Held, Filling, Closing, Fresh
  <2> QED BY <1>2, <2>1, EventsFrame DEF FillDialFail, DialFail
<1>3. CASE FillPush
  <2>1. InUse' \subseteq InUse /\ Fresh' = Fresh
    BY <1>3, SMTT(30) DEF FillPush, PutBack, Insert, Refuse, callVars, InUse, Queued, Held, Filling, Closing, Fresh
  <2> QED BY <1>3, <2>1, EventsFrame DEF FillPush
<1>4. ASSUME NEW r \in Callers, Call(r) PROVE Events'
  <2>1. CASE ConnPop(r)
    <3>1. InUse' \subseteq InUse /\ Fresh' = Fresh
      BY <2>1, SMTT(30) DEF ConnPop, Pop, fillVars, InUse, Queued, Held, Filling, Closing, Fresh
    <3> QED BY <2>1, <3>1, EventsFrame DEF ConnPop
  <2>2. CASE ConnPopEmpty(r) \/ ConnReuse(r)
    <3>1. InUse' = InUse /\ Fresh' = Fresh
      BY <2>2, SMTT(30) DEF ConnPopEmpty, ConnReuse, fillVars, InUse, Queued, Held, Filling, Closing, Fresh
    <3> QED BY <2>2, <3>1, EventsFrame DEF ConnPopEmpty, ConnReuse
  <2>3. CASE ConnStale(r)
    <3>1. /\ Held' = Held \ {hand[r]} /\ hand[r] \in Held /\ hand[r] \in Conns
          /\ Queued' = Queued /\ Filling' = Filling /\ Closing' = Closing /\ Fresh' = Fresh
      BY <2>3, SMTT(30) DEF ConnStale, fillVars, Held, Queued, Filling, Closing, Fresh, Owned, Exclusive
    <3>2. hand[r] \in InUse /\ InUse' \subseteq InUse \ {hand[r]}
      BY <3>1, SMTT(30) DEF InUse, Owned, Exclusive
    <3> QED BY <2>3, <3>1, <3>2, EventsClose, Zenon DEF ConnStale
  <2>4. CASE ConnDial(r)
    <3>1. PICK c \in Conns : DialOk(c) /\ hand' = [hand EXCEPT ![r] = c]
      BY <2>4, Zenon DEF ConnDial
    <3>2. InUse' \subseteq InUse \cup {c}
      BY <2>4, <3>1 DEF ConnDial, fillVars, InUse, Queued, Held, Filling, Closing
    <3> QED BY <3>1, <3>2, EventsOpen
  <2>5. CASE ConnDialFail(r)
    <3>1. InUse' = InUse /\ Fresh' \subseteq Fresh
      BY <2>5, SMTT(30) DEF ConnDialFail, DialFail, fillVars, InUse, Queued, Held, Filling, Closing, Fresh
    <3> QED BY <2>5, <3>1, EventsFrame DEF ConnDialFail, DialFail
  <2> QED BY <1>4, <2>1, <2>2, <2>3, <2>4, <2>5 DEF Call
<1>5. ASSUME NEW r \in Callers, NEW d \in BOOLEAN, Finish(r, d) PROVE Events'
  <2>1. InUse' \subseteq InUse /\ Fresh' = Fresh
    BY <1>5, SMTT(30) DEF Finish, fillVars, InUse, Queued, Held, Filling, Closing, Fresh
  <2> QED BY <1>5, <2>1, EventsFrame DEF Finish
<1>6. ASSUME NEW k \in closers, RunClose(k) PROVE Events'
  <2>1. InUse' \subseteq InUse /\ Fresh' \subseteq Fresh
    BY <1>6, SMTT(30) DEF RunClose, PutBack, Insert, Refuse, CloseSocket, callVars, fillVars, InUse, Queued, Held,
                Filling, Closing, Fresh
  <2> QED BY <1>6, <2>1, EventsFrame DEF RunClose
<1>7. ASSUME NEW k \in closers, RunDestroy(k) PROVE Events'
  <2>1. /\ k.conn \in Closing /\ k.conn \in Conns /\ Closing' = Closing \ {k.conn}
        /\ Queued' = Queued /\ Held' = Held /\ Filling' = Filling /\ Fresh' \subseteq Fresh
    BY <1>7, SMTT(30) DEF RunDestroy, CloseSocket, callVars, fillVars, Closer, Held, Queued, Filling,
                Closing, Fresh, Owned, Exclusive
  <2>2. k.conn \in InUse /\ InUse' \subseteq InUse \ {k.conn}
    BY <2>1, SMTT(30) DEF InUse, Owned, Exclusive
  <2> QED BY <1>7, <2>1, <2>2, EventsClose, Zenon DEF RunDestroy
<1>8. ASSUME NEW c \in dying, RunDying(c) PROVE Events'
  <2>1. InUse' = InUse /\ Fresh' \subseteq Fresh
    BY <1>8, SMTT(30) DEF RunDying, CloseSocket, callVars, fillVars, InUse, Queued, Held, Filling, Closing, Fresh
  <2> QED BY <1>8, <2>1, EventsFrame DEF RunDying
<1>9. CASE Pass \/ UNCHANGED vars
  <2>1. InUse' = InUse /\ Fresh' = Fresh
    BY <1>9, SMTT(30) DEF Pass, vars, callVars, fillVars, InUse, Queued, Held, Filling, Closing, Fresh
  <2> QED BY <1>9, <2>1, EventsFrame DEF Pass, vars
<1> QED
  BY <1>1, <1>2, <1>3, <1>4, <1>5, <1>6, <1>7, <1>8, <1>9, Zenon DEF Next, Background, Fill

\* Unix cuts the time down, never up.
LEMMA UnixBound ==
  ASSUME NEW t \in Nat
  PROVE  Unix(t) \in Nat /\ Unix(t) * Second <= t
BY QueueAssumption, Z3 DEF Unix

\* Push tags the connection it queues with a second that is not in the future.
LEMMA TaggedPush ==
  ASSUME TypeOK, Tagged, NEW c \in Conns, PutBack(c), c \notin Queued \cup Held, UNCHANGED callVars,
         Coupled
  PROVE  Tagged'
<1> DEFINE new == [value |-> c, priority |-> Unix(now)]
<1>1. /\ store' = store \cup {new} /\ new.value = c /\ new.priority = Unix(now)
      /\ idleSince' = [idleSince EXCEPT ![c] = now]
  BY DEF PutBack, Insert
<1> HIDE DEF new
<1>2. Unix(now) * Second <= now
  BY UnixBound DEF TypeOK
<1>3. \A x \in store : x.value # c /\ x.value \in Conns
  BY DEF Queued, TypeOK, Item, Conns
<1>4. \A x \in store' : x.priority * Second <= idleSince'[x.value]
  BY <1>1, <1>2, <1>3 DEF Tagged, TypeOK
<1>5. \A r \in Callers : pc[r] = "popped" => hand[r] # c /\ hand[r] \in Conns
  BY PoolAssumption DEF Held, Coupled, TypeOK, Conns
<1>6. \A r \in Callers : pc'[r] = "popped" => stamp'[r] * Second <= idleSince'[hand'[r]]
  BY <1>1, <1>5 DEF Tagged, TypeOK, callVars
<1> QED BY <1>4, <1>6 DEF Tagged

\* Every step keeps the tags no later than the push they record.
LEMMA TaggedStep ==
  ASSUME TypeOK, Coupled, Owned, Tagged, [Next]_vars
  PROVE  Tagged'
<1>1. CASE FillPush
  <2>1. CASE PutBack(filling)
    <3>1. filling \in Conns /\ filling \notin Queued \cup Held
      BY <1>1 DEF FillPush, TypeOK, Owned, Exclusive, Filling
    <3> QED BY <1>1, <2>1, <3>1, TaggedPush DEF FillPush
  <2>2. CASE Refuse(filling) /\ UNCHANGED idleSince
    BY <1>1, <2>2 DEF FillPush, Refuse, Tagged, callVars
  <2> QED BY <1>1, <2>1, <2>2 DEF FillPush
<1>2. ASSUME NEW k \in closers, RunClose(k) PROVE Tagged'
  <2>1. CASE PutBack(k.conn)
    <3>1. k.conn \in Closing /\ k.conn \in Conns
      BY <1>2 DEF TypeOK, Closer, Closing
    <3>2. k.conn \notin Queued \cup Held
      BY <3>1 DEF Owned, Exclusive
    <3> QED BY <1>2, <2>1, <3>1, <3>2, TaggedPush DEF RunClose
  <2>2. CASE Refuse(k.conn) /\ UNCHANGED idleSince
    BY <1>2, <2>2 DEF RunClose, Refuse, Tagged, callVars
  <2> QED BY <1>2, <2>1, <2>2 DEF RunClose
<1>3. ASSUME NEW r \in Callers, ConnPop(r) PROVE Tagged'
  BY <1>3 DEF ConnPop, Pop, MostRecent, Tagged, TypeOK, Item
<1>4. ASSUME UNCHANGED <<store, idleSince, stamp>>,
             \A r \in Callers : pc'[r] = "popped" => pc[r] = "popped" /\ hand'[r] = hand[r]
      PROVE  Tagged'
  BY <1>4, Zenon DEF Tagged
<1>5. ASSUME NEW r \in Callers, Call(r) \/ Finish(r, TRUE) \/ Finish(r, FALSE) PROVE Tagged'
  BY <1>3, <1>4, <1>5 DEF Call, ConnPopEmpty, ConnReuse, ConnStale, ConnDial, ConnDialFail, Finish, TypeOK
<1>6. CASE FillDial \/ FillDialFail \/ Pass \/ UNCHANGED vars
  BY <1>4, <1>6, Zenon DEF FillDial, FillDialFail, Pass, vars, callVars
<1>7. ASSUME NEW k \in closers, RunDestroy(k) PROVE Tagged'
  BY <1>4, <1>7, Zenon DEF RunDestroy, callVars
<1>8. ASSUME NEW c \in dying, RunDying(c) PROVE Tagged'
  BY <1>4, <1>8, Zenon DEF RunDying, callVars
<1> QED
  BY <1>1, <1>2, <1>5, <1>6, <1>7, <1>8, Zenon DEF Next, Background, Fill

-----------------------------------------------------------------------------

\* The initial state satisfies the inductive invariant.
LEMMA InitInv == Init => IInv
<1> SUFFICES ASSUME Init PROVE IInv
  OBVIOUS
<1> USE QueueAssumption, PoolAssumption DEF Init, QInit, Conns
<1>1. TypeOK /\ Coupled
  BY DEF TypeOK, Coupled
<1>2. Queued = {} /\ Held = {} /\ Filling = {} /\ Closing = {} /\ Open = {}
  BY DEF Queued, Held, Filling, Closing, Open
<1>3. Owned
  BY <1>2 DEF Owned, Exclusive, UsableIsOpen, Accounted
<1>4. IsFiniteSet(store) /\ CapacityBound /\ Rounds
  BY FS_EmptySet DEF CapacityBound, Rounds
<1>5. Events /\ Tagged
  BY <1>2 DEF Events, InUse, Tagged
<1> QED BY <1>1, <1>3, <1>4, <1>5 DEF IInv

\* Every step of the pool preserves the inductive invariant.
LEMMA StepInv == IInv /\ [Next]_vars => IInv'
<1> SUFFICES ASSUME IInv, [Next]_vars PROVE IInv'
  OBVIOUS
<1> QED
  BY TypeStep, OwnedStep, CapacityStep, RoundsStep, EventsStep, TaggedStep DEF IInv

\* The inductive invariant holds in every reachable state.
THEOREM Invariant == Spec => []IInv
BY InitInv, StepInv, PTL DEF Spec

\* The variables of persistent.go's pool keep their types.
THEOREM TypeCorrect == Spec => []TypeOK
<1>1. IInv => TypeOK  BY DEF IInv
<1> QED BY <1>1, Invariant, PTL

\* No connection of the pool is ever with two requests, in the queue twice, or
\* queued while a request, a closer or the filling goroutine has it.
THEOREM ExclusiveUse == Spec => []Exclusive
<1>1. IInv => Exclusive  BY DEF IInv, Owned
<1> QED BY <1>1, Invariant, PTL

\* The pool never queues or hands out a connection the proxy has closed.
THEOREM NoUseAfterClose == Spec => []UsableIsOpen
<1>1. IInv => UsableIsOpen  BY DEF IInv, Owned
<1> QED BY <1>1, Invariant, PTL

\* The queue never holds more than Capacity connections.
THEOREM WithinCapacity == Spec => []CapacityBound
<1>1. IInv => CapacityBound  BY DEF IInv
<1> QED BY <1>1, Invariant, PTL

\* Only the filling goroutine forgets connections, at most Capacity of them.
THEOREM BoundedLeak == Spec => []LeaksOnlyByFilling
<1>1. IInv => LeaksOnlyByFilling  BY DEF IInv, Owned, Rounds, LeaksOnlyByFilling
<1> QED BY <1>1, Invariant, PTL

\* Lifecycle events are emitted at most once and in order.
THEOREM HonestEvents == Spec => []EventsHonest
<1>1. IInv => EventsHonest  BY DEF IInv, Events, EventsHonest, InUse
<1> QED BY <1>1, Invariant, PTL

\* Conn() never hands out a connection that has been idle for StaleTimeout.
THEOREM FreshReuse == Spec => NeverReusesStale
<1> DEFINE A == \A r \in Callers :
                  Reuses(r) /\ StaleTimeout > 0 => now - idleSince[hand[r]] < StaleTimeout
<1>1. ASSUME IInv, [Next]_vars PROVE A
  <2> SUFFICES ASSUME NEW r \in Callers, Reuses(r), StaleTimeout > 0
               PROVE  now - idleSince[hand[r]] < StaleTimeout
    OBVIOUS
  <2>1. IsFresh(stamp[r])
    <3> USE DEF Reuses, TypeOK, callVars
    <3>1. TypeOK
      BY <1>1 DEF IInv
    <3>2. CASE Fill \/ Pass \/ UNCHANGED vars
      BY <3>2 DEF Fill, FillDial, FillDialFail, FillPush, Pass, vars
    <3>3. ASSUME NEW q \in Callers, Call(q) \/ Finish(q, TRUE) \/ Finish(q, FALSE)
          PROVE  IsFresh(stamp[r])
      BY <3>1, <3>3 DEF Call, ConnPop, ConnPopEmpty, ConnReuse, ConnStale, ConnDial, ConnDialFail,
                        Finish
    <3>4. ASSUME NEW k \in closers, RunClose(k) \/ RunDestroy(k) PROVE IsFresh(stamp[r])
      BY <3>4 DEF RunClose, RunDestroy
    <3>5. ASSUME NEW c \in dying, RunDying(c) PROVE IsFresh(stamp[r])
      BY <3>5 DEF RunDying
    <3> QED
      BY <1>1, <3>2, <3>3, <3>4, <3>5, Zenon DEF Next, Background
  <2>2. stamp[r] * Second <= idleSince[hand[r]] /\ hand[r] \in Conns
    BY <1>1, PoolAssumption DEF Reuses, IInv, Tagged, Coupled, TypeOK
  <2>3. stamp[r] \in Nat /\ idleSince[hand[r]] \in Nat /\ now \in Nat
    BY <1>1, <2>2 DEF IInv, TypeOK
  <2>4. stamp[r] * Second \in Nat
    BY <2>3, QueueAssumption
  <2> QED BY <2>1, <2>2, <2>3, <2>4, PoolAssumption DEF IsFresh, SinceUnix
<1>2. IInv /\ [Next]_vars => [A]_vars
  BY <1>1
<1> HIDE DEF A
<1>3. Spec => [][A]_vars
  BY <1>2, Invariant, PTL DEF Spec
<1> QED BY <1>3 DEF A, NeverReusesStale
=============================================================================
