--------------------------- MODULE BalancingProofs ---------------------------
(***************************************************************************)
(* For any number of clients and concurrent calls: the index and choices   *)
(* of every policy stay in range, Failover goes through the clients in     *)
(* order, round robin takes them in turn while calls do not overlap, and   *)
(* HistoricalConnections keeps the load of its clients together.           *)
(***************************************************************************)
EXTENDS Balancing, FiniteSetTheorems, TLAPS

-----------------------------------------------------------------------------
(* Types.                                                                  *)

\* The loop of HistoricalConnections compares only clients there are.
InLoop == \A p \in Callers : pc[p] = "compare" => at[p] < NumClients

\* The round robin's increment stays within the list of clients.
LEMMA AdvancedInRange == \A i \in Nat : Advanced(i) \in Clients
  BY BalancingAssumption DEF Advanced, Clients

\* However a call begins, the types are kept.
LEMMA BeginTypes ==
  ASSUME TypeOK, InLoop,
         NEW p \in Callers, NEW pol, NEW c \in Clients, NEW next \in {"ask", "scan"},
         Begin(p, pol, c, next)
  PROVE  TypeOK' /\ InLoop'
<1> USE BalancingAssumption
<1>1. overlap' \in BOOLEAN
  BY Zenon DEF Begin
<1>2. pc' \in [Callers -> {"idle", "scan", "compare", "ask", "advance", "store"}]
  BY DEF Begin, TypeOK
<1>3. at' \in [Callers -> 1..NumClients] /\ failed' \in [Callers -> SUBSET Clients]
  BY DEF Begin, TypeOK
<1>4. choice' \in [Callers -> Clients] /\ lastAsked' \in Clients
  BY DEF Begin, TypeOK
<1>5. outcome' \in [Callers -> {"none", "conn", "error"}]
  BY DEF Begin, TypeOK
<1>6. UNCHANGED <<policy, rrIdx, counted, late, read, peak>>
  BY DEF Begin
<1>7. InLoop'
  BY DEF Begin, TypeOK, InLoop
<1> QED
  BY <1>1, <1>2, <1>3, <1>4, <1>5, <1>6, <1>7 DEF TypeOK

\* Every step keeps the types: in particular each choice and the round robin's
\* index, which calls read and write at once without a lock, stay those of
\* clients.
LEMMA TypeStep == TypeOK /\ InLoop /\ [Next]_vars => TypeOK' /\ InLoop'
<1> SUFFICES ASSUME TypeOK, InLoop, [Next]_vars PROVE TypeOK' /\ InLoop'
  OBVIOUS
<1> USE BalancingAssumption
<1>1. ASSUME NEW p \in Callers, Call(p) PROVE TypeOK' /\ InLoop'
  <2>1. rrIdx \in Clients /\ 0 \in Clients
    BY DEF TypeOK, Clients
  <2> QED
    BY BeginTypes, <1>1, <2>1 DEF Call, RoundRobinConn, RandomConn, HistoricalConn, FailoverConn
<1>0. at \in [Callers -> 1..NumClients] /\ NumClients \in Nat
  BY DEF TypeOK
<1>2. ASSUME NEW p \in Callers, ReadCandidate(p) PROVE TypeOK' /\ InLoop'
  <2>0. at[p] < NumClients
    BY <1>2 DEF ReadCandidate
  <2>1. at[p] \in Clients
    BY <1>0, <2>0 DEF Clients
  <2>2. read' \in [Callers -> Nat]
    BY <1>2, <2>1 DEF ReadCandidate, TypeOK
  <2> QED
    BY <1>2, <2>2 DEF ReadCandidate, TypeOK, InLoop
<1>3. ASSUME NEW p \in Callers, Compare(p) PROVE TypeOK' /\ InLoop'
  <2>0. at[p] < NumClients
    BY <1>3, Zenon DEF Compare, InLoop
  <2>1. at[p] \in Clients /\ at[p] + 1 \in 1..NumClients
    BY <1>0, <2>0 DEF Clients
  <2>2. choice' \in [Callers -> Clients] /\ at' \in [Callers -> 1..NumClients]
    BY <1>3, <2>1 DEF Compare, TypeOK
  <2> QED
    BY <1>3, <2>2 DEF Compare, TypeOK, InLoop
<1>4. ASSUME NEW p \in Callers, Decide(p) PROVE TypeOK' /\ InLoop'
  BY <1>4 DEF Decide, TypeOK, InLoop
<1>5. ASSUME NEW p \in Callers, Provide(p) PROVE TypeOK' /\ InLoop'
  BY <1>5 DEF Provide, Return, TypeOK, InLoop
<1>6. ASSUME NEW p \in Callers, Fail(p) PROVE TypeOK' /\ InLoop'
  <2>1. failed' \in [Callers -> SUBSET Clients]
    <3>1. failed[p] \cup {choice[p]} \in SUBSET Clients
      BY DEF TypeOK
    <3> QED
      BY <1>6, <3>1 DEF Fail, TypeOK
  <2>2. ~LastResort(choice[p]) => choice[p] + 1 \in Clients
    <3>1. choice[p] \in Clients
      BY DEF TypeOK
    <3> QED
      BY <3>1 DEF LastResort, Clients
  <2>3. choice' \in [Callers -> Clients] /\ lastAsked' \in Clients
    BY <1>6, <2>2 DEF Fail, TypeOK
  <2>4. /\ pc' \in [Callers -> {"idle", "scan", "compare", "ask", "advance", "store"}]
        /\ outcome' \in [Callers -> {"none", "conn", "error"}]
        /\ InLoop'
    BY <1>6 DEF Fail, Return, TypeOK, InLoop
  <2>5. UNCHANGED <<policy, rrIdx, counted, late, at, read, peak, overlap>>
    BY <1>6 DEF Fail
  <2> QED
    BY <2>1, <2>3, <2>4, <2>5 DEF TypeOK
<1>7. ASSUME NEW p \in Callers, ReadIndex(p) PROVE TypeOK' /\ InLoop'
  <2>1. read' \in [Callers -> Nat]
    BY <1>7 DEF ReadIndex, TypeOK, Clients
  <2> QED
    BY <1>7, <2>1 DEF ReadIndex, TypeOK, InLoop
<1>8. ASSUME NEW p \in Callers, StoreIndex(p) PROVE TypeOK' /\ InLoop'
  BY <1>8, AdvancedInRange DEF StoreIndex, TypeOK, InLoop
<1>9. ASSUME NEW c \in Clients, Count(c) PROVE TypeOK' /\ InLoop'
  BY <1>9 DEF Count, callVars, TypeOK, InLoop
<1>10. CASE UNCHANGED vars
  BY <1>10 DEF vars, callVars, TypeOK, InLoop
<1> QED
  BY <1>1, <1>2, <1>3, <1>4, <1>5, <1>6, <1>7, <1>8, <1>9, <1>10, Zenon DEF Next, Step

\* No call of any policy, with any number of clients and of calls at once, ever
\* indexes c.clients out of range (sharding.go:115), and every variable
\* keeps its type.
THEOREM TypesKept == Spec => []TypeOK
<1>1. Init => TypeOK /\ InLoop
  <2> SUFFICES ASSUME Init PROVE TypeOK /\ InLoop
    OBVIOUS
  <2>1. 0 \in Clients /\ NumClients - 1 \in Clients /\ 1 \in 1..NumClients
    BY BalancingAssumption DEF Clients
  <2> QED
    BY <2>1, Zenon DEF Init, TypeOK, InLoop
<1> QED
  BY <1>1, TypeStep, PTL DEF Spec

-----------------------------------------------------------------------------
(* Failover.                                                               *)

\* What a call of Failover has done: while it asks, exactly the clients before
\* the one asked have failed it, and it has no answer.
InTurn ==
  policy = "Failover" => \A p \in Callers :
    /\ pc[p] \in {"idle", "ask"}
    /\ pc[p] = "ask" => failed[p] = 0..choice[p] - 1 /\ outcome[p] = "none"

\* The policy is chosen once, when the client is constructed.
LEMMA PolicyKept == [Next]_vars => policy' = policy
<1> SUFFICES ASSUME [Next]_vars PROVE policy' = policy
  OBVIOUS
<1>1. ASSUME NEW p \in Callers, Call(p) PROVE policy' = policy
  <2>1. ASSUME NEW pol, NEW c, NEW next, Begin(p, pol, c, next) PROVE policy' = policy
    BY <2>1, Zenon DEF Begin
  <2> QED
    BY <1>1, <2>1, Zenon DEF Call, RoundRobinConn, RandomConn, HistoricalConn, FailoverConn
<1>2. ASSUME NEW p \in Callers, Step(p) PROVE policy' = policy
  BY <1>2, Zenon DEF Step, ReadCandidate, Compare, Decide, Provide, Fail, ReadIndex, StoreIndex
<1>3. ASSUME NEW c \in Clients, Count(c) PROVE policy' = policy
  BY <1>3, Zenon DEF Count
<1> QED
  BY <1>1, <1>2, <1>3, Zenon DEF Next, vars

\* No step of any call disturbs it.
LEMMA FailoverStep ==
  TypeOK /\ InTurn /\ FailsOverInOrder /\ [Next]_vars => InTurn' /\ FailsOverInOrder'
<1> SUFFICES ASSUME TypeOK, InTurn, FailsOverInOrder, [Next]_vars
             PROVE InTurn' /\ FailsOverInOrder'
  OBVIOUS
<1>1. ASSUME policy # "Failover" PROVE InTurn' /\ FailsOverInOrder'
  <2>1. policy' = policy
    BY PolicyKept
  <2> QED
    BY <1>1, <2>1 DEF InTurn, FailsOverInOrder
<1>2. ASSUME policy = "Failover", NEW p \in Callers, Call(p) PROVE InTurn' /\ FailsOverInOrder'
  <2>1. Begin(p, "Failover", 0, "ask")
    BY <1>2 DEF Call, RoundRobinConn, RandomConn, HistoricalConn, FailoverConn, Begin
  <2> QED
    BY <2>1 DEF Begin, TypeOK, InTurn, FailsOverInOrder
<1>3. ASSUME policy = "Failover", NEW p \in Callers, Provide(p) PROVE InTurn' /\ FailsOverInOrder'
  BY <1>3, SMTT(30) DEF Provide, Return, TypeOK, InTurn, FailsOverInOrder
<1>4. ASSUME policy = "Failover", NEW p \in Callers, Fail(p) PROVE InTurn' /\ FailsOverInOrder'
  <2>1. failed[p] \cup {choice[p]} = 0..choice[p]
    <3>1. failed[p] = 0..choice[p] - 1 /\ choice[p] \in Nat
      BY <1>4, BalancingAssumption DEF Fail, InTurn, TypeOK, Clients
    <3> QED
      BY <3>1
  <2>2. CASE LastResort(choice[p])
    <3>1. 0..choice[p] = Clients
      BY <1>4, <2>2 DEF LastResort, Clients
    <3>2. /\ failed' = [failed EXCEPT ![p] = Clients]
          /\ outcome' = [outcome EXCEPT ![p] = "error"]
          /\ pc' = [pc EXCEPT ![p] = "idle"]
          /\ UNCHANGED <<policy, choice>>
      BY <1>4, <2>1, <2>2, <3>1, Zenon DEF Fail, Return
    <3> QED
      BY <1>4, <3>2 DEF TypeOK, InTurn, FailsOverInOrder
  <2>3. CASE ~LastResort(choice[p])
    <3>1. choice[p] \in Int /\ choice[p] + 1 - 1 = choice[p]
      BY BalancingAssumption DEF TypeOK, Clients
    <3>2. /\ failed' = [failed EXCEPT ![p] = 0..choice[p]]
          /\ choice' = [choice EXCEPT ![p] = choice[p] + 1]
          /\ UNCHANGED <<policy, pc, outcome>>
      BY <1>4, <2>1, <2>3, Zenon DEF Fail
    <3>3. pc[p] = "ask" /\ outcome[p] = "none"
      BY <1>4 DEF Fail, InTurn
    <3>4. failed'[p] = 0..choice'[p] - 1
      BY <3>1, <3>2 DEF TypeOK
    <3>5. \A q \in Callers : q # p => failed'[q] = failed[q] /\ choice'[q] = choice[q]
      BY <3>2 DEF TypeOK
    <3> QED
      BY <1>4, <3>2, <3>3, <3>4, <3>5, SMTT(30) DEF InTurn, FailsOverInOrder
  <2> QED
    BY <2>2, <2>3
<1>5. ASSUME policy = "Failover", NEW p \in Callers,
             ReadCandidate(p) \/ Compare(p) \/ Decide(p) \/ ReadIndex(p) \/ StoreIndex(p)
      PROVE FALSE
  BY <1>5 DEF ReadCandidate, Compare, Decide, ReadIndex, StoreIndex, InTurn
<1>6. ASSUME NEW c \in Clients, Count(c) PROVE InTurn' /\ FailsOverInOrder'
  BY <1>6 DEF Count, callVars, InTurn, FailsOverInOrder
<1>7. CASE UNCHANGED vars
  BY <1>7 DEF vars, callVars, InTurn, FailsOverInOrder
<1> QED
  BY <1>1, <1>2, <1>3, <1>4, <1>5, <1>6, <1>7, Zenon DEF Next, Step

\* FailoverShardedClient.Conn() asks its clients in order, each once: it answers
\* an error only after every one of them failed in this call, and a connection
\* only from the first that did not, however calls interleave.
THEOREM Failover == Spec => []FailsOverInOrder
<1>1. Init => InTurn /\ FailsOverInOrder
  BY DEF Init, InTurn, FailsOverInOrder
<1> QED
  BY <1>1, TypesKept, FailoverStep, PTL DEF Spec

-----------------------------------------------------------------------------
(* Round robin.                                                            *)

\* Calls that do not overlap: at most one is under way, and the index is that of
\* the client asked last until the deferred function has advanced it.
InRotation ==
  policy = "RoundRobin" /\ ~overlap =>
    /\ \A p, q \in Callers : pc[p] # "idle" /\ pc[q] # "idle" => p = q
    /\ (\A p \in Callers : pc[p] = "idle") => rrIdx = Advanced(lastAsked)
    /\ \A p \in Callers : pc[p] # "idle" =>
         /\ pc[p] \in {"ask", "advance", "store"}
         /\ rrIdx = lastAsked
         /\ pc[p] = "store" => read[p] = rrIdx

\* No step disturbs it.
LEMMA RotationStep == TypeOK /\ InRotation /\ [Next]_vars => InRotation'
<1> SUFFICES ASSUME TypeOK, InRotation, [Next]_vars,
                    policy' = "RoundRobin", ~overlap'
             PROVE InRotation'
  BY DEF InRotation
<1>1. policy = "RoundRobin"
  BY PolicyKept
<1>2. ASSUME NEW p \in Callers, Call(p) PROVE InRotation'
  <2>1. Begin(p, "RoundRobin", rrIdx, "ask")
    BY <1>1, <1>2 DEF Call, RoundRobinConn, RandomConn, HistoricalConn, FailoverConn, Begin
  <2>2. \A q \in Callers : pc[q] = "idle"
    BY <2>1, Zenon DEF Begin
  <2>3. pc' = [pc EXCEPT ![p] = "ask"] /\ lastAsked' = rrIdx /\ rrIdx' = rrIdx
    BY <2>1 DEF Begin
  <2> QED
    BY <2>2, <2>3 DEF TypeOK, InRotation
<1>3. ASSUME ~overlap, NEW p \in Callers, Provide(p) \/ Fail(p) PROVE InRotation'
  <2>1. pc[p] = "ask" /\ pc' = [pc EXCEPT ![p] = "advance"] /\ UNCHANGED <<rrIdx, lastAsked>>
    BY <1>1, <1>3 DEF Provide, Fail, Return, LastResort
  <2> QED
    BY <1>1, <1>3, <2>1 DEF TypeOK, InRotation
<1>4. ASSUME ~overlap, NEW p \in Callers, ReadIndex(p) PROVE InRotation'
  BY <1>1, <1>4 DEF ReadIndex, TypeOK, InRotation
<1>5. ASSUME ~overlap, NEW p \in Callers, StoreIndex(p) PROVE InRotation'
  <2>1. rrIdx' = Advanced(lastAsked) /\ lastAsked' = lastAsked
    BY <1>1, <1>5 DEF StoreIndex, InRotation
  <2>2. \A q \in Callers : pc'[q] = "idle"
    BY <1>1, <1>5 DEF StoreIndex, TypeOK, InRotation
  <2> QED
    BY <2>1, <2>2 DEF InRotation, Advanced
<1>6. ASSUME ~overlap, NEW p \in Callers, ReadCandidate(p) \/ Compare(p) \/ Decide(p)
      PROVE FALSE
  BY <1>1, <1>6 DEF ReadCandidate, Compare, Decide, InRotation
<1>7. ASSUME NEW c \in Clients, Count(c) PROVE InRotation'
  BY <1>7 DEF Count, callVars, InRotation, Advanced
<1>8. CASE UNCHANGED vars
  BY <1>8 DEF vars, callVars, InRotation, Advanced
<1>9. ASSUME NEW p \in Callers, Step(p) PROVE ~overlap
  BY <1>9 DEF Step, ReadCandidate, Compare, Decide, Provide, Fail, ReadIndex, StoreIndex
<1> QED
  BY <1>2, <1>3, <1>4, <1>5, <1>6, <1>7, <1>8, <1>9, Zenon DEF Next, Step

\* As long as calls of RoundRobinShardedClient.Conn() do not overlap, each asks
\* the client after the one asked last, for any number of clients and whichever
\* of them fail: the increment that Conn() defers is then enough.
THEOREM RoundRobin == Spec => Rotates
<1>1. Init => InRotation
  <2> SUFFICES ASSUME Init PROVE InRotation
    OBVIOUS
  <2>1. Advanced(NumClients - 1) = 0
    BY BalancingAssumption DEF Advanced
  <2> QED
    BY <2>1 DEF Init, InRotation
<1>2. InRotation /\ TypeOK /\ [Next]_vars =>
        [\A p \in Callers :
           RoundRobinConn(p) /\ ~overlap' => choice'[p] = (lastAsked + 1) % NumClients]_vars
  <2> SUFFICES ASSUME InRotation, TypeOK, NEW p \in Callers, RoundRobinConn(p), ~overlap'
               PROVE choice'[p] = (lastAsked + 1) % NumClients
    OBVIOUS
  <2>1. ~overlap /\ (\A q \in Callers : pc[q] = "idle")
    BY Zenon DEF RoundRobinConn, Begin
  <2>2. policy = "RoundRobin" /\ choice'[p] = rrIdx
    BY DEF RoundRobinConn, Begin, TypeOK
  <2> QED
    BY <2>1, <2>2 DEF InRotation, Advanced
<1> QED
  BY <1>1, <1>2, TypesKept, RotationStep, PTL DEF Spec, Rotates

-----------------------------------------------------------------------------
(* HistoricalConnections.                                                  *)

\* What calls and statistics that lag behind account for.
Unit == peak + Cardinality(Callers)

\* The calls that hold c as their best candidate, having looked at d.
Holding(c, d) ==
  {p \in Callers : pc[p] \in {"scan", "compare", "ask"} /\ choice[p] = c /\ d < at[p]}

\* The calls about to compare c, in whose statistics they saw less than r.
Drawn(c, r) == {p \in Callers : pc[p] = "compare" /\ at[p] = c /\ read[p] < r}

\* What every call of HistoricalConnections has seen.
Seen ==
  /\ \A c \in Clients : late[c] <= peak
  /\ policy = "HistoricalConnections" =>
       \A p \in Callers :
         /\ pc[p] = "compare" => read[p] <= counted[at[p]]
         /\ pc[p] \in {"scan", "compare"} => choice[p] < at[p]
         /\ pc[p] = "ask" => at[p] = NumClients

\* What c may yet provide ahead of d, the calls that are bound for c included.
\* They are counted against each r that the clients c is compared with can
\* have reached, for the statistics a call saw of c may be older than theirs.
Ahead(c, d) ==
  \A r \in Nat :
    r >= Provided(d) + (Hops(c, d) - 1) * Unit =>
      Provided(c) + Cardinality(Holding(c, d) \cup Drawn(c, r)) <= r + Unit

\* The inductive invariant.
Balanced ==
  policy = "HistoricalConnections" => \A c, d \in Clients : c # d => Ahead(c, d)

\* A set of calls is finite, and no larger than one that includes it.
LEMMA CallsCounted ==
  /\ Cardinality(Callers) \in Nat
  /\ \A S \in SUBSET Callers : Cardinality(S) \in Nat /\ Cardinality(S) <= Cardinality(Callers)
  /\ \A S \in SUBSET Callers : \A T \in SUBSET S : Cardinality(T) <= Cardinality(S)
  /\ \A S \in SUBSET Callers : \A p \in S : Cardinality(S \ {p}) = Cardinality(S) - 1
<1>1. IsFiniteSet(Callers)
  BY BalancingAssumption
<1>2. \A S \in SUBSET Callers : IsFiniteSet(S) /\ Cardinality(S) <= Cardinality(Callers)
  BY <1>1, FS_Subset
<1>3. \A S \in SUBSET Callers : \A T \in SUBSET S : Cardinality(T) <= Cardinality(S)
  BY <1>2, FS_Subset
<1>4. \A S \in SUBSET Callers : \A p \in S : Cardinality(S \ {p}) = Cardinality(S) - 1
  BY <1>2, FS_RemoveElement
<1> QED
  BY <1>1, <1>2, <1>3, <1>4, FS_CardinalityType

\* A multiple grows with its factors.
LEMMA Multiple ==
  ASSUME NEW k \in Nat, NEW l \in Nat, k <= l, NEW u \in Nat, NEW v \in Nat, u <= v
  PROVE  k * u \in Nat /\ k * u <= l * v
<1>1. k * u <= k * v /\ k * v <= l * v
  OBVIOUS
<1> QED
  BY <1>1

\* A candidate preferred to d before is one hop closer to it.
LEMMA HopsGrow ==
  \A c, d \in Clients : c # d =>
    /\ Hops(c, d) - 1 \in Nat
    /\ \A e \in Clients : d < c /\ e < c /\ e # d => Hops(e, d) \in Nat /\ Hops(e, d) <= Hops(c, d) - 1
  BY BalancingAssumption DEF Hops, Clients
\* The numbers involved.
LEMMA Numbers ==
  ASSUME TypeOK
  PROVE  /\ Unit \in Nat
         /\ \A c \in Clients : Provided(c) \in Nat /\ counted[c] \in Nat /\ late[c] \in Nat
         /\ \A c, d \in Clients : c # d => (Hops(c, d) - 1) * Unit \in Nat
<1>1. Unit \in Nat
  BY CallsCounted DEF TypeOK, Unit
<1>2. \A c \in Clients : Provided(c) \in Nat /\ counted[c] \in Nat /\ late[c] \in Nat
  BY DEF TypeOK, Provided
<1>3. \A c, d \in Clients : c # d => (Hops(c, d) - 1) * Unit \in Nat
  <2> SUFFICES ASSUME NEW c \in Clients, NEW d \in Clients, c # d
               PROVE  (Hops(c, d) - 1) * Unit \in Nat
    OBVIOUS
  <2>1. PICK k \in Nat : k = Hops(c, d) - 1
    BY HopsGrow
  <2>2. k * Unit \in Nat
    BY <1>1, Multiple
  <2> QED
    BY <2>1, <2>2, Zenon
<1> QED
  BY <1>1, <1>2, <1>3

\* What must be reached to count against c only grows.
LEMMA RangeShrinks ==
  ASSUME TypeOK, TypeOK', NEW c \in Clients, NEW d \in Clients, c # d,
         Provided(d) <= Provided(d)', peak <= peak', NEW r \in Nat,
         r >= Provided(d)' + (Hops(c, d) - 1) * Unit'
  PROVE  /\ r >= Provided(d) + (Hops(c, d) - 1) * Unit
         /\ r >= Provided(d) /\ Unit <= Unit'
<1>1. Unit \in Nat /\ Unit' \in Nat /\ Unit <= Unit'
  BY CallsCounted DEF TypeOK, Unit
<1>2. Provided(d) \in Nat /\ Provided(d)' \in Nat
  BY DEF TypeOK, Provided
<1>3. PICK k \in Nat : k = Hops(c, d) - 1
  BY HopsGrow
<1>4. PICK u \in Nat : u = Unit
  BY <1>1
<1>5. PICK v \in Nat : v = Unit'
  BY <1>1
<1>6. k * u \in Nat /\ k * v \in Nat /\ k * u <= k * v
  <2>1. u <= v
    BY <1>1, <1>4, <1>5
  <2>2. k * u \in Nat /\ k * u <= k * v
    BY <2>1, Multiple
  <2>3. k * v \in Nat
    BY Multiple
  <2> QED
    BY <2>2, <2>3
<1>7. r >= Provided(d)' + k * v
  BY <1>3, <1>5, Zenon
<1>8. r >= Provided(d) + k * u /\ r >= Provided(d)
  BY <1>2, <1>6, <1>7
<1> QED
  BY <1>1, <1>3, <1>4, <1>8, Zenon

\* A step that leaves what c has provided and is about to provide as it was.
LEMMA AheadKept ==
  ASSUME TypeOK, TypeOK', NEW c \in Clients, NEW d \in Clients, c # d, Ahead(c, d),
         Provided(d) <= Provided(d)', peak <= peak', NEW r \in Nat,
         r >= Provided(d)' + (Hops(c, d) - 1) * Unit',
         Provided(c)' = Provided(c),
         (Holding(c, d) \cup Drawn(c, r))' \subseteq Holding(c, d) \cup Drawn(c, r)
  PROVE  Provided(c)' + Cardinality((Holding(c, d) \cup Drawn(c, r))') <= r + Unit'
<1>1. PICK S \in SUBSET Callers : S = Holding(c, d) \cup Drawn(c, r)
  BY Zenon DEF Holding, Drawn
<1>2. PICK T \in SUBSET Callers : T = (Holding(c, d) \cup Drawn(c, r))'
  BY Zenon DEF Holding, Drawn
<1>3. Cardinality(T) \in Nat /\ Cardinality(S) \in Nat /\ Cardinality(T) <= Cardinality(S)
  BY <1>1, <1>2, CallsCounted
<1>4. r >= Provided(d) + (Hops(c, d) - 1) * Unit /\ Unit <= Unit'
  BY RangeShrinks
<1>5. Provided(c) + Cardinality(S) <= r + Unit
  BY <1>1, <1>4 DEF Ahead
<1>6. Provided(c) \in Nat /\ Unit \in Nat /\ Unit' \in Nat
  BY Numbers, CallsCounted DEF TypeOK, Unit
<1> QED
  BY <1>2, <1>3, <1>4, <1>5, <1>6

\* A client that a call sees behind r cannot get further ahead of r than the
\* calls at once and what is uncounted.
LEMMA Behind ==
  ASSUME TypeOK, Seen, NEW c \in Clients, NEW r \in Nat, counted[c] <= r,
         NEW S \in SUBSET Callers
  PROVE  Provided(c) + Cardinality(S) <= r + Unit
<1>1. late[c] <= peak
  BY DEF Seen
<1>2. Cardinality(S) \in Nat /\ Cardinality(Callers) \in Nat /\ Cardinality(S) <= Cardinality(Callers)
  BY CallsCounted
<1> QED
  BY <1>1, <1>2 DEF TypeOK, Provided, Unit

\* What calls have seen stays true: a client's count only grows, and the loop
\* goes through the clients in order.
LEMMA SeenStep == TypeOK /\ InLoop /\ Seen /\ [Next]_vars => Seen'
<1> SUFFICES ASSUME TypeOK, InLoop, Seen, [Next]_vars PROVE Seen'
  OBVIOUS
<1> USE BalancingAssumption
<1>1. ASSUME NEW p \in Callers, Call(p) PROVE Seen'
  <2>1. ASSUME NEW pol, NEW c \in Clients, NEW next, Begin(p, pol, c, next),
               pol = "HistoricalConnections" => c = 0 /\ next = "scan"
        PROVE  Seen'
    BY <2>1 DEF Begin, Seen, TypeOK
  <2>2. rrIdx \in Clients /\ 0 \in Clients
    BY DEF TypeOK, Clients
  <2> QED
    BY <1>1, <2>1, <2>2 DEF Call, RoundRobinConn, RandomConn, HistoricalConn, FailoverConn
<1>2. ASSUME NEW p \in Callers, ReadCandidate(p) PROVE Seen'
  <2>1. at[p] \in Clients
    <3>1. at[p] \in 1..NumClients /\ at[p] < NumClients /\ NumClients \in Nat
      BY <1>2 DEF ReadCandidate, TypeOK
    <3> QED
      BY <3>1 DEF Clients
  <2> QED
    BY <1>2, <2>1 DEF ReadCandidate, Seen, TypeOK
<1>3. ASSUME NEW p \in Callers, Compare(p) PROVE Seen'
  <2>1. at[p] \in Int /\ choice[p] \in Int
    BY DEF TypeOK, Clients
  <2>2. policy = "HistoricalConnections" => choice[p] < at[p]
    BY <1>3 DEF Compare, Seen
  <2>3. policy = "HistoricalConnections" => choice'[p] < at'[p]
    BY <1>3, <2>1, <2>2 DEF Compare, TypeOK
  <2> QED
    BY <1>3, <2>3 DEF Compare, Seen, TypeOK
<1>4. ASSUME NEW p \in Callers, Decide(p) PROVE Seen'
  BY <1>4 DEF Decide, Seen, TypeOK
<1>5. ASSUME NEW p \in Callers, Provide(p) PROVE Seen'
  <2>1. \A c \in Clients : late'[c] <= peak'
    BY <1>5 DEF Provide, Seen, TypeOK
  <2> QED
    BY <1>5, <2>1 DEF Provide, Return, Seen, TypeOK
<1>6. ASSUME NEW p \in Callers, Fail(p) PROVE Seen'
  BY <1>6 DEF Fail, LastResort, Return, Seen, TypeOK
<1>7. ASSUME NEW p \in Callers, ReadIndex(p) \/ StoreIndex(p) PROVE Seen'
  BY <1>7 DEF ReadIndex, StoreIndex, Seen, TypeOK
<1>8. ASSUME NEW c \in Clients, Count(c) PROVE Seen'
  <2>1. \A e \in Clients : late'[e] <= peak' /\ counted[e] <= counted'[e]
    BY <1>8 DEF Count, Seen, TypeOK
  <2>2. \A p \in Callers : pc[p] = "compare" => at[p] \in Clients
    <3>1. /\ NumClients \in Nat
          /\ \A p \in Callers : /\ at[p] \in 1..NumClients
                                /\ pc[p] = "compare" => at[p] < NumClients
      BY DEF TypeOK, InLoop
    <3> QED
      BY <3>1 DEF Clients
  <2> QED
    BY <1>8, <2>1, <2>2 DEF Count, callVars, Seen, TypeOK
<1>9. CASE UNCHANGED vars
  BY <1>9 DEF vars, callVars, Seen
<1> QED
  BY <1>1, <1>2, <1>3, <1>4, <1>5, <1>6, <1>7, <1>8, <1>9, Zenon DEF Next, Step

\* No step takes a client further ahead: a call is bound for c only by what it
\* saw of it, and by what it saw of a client that is itself not far ahead.
LEMMA BalancedStep ==
  TypeOK /\ TypeOK' /\ InLoop /\ Seen /\ Seen' /\ Balanced /\ [Next]_vars => Balanced'
<1> SUFFICES ASSUME TypeOK, TypeOK', InLoop, Seen, Seen', Balanced, [Next]_vars,
                    policy' = "HistoricalConnections",
                    NEW c \in Clients, NEW d \in Clients, c # d, NEW r \in Nat,
                    r >= Provided(d)' + (Hops(c, d) - 1) * Unit'
             PROVE  Provided(c)' + Cardinality((Holding(c, d) \cup Drawn(c, r))') <= r + Unit'
  BY DEF Balanced, Ahead
<1> DEFINE Bound == Holding(c, d) \cup Drawn(c, r)
<1>0. policy = "HistoricalConnections"
  BY PolicyKept
<1>a. Ahead(c, d)
  BY <1>0 DEF Balanced
<1>b. \A e \in Clients : UNCHANGED <<counted, late>> => Provided(e)' = Provided(e)
  BY DEF Provided
<1>c. c \in Nat /\ d \in Nat /\ peak \in Nat /\ NumClients \in Nat
  BY BalancingAssumption DEF Clients, TypeOK
<1>d. \A e \in Clients : Provided(e) \in Nat
  BY Numbers
<1>k. ASSUME UNCHANGED <<counted, late, peak>>, Bound' \subseteq Bound
      PROVE  Provided(c)' + Cardinality(Bound') <= r + Unit'
  <2>1. Provided(c)' = Provided(c) /\ Provided(d)' = Provided(d)
    BY <1>b, <1>k
  <2>2. Provided(d) <= Provided(d)' /\ peak <= peak'
    BY <1>c, <1>d, <1>k, <2>1
  <2> QED
    BY <1>a, <1>k, <2>1, <2>2, AheadKept, Zenon
<1>1. ASSUME NEW p \in Callers, Call(p) PROVE Provided(c)' + Cardinality(Bound') <= r + Unit'
  <2>1. Begin(p, "HistoricalConnections", 0, "scan")
    BY <1>0, <1>1 DEF Call, RoundRobinConn, RandomConn, HistoricalConn, FailoverConn, Begin
  <2>2. Bound' \subseteq Bound
    BY <2>1, <1>c DEF Begin, Holding, Drawn, TypeOK
  <2> QED
    BY <1>k, <2>1, <2>2 DEF Begin
<1>2. ASSUME NEW p \in Callers, ReadCandidate(p)
      PROVE  Provided(c)' + Cardinality(Bound') <= r + Unit'
  <2>1. CASE at[p] = c /\ counted[c] < r
    <3>1. counted[c]' <= r /\ counted'[c] \in Nat
      BY <1>2, <2>1 DEF ReadCandidate, TypeOK
    <3>2. PICK S \in SUBSET Callers : S = Bound'
      BY Zenon DEF Holding, Drawn
    <3>3. counted[c] <= r /\ UNCHANGED <<counted, late, peak>>
      BY <1>2, <2>1, <3>1 DEF ReadCandidate
    <3>4. Provided(c) + Cardinality(S) <= r + Unit
      BY <3>3, Behind
    <3> QED
      BY <3>2, <3>3, <3>4, Zenon DEF Provided, Unit
  <2>2. CASE ~(at[p] = c /\ counted[c] < r)
    <3>1. Bound' \subseteq Bound
      BY <1>2, <2>2 DEF ReadCandidate, Holding, Drawn, TypeOK
    <3> QED
      BY <1>2, <1>k, <3>1 DEF ReadCandidate
  <2> QED
    BY <2>1, <2>2
<1>3. ASSUME NEW p \in Callers, Compare(p) PROVE Provided(c)' + Cardinality(Bound') <= r + Unit'
  <2>0. /\ choice[p] < at[p] /\ at[p] \in Clients /\ read[p] <= counted[at[p]]
        /\ choice[p] \in Clients /\ read[p] \in Nat /\ pc[p] = "compare"
        /\ UNCHANGED <<counted, late, peak, read>>
    <3>1. at[p] \in 1..NumClients /\ at[p] < NumClients
      BY <1>3 DEF Compare, InLoop, TypeOK
    <3>2. choice[p] < at[p] /\ read[p] <= counted[at[p]]
      BY <1>0, <1>3, Zenon DEF Compare, Seen
    <3>3. at[p] \in Clients /\ choice[p] \in Clients /\ read[p] \in Nat
      <4>1. at[p] \in Clients
        BY <3>1, <1>c DEF Clients
      <4> QED
        BY <4>1 DEF TypeOK
    <3> QED
      BY <1>3, <3>2, <3>3, Zenon DEF Compare
  <2>p. /\ pc'[p] = "scan" /\ at'[p] = at[p] + 1
        /\ choice'[p] = IF Fewer(read[p], counted[choice[p]]) THEN at[p] ELSE choice[p]
    BY <1>3 DEF Compare, TypeOK
  <2>q. \A q \in Callers \ {p} : pc'[q] = pc[q] /\ at'[q] = at[q] /\ choice'[q] = choice[q]
    BY <1>3 DEF Compare, TypeOK
  <2>o. (p \in Bound' => p \in Bound) => Bound' \subseteq Bound
    BY <2>0, <2>q DEF Holding, Drawn
  <2>1. CASE Fewer(read[p], counted[choice[p]]) /\ at[p] = c /\ d < c
    <3>0. r >= Provided(d) + (Hops(c, d) - 1) * Unit /\ r >= Provided(d)
      <4>1. Provided(d) <= Provided(d)' /\ peak <= peak'
        BY <1>b, <1>c, <1>d, <2>0
      <4> QED
        BY <4>1, RangeShrinks, Zenon
    <3>1. PICK e \in Clients : e = choice[p]
      BY <2>0
    <3>2. read[p] < Provided(e) /\ e < c
      BY <2>0, <2>1, <3>1 DEF Fewer, Provided, TypeOK
    <3>3. Provided(e) <= r
      <4>1. CASE e = d
        BY <3>0, <4>1
      <4>2. CASE e # d
        <5>1. Ahead(e, d)
          BY <1>0, <4>2 DEF Balanced
        <5>2. PICK k \in Nat : k = Hops(c, d) - 1
          BY HopsGrow
        <5>3. PICK l \in Nat : l = Hops(e, d) - 1
          BY <4>2, HopsGrow
        <5>4. l + 1 <= k
          BY <1>c, <2>1, <3>2, <4>2, <5>2, <5>3, HopsGrow
        <5>5. PICK u \in Nat : u = Unit
          BY Numbers
        <5>6. PICK q \in Nat : q = Provided(d)
          BY <1>d
        <5>7. r >= q + k * u
          BY <5>2, <5>5, <5>6, <3>0, Zenon
        <5>8. \A m \in Nat : m >= q + l * u => Provided(e) <= m + u
          <6>1. ASSUME NEW m \in Nat, m >= q + l * u PROVE Provided(e) <= m + u
            <7>1. Provided(e) + Cardinality(Holding(e, d) \cup Drawn(e, m)) <= m + u
              BY <5>1, <5>3, <5>5, <5>6, <6>1, Zenon DEF Ahead
            <7>2. Cardinality(Holding(e, d) \cup Drawn(e, m)) \in Nat
              BY CallsCounted DEF Holding, Drawn
            <7> QED
              BY <1>d, <5>5, <7>1, <7>2
          <6> QED
            BY <6>1
        <5>9. l * u \in Nat /\ k * u \in Nat /\ (l + 1) * u \in Nat /\ (l + 1) * u <= k * u
          BY <5>4, Multiple
        <5>10. Provided(e) <= q + l * u + u
          BY <5>8, <5>9
        <5>11. (l + 1) * u = l * u + u
          OBVIOUS
        <5> QED
          BY <1>d, <5>7, <5>9, <5>10, <5>11
      <4> QED
        BY <4>1, <4>2
    <3>4. Bound' \subseteq Bound
      <4>1. read[p] < r
        BY <1>d, <2>0, <3>2, <3>3
      <4>2. p \in Bound
        BY <2>0, <2>1, <4>1 DEF Drawn
      <4> QED
        BY <2>o, <4>2
    <3> QED
      BY <1>k, <2>0, <3>4
  <2>2. CASE Fewer(read[p], counted[choice[p]]) /\ ~(at[p] = c /\ d < c)
    <3>1. Bound' \subseteq Bound
      <4>1. p \in Bound' => at[p] = c /\ d < at[p] + 1
        BY <2>2, <2>p DEF Holding, Drawn
      <4> QED
        BY <1>c, <2>2, <2>o, <4>1
    <3> QED
      BY <1>k, <2>0, <3>1
  <2>3. CASE ~Fewer(read[p], counted[choice[p]]) /\ choice[p] = c /\ at[p] = d
    <3>1. r >= Provided(d)
      <4>1. Provided(d) <= Provided(d)' /\ peak <= peak'
        BY <1>b, <1>c, <1>d, <2>0
      <4> QED
        BY <4>1, RangeShrinks, Zenon
    <3>2. counted[c] <= r
      BY <2>0, <2>3, <3>1 DEF Fewer, Provided, TypeOK
    <3>3. PICK S \in SUBSET Callers : S = Bound'
      BY Zenon DEF Holding, Drawn
    <3>4. Provided(c) + Cardinality(S) <= r + Unit
      BY <3>2, Behind
    <3> QED
      BY <2>0, <3>3, <3>4, Zenon DEF Provided, Unit
  <2>4. CASE ~Fewer(read[p], counted[choice[p]]) /\ ~(choice[p] = c /\ at[p] = d)
    <3>1. Bound' \subseteq Bound
      <4>1. p \in Bound' => choice[p] = c /\ d < at[p] + 1
        BY <2>4, <2>p DEF Holding, Drawn
      <4>2. choice[p] = c /\ d < at[p] + 1 => choice[p] = c /\ d < at[p]
        BY <1>c, <2>0, <2>4 DEF Clients
      <4>3. choice[p] = c /\ d < at[p] => p \in Bound
        BY <2>0 DEF Holding
      <4> QED
        BY <2>o, <4>1, <4>2, <4>3
    <3> QED
      BY <1>k, <2>0, <3>1
  <2> QED
    BY <2>1, <2>2, <2>3, <2>4
<1>4. ASSUME NEW p \in Callers, Decide(p) \/ ReadIndex(p) \/ StoreIndex(p)
      PROVE  Provided(c)' + Cardinality(Bound') <= r + Unit'
  <2>1. Bound' \subseteq Bound
    BY <1>4 DEF Decide, ReadIndex, StoreIndex, Holding, Drawn, TypeOK
  <2> QED
    BY <1>k, <1>4, <2>1 DEF Decide, ReadIndex, StoreIndex
<1>5. ASSUME NEW p \in Callers, Fail(p)
      PROVE  Provided(c)' + Cardinality(Bound') <= r + Unit'
  <2>1. pc' = [pc EXCEPT ![p] = "idle"] /\ UNCHANGED <<choice, at, read, counted, late, peak>>
    BY <1>0, <1>5 DEF Fail, LastResort, Return
  <2>2. Bound' \subseteq Bound
    BY <2>1 DEF Holding, Drawn, TypeOK
  <2> QED
    BY <1>k, <2>1, <2>2
<1>6. ASSUME NEW p \in Callers, Provide(p)
      PROVE  Provided(c)' + Cardinality(Bound') <= r + Unit'
  <2>1. /\ pc' = [pc EXCEPT ![p] = "idle"] /\ UNCHANGED <<choice, at, read, counted>>
        /\ late' = [late EXCEPT ![choice[p]] = @ + 1]
        /\ peak' = IF late'[choice[p]] > peak THEN late'[choice[p]] ELSE peak
    BY <1>0, <1>6 DEF Provide, Return
  <2>2. Bound' \subseteq Bound /\ p \notin Bound'
    BY <2>1 DEF Holding, Drawn, TypeOK
  <2>3. PICK e \in Clients : e = choice[p]
    BY DEF TypeOK
  <2>4. peak <= peak' /\ peak' \in Nat
    BY <2>1, <2>3 DEF TypeOK
  <2>5. \A b \in Clients : Provided(b)' = IF b = e THEN Provided(b) + 1 ELSE Provided(b)
    BY <2>1, <2>3 DEF Provided, TypeOK
  <2>6. Provided(d) <= Provided(d)'
    BY <1>d, <2>5
  <2>7. CASE e = c
    <3>1. p \in Bound
      <4>1. pc[p] = "ask" /\ at[p] = NumClients
        BY <1>0, <1>6 DEF Provide, Seen
      <4>2. d < NumClients
        BY <1>c DEF Clients
      <4> QED
        BY <2>3, <2>7, <4>1, <4>2 DEF Holding
    <3>2. PICK S \in SUBSET Callers : S = Bound
      BY Zenon DEF Holding, Drawn
    <3>3. PICK T \in SUBSET Callers : T = Bound'
      BY Zenon DEF Holding, Drawn
    <3>4. T \subseteq S \ {p} /\ p \in S
      BY <2>2, <3>1, <3>2, <3>3
    <3>5. Cardinality(T) \in Nat /\ Cardinality(S) \in Nat /\ Cardinality(T) <= Cardinality(S) - 1
      <4>1. Cardinality(T) <= Cardinality(S \ {p}) /\ Cardinality(S \ {p}) = Cardinality(S) - 1
        BY <3>4, CallsCounted
      <4> QED
        BY <4>1, CallsCounted
    <3>6. r >= Provided(d) + (Hops(c, d) - 1) * Unit /\ Unit <= Unit'
      BY <2>4, <2>6, RangeShrinks, Zenon
    <3>7. Provided(c) + Cardinality(S) <= r + Unit
      BY <1>a, <3>2, <3>6, Zenon DEF Ahead
    <3>8. Unit \in Nat /\ Unit' \in Nat /\ Unit <= Unit'
      BY <2>4, CallsCounted DEF TypeOK, Unit
    <3>9. Provided(c)' + Cardinality(T) <= r + Unit'
      BY <1>d, <2>5, <2>7, <3>5, <3>7, <3>8
    <3> QED
      BY <3>3, <3>9
  <2>8. CASE e # c
    <3>1. Provided(c)' = Provided(c)
      BY <2>5, <2>8
    <3> QED
      BY <1>a, <2>2, <2>4, <2>6, <3>1, AheadKept, Zenon
  <2> QED
    BY <2>7, <2>8
<1>7. ASSUME NEW e \in Clients, Count(e)
      PROVE  Provided(c)' + Cardinality(Bound') <= r + Unit'
  <2>1. \A b \in Clients : Provided(b)' = Provided(b)
    BY <1>7 DEF Count, Provided, TypeOK
  <2>2. peak' = peak /\ Bound' = Bound
    BY <1>7 DEF Count, callVars, Holding, Drawn
  <2>3. Provided(d) <= Provided(d)' /\ peak <= peak'
    BY <1>c, <1>d, <2>1, <2>2
  <2> QED
    BY <1>a, <2>1, <2>2, <2>3, AheadKept, Zenon
<1>8. CASE UNCHANGED vars
  <2>1. Bound' \subseteq Bound
    BY <1>8 DEF vars, callVars, Holding, Drawn
  <2> QED
    BY <1>8, <1>k, <2>1 DEF vars
<1> QED
  BY <1>1, <1>2, <1>3, <1>4, <1>5, <1>6, <1>7, <1>8, Zenon DEF Next, Step

\* HistoricalConnections keeps the load of any number of clients together, for
\* any number of concurrent calls of HistoricalConnectionsShardedClient.Conn()
\* that read the statistics one client at a time (sharding.go:149) and however
\* far those lag behind: a client is ahead of a later one by at most the
\* calls at once and the connections uncounted, and of an earlier one by
\* that much for each client a call may have preferred in between.
THEOREM LoadKeptTogether == Spec => []LoadBalanced
<1>1. Init => InLoop /\ Seen /\ Balanced
  <2> SUFFICES ASSUME Init PROVE InLoop /\ Seen /\ Balanced
    OBVIOUS
  <2>1. InLoop /\ Seen
    BY DEF Init, InLoop, Seen
  <2>2. \A c, d \in Clients : c # d => Ahead(c, d)
    <3> SUFFICES ASSUME NEW c \in Clients, NEW d \in Clients, NEW r \in Nat
                 PROVE  Provided(c) + Cardinality(Holding(c, d) \cup Drawn(c, r)) <= r + Unit
      BY DEF Ahead
    <3>1. Holding(c, d) \cup Drawn(c, r) = {}
      BY DEF Init, Holding, Drawn
    <3>2. Provided(c) = 0 /\ Unit = Cardinality(Callers)
      BY CallsCounted DEF Init, Provided, Unit
    <3> QED
      BY <3>1, <3>2, CallsCounted, FS_EmptySet
  <2> QED
    BY <2>1, <2>2 DEF Balanced
<1>2. TypeOK /\ Balanced => LoadBalanced
  <2> SUFFICES ASSUME TypeOK, Balanced, policy = "HistoricalConnections",
                      NEW c \in Clients, NEW d \in Clients
               PROVE  Provided(c) <= Provided(d) + Hops(c, d) * (peak + Cardinality(Callers))
    BY DEF LoadBalanced
  <2>1. PICK u \in Nat : u = peak + Cardinality(Callers) /\ u = Unit
    BY Numbers DEF Unit
  <2>2. PICK m \in Nat : m = Provided(d)
    BY Numbers
  <2>3. PICK n \in Nat : n = Provided(c)
    BY Numbers
  <2>4. CASE c = d
    <3>1. PICK k \in Nat : k = Hops(c, d)
      BY <2>4, BalancingAssumption DEF Hops, Clients
    <3>2. k * u \in Nat
      BY Multiple
    <3>3. n <= m + k * u
      BY <2>2, <2>3, <2>4, <3>2
    <3> QED
      BY <2>1, <2>2, <2>3, <3>1, <3>3, Zenon
  <2>5. CASE c # d
    <3>1. PICK k \in Nat : k = Hops(c, d) - 1 /\ Hops(c, d) = k + 1
      BY <2>5, HopsGrow, BalancingAssumption DEF Hops, Clients
    <3>2. k * u \in Nat
      BY Multiple
    <3>3. PICK r \in Nat : r = m + k * u
      BY <3>2
    <3>4. r >= m + k * u
      BY <3>2, <3>3
    <3>5. n + Cardinality(Holding(c, d) \cup Drawn(c, r)) <= r + u
      BY <2>1, <2>2, <2>3, <2>5, <3>1, <3>4, Zenon DEF Balanced, Ahead
    <3>6. Cardinality(Holding(c, d) \cup Drawn(c, r)) \in Nat
      BY CallsCounted DEF Holding, Drawn
    <3>7. n <= m + k * u + u
      BY <3>2, <3>3, <3>5, <3>6
    <3>8. k * u + u = (k + 1) * u
      OBVIOUS
    <3>9. n <= m + (k + 1) * u
      BY <3>2, <3>7, <3>8
    <3> QED
      BY <2>1, <2>2, <2>3, <3>1, <3>9, Zenon
  <2> QED
    BY <2>4, <2>5
<1> QED
  BY <1>1, <1>2, TypesKept, TypeStep, SeenStep, BalancedStep, PTL DEF Spec
=============================================================================
