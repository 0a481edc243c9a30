------------------------- MODULE AvailabilityProofs -------------------------
(***************************************************************************)
(* For any number of clients and concurrent calls and any expiries: a call *)
(* fails only when no client is healthy; a client that is left out serves  *)
(* only the calls that found it eligible before it failed, and is left out *)
(* no longer than FailedClientExpiry doubled once per caller, provided     *)
(* that this is a time.Duration.                                           *)
(***************************************************************************)
EXTENDS Availability, FiniteSetTheorems, TLAPS

-----------------------------------------------------------------------------
(* Types.                                                                  *)

\* A caller that asks has a client to ask.
Asking == \A p \in Callers : pc[p] = "dial" => choice[p] \in Clients

\* A Duration stays in its range, and is what it should be when that is.
LEMMA DurationRange ==
  ASSUME NEW d \in Int
  PROVE  /\ Duration(d) \in -(MaxDuration + 1)..MaxDuration
         /\ d \in 0..MaxDuration => Duration(d) = d
<1>1. PICK m \in Nat \ {0} : m = MaxDuration + 1
  BY AvailabilityAssumption
<1>2. PICK k \in Int : k = d + m
  BY <1>1
<1>3. k % (2 * m) \in 0..(2 * m) - 1
  BY <1>1, <1>2
<1>4. Duration(d) = (k % (2 * m)) - m
  BY <1>1, <1>2, AvailabilityAssumption DEF Duration
<1>5. d \in 0..MaxDuration => k \in 0..(2 * m) - 1
  BY <1>1, <1>2, AvailabilityAssumption
<1>6. k \in 0..(2 * m) - 1 => k % (2 * m) = k
  BY <1>1, <1>2
<1>7. PICK n \in Int : n = k % (2 * m)
  BY <1>3
<1> QED
  BY <1>1, <1>2, <1>3, <1>4, <1>5, <1>6, <1>7, AvailabilityAssumption

\* Every step keeps the types.
LEMMA TypeStep == TypeOK /\ Asking /\ [Next]_vars => TypeOK' /\ Asking'
<1> SUFFICES ASSUME TypeOK, Asking, [Next]_vars PROVE TypeOK' /\ Asking'
  OBVIOUS
<1> USE AvailabilityAssumption
<1>1. ASSUME UNCHANGED healthy, NEW p \in Callers, Begin(p) PROVE TypeOK' /\ Asking'
  BY <1>1 DEF Begin, TypeOK, Asking
<1>2. ASSUME UNCHANGED healthy, NEW p \in Callers, Scan(p) PROVE TypeOK' /\ Asking'
  <2>1. scanned[p] + 1 \in 0..NumClients /\ scanned[p] + 1 \in Clients
    BY <1>2 DEF Scan, TypeOK, Clients
  <2>2. eligible[p] \cup {c \in {scanned[p] + 1} : Available(c)} \in SUBSET Clients
    BY <2>1 DEF TypeOK
  <2>3. scanned' \in [Callers -> 0..NumClients] /\ eligible' \in [Callers -> SUBSET Clients]
    BY <1>2, <2>1, <2>2 DEF Scan, TypeOK
  <2> QED
    BY <1>2, <2>3 DEF Scan, TypeOK, Asking
<1>3. ASSUME UNCHANGED healthy, NEW p \in Callers, Pick(p) PROVE TypeOK' /\ Asking'
  <2>1. scanned' \in [Callers -> 0..NumClients] /\ eligible' \in [Callers -> SUBSET Clients]
    BY <1>3 DEF Pick, Selected, TypeOK
  <2>2. PICK c \in eligible[p] : choice' = [choice EXCEPT ![p] = c]
    BY <1>3, Zenon DEF Pick
  <2>3. c \in Clients
    BY <2>2 DEF TypeOK
  <2> QED
    BY <1>3, <2>1, <2>2, <2>3, Zenon DEF Pick, TypeOK, Asking
<1>4. ASSUME UNCHANGED healthy, NEW p \in Callers, NoneLive(p) PROVE TypeOK' /\ Asking'
  <2>1. scanned' \in [Callers -> 0..NumClients] /\ eligible' \in [Callers -> SUBSET Clients]
    BY <1>4 DEF NoneLive, Selected, TypeOK
  <2> QED
    BY <1>4, <2>1 DEF NoneLive, EndAttempt, Selected, TypeOK, Asking
<1>5. ASSUME UNCHANGED healthy, NEW p \in Callers, Provide(p) PROVE TypeOK' /\ Asking'
  BY <1>5 DEF Provide, EndAttempt, TypeOK, Asking
<1>6. ASSUME UNCHANGED healthy, NEW p \in Callers, Fail(p) PROVE TypeOK' /\ Asking'
  <2>1. choice[p] \in Clients
    BY <1>6 DEF Fail, Asking
  <2>2. Backoff(choice[p]) \in -(MaxDuration + 1)..MaxDuration
    <3>1. FirstExpiry \in -(MaxDuration + 1)..MaxDuration /\ 2 * expiry[choice[p]] \in Int
      BY <2>1 DEF TypeOK
    <3> QED
      BY <3>1, DurationRange DEF Backoff
  <2>3. /\ expiry' \in [Clients -> -(MaxDuration + 1)..MaxDuration]
        /\ since' \in [Clients -> Nat \cup {Never}]
    BY <1>6, <2>1, <2>2 DEF Fail, MarkFailed, TypeOK
  <2>4. overtaken' \in [Callers -> SUBSET Clients]
    BY <1>6, <2>1 DEF Fail, MarkFailed, TypeOK
  <2>5. UNCHANGED <<healthy, scanned, eligible, outcome>> /\ pc' = [pc EXCEPT ![p] = "select"]
        /\ choice' = [choice EXCEPT ![p] = 0] /\ age' = [age EXCEPT ![p] = 0]
    BY <1>6 DEF Fail, EndAttempt
  <2> QED
    BY <2>3, <2>4, <2>5 DEF TypeOK, Asking
<1>7. ASSUME UNCHANGED healthy, Tick PROVE TypeOK' /\ Asking'
  <2>1. age' \in [Callers -> Nat]
    BY <1>7 DEF Tick, TypeOK
  <2>2. since' \in [Clients -> Nat \cup {Never}]
    BY <1>7 DEF Tick, TypeOK
  <2> QED
    BY <1>7, <2>1, <2>2 DEF Tick, TypeOK, Asking
<1>8. CASE UNCHANGED vars
  BY <1>8 DEF vars, TypeOK, Asking
<1> QED
  BY <1>1, <1>2, <1>3, <1>4, <1>5, <1>6, <1>7, <1>8 DEF Next, Step

\* Every variable keeps its type, and callers that ask have a client to ask.
LEMMA TypesKept == Spec => [](TypeOK /\ Asking)
<1>1. Init => TypeOK /\ Asking
  BY AvailabilityAssumption DEF Init, TypeOK, Asking
<1> QED
  BY <1>1, TypeStep, PTL DEF Spec

\* Every variable keeps its type: selectAvailable stays within c.clients, and an
\* expiry is a Duration.
THEOREM TypeCorrect == Spec => []TypeOK
  BY TypesKept, PTL

-----------------------------------------------------------------------------
(* Failing over.                                                           *)

\* A healthy client has never failed, so that every scan that has passed it has
\* gathered it, and no call has failed.
Spared ==
  /\ \A c \in healthy : since[c] = Never
  /\ \A p \in Callers : pc[p] = "select" => healthy \cap 1..scanned[p] \subseteq eligible[p]
  /\ \A p \in Callers : pc[p] # "select" => scanned[p] = 0
  /\ FailsOver

\* No step disturbs it.
LEMMA SparedStep == TypeOK /\ Asking /\ Spared /\ [Next]_vars => Spared'
<1> SUFFICES ASSUME TypeOK, Asking, Spared, [Next]_vars PROVE Spared'
  OBVIOUS
<1> USE AvailabilityAssumption
<1>1. ASSUME UNCHANGED healthy, NEW p \in Callers, Begin(p) PROVE Spared'
  BY <1>1 DEF Begin, TypeOK, Spared, FailsOver
<1>2. ASSUME UNCHANGED healthy, NEW p \in Callers, Scan(p) PROVE Spared'
  <2>1. scanned[p] \in Nat
    BY DEF TypeOK
  <2>2. healthy \cap 1..scanned[p] + 1 \subseteq
          eligible[p] \cup {c \in {scanned[p] + 1} : Available(c)}
    BY <1>2, <2>1 DEF Scan, Spared, Available
  <2> QED
    BY <1>2, <2>2 DEF Scan, TypeOK, Spared, FailsOver
<1>3. ASSUME UNCHANGED healthy, NEW p \in Callers, Pick(p) PROVE Spared'
  BY <1>3 DEF Pick, Selected, TypeOK, Spared, FailsOver
<1>4. ASSUME UNCHANGED healthy, NEW p \in Callers, NoneLive(p) PROVE Spared'
  <2>1. healthy = {}
    BY <1>4, Zenon DEF NoneLive, Selected, TypeOK, Spared, Clients
  <2> QED
    BY <1>4, <2>1 DEF NoneLive, EndAttempt, Selected, TypeOK, Spared, FailsOver
<1>5. ASSUME UNCHANGED healthy, NEW p \in Callers, Provide(p) PROVE Spared'
  BY <1>5 DEF Provide, TypeOK, Spared, FailsOver
<1>6. ASSUME UNCHANGED healthy, NEW p \in Callers, Fail(p) PROVE Spared'
  <2>1. \A c \in healthy : since'[c] = Never
    BY <1>6 DEF Fail, MarkFailed, TypeOK, Spared
  <2>2. scanned[p] = 0 /\ 1..0 = {}
    BY <1>6 DEF Fail, Spared
  <2> QED
    BY <1>6, <2>1, <2>2 DEF Fail, TypeOK, Spared, FailsOver
<1>7. ASSUME UNCHANGED healthy, Tick PROVE Spared'
  <2>1. \A c \in healthy : since'[c] = Never
    BY <1>7 DEF Tick, TypeOK, Spared
  <2>2. UNCHANGED <<healthy, pc, scanned, eligible, outcome>>
    BY <1>7 DEF Tick
  <2> QED
    BY <2>1, <2>2 DEF Spared, FailsOver
<1>8. CASE UNCHANGED vars
  BY <1>8 DEF vars, Spared, FailsOver
<1> QED
  BY <1>1, <1>2, <1>3, <1>4, <1>5, <1>6, <1>7, <1>8 DEF Next, Step

\* As long as one client is healthy, no call of AvailabilityShardedClient.Conn()
\* answers an error, however many clients fail, how often, and whatever other
\* calls do between the locks of selectAvailable.
THEOREM ReachesHealthy == Spec => []FailsOver
<1>1. Init => Spared
  BY AvailabilityAssumption DEF Init, Spared, FailsOver
<1>2. Spared => FailsOver
  BY DEF Spared
<1> QED
  BY <1>1, <1>2, TypesKept, SparedStep, PTL DEF Spec

-----------------------------------------------------------------------------
(* Leaving a client out.                                                   *)

\* A client that a call has found eligible is available, or has overtaken it.
InFlight ==
  \A p \in Callers :
    /\ \A c \in eligible[p] : Available(c) \/ c \in overtaken[p]
    /\ pc[p] # "select" => eligible[p] = {}
    /\ pc[p] = "dial" => Available(choice[p]) \/ choice[p] \in overtaken[p]

\* Time makes no client unavailable.
LEMMA TickAvailable ==
  ASSUME TypeOK, Tick, NEW c \in Clients
  PROVE  Available(c) => Available(c)'
<1>1. since'[c] = IF since[c] = Never \/ since[c] > Longest THEN since[c] ELSE since[c] + 1
  BY DEF Tick
<1>2. expiry'[c] = expiry[c] /\ expiry[c] \in Int /\ since[c] \in Nat \cup {Never}
  BY AvailabilityAssumption DEF Tick, TypeOK
<1> QED
  BY <1>1, <1>2, AvailabilityAssumption DEF Available

\* No step disturbs InFlight.
LEMMA InFlightStep == TypeOK /\ Asking /\ InFlight /\ [Next]_vars => InFlight'
<1> SUFFICES ASSUME TypeOK, Asking, InFlight, [Next]_vars PROVE InFlight'
  OBVIOUS
<1> USE AvailabilityAssumption
<1>1. ASSUME NEW p \in Callers, Begin(p) PROVE InFlight'
  BY <1>1 DEF Begin, TypeOK, InFlight, Available
<1>2. ASSUME NEW p \in Callers, Scan(p) PROVE InFlight'
  BY <1>2 DEF Scan, TypeOK, InFlight, Available
<1>3. ASSUME NEW p \in Callers, Pick(p) PROVE InFlight'
  <2>1. PICK c \in eligible[p] : choice' = [choice EXCEPT ![p] = c]
    BY <1>3, Zenon DEF Pick
  <2>2. Available(c) \/ c \in overtaken[p]
    BY <2>1 DEF InFlight
  <2> QED
    BY <1>3, <2>1, <2>2 DEF Pick, Selected, TypeOK, InFlight, Available
<1>4. ASSUME NEW p \in Callers, NoneLive(p) PROVE InFlight'
  BY <1>4 DEF NoneLive, EndAttempt, Selected, TypeOK, InFlight, Available
<1>5. ASSUME NEW p \in Callers, Provide(p) PROVE InFlight'
  BY <1>5 DEF Provide, EndAttempt, TypeOK, InFlight, Available
<1>6. ASSUME NEW p \in Callers, Fail(p) PROVE InFlight'
  <2>1. PICK d \in Clients : d = choice[p]
    BY <1>6 DEF Fail, Asking
  <2>2. \A c \in Clients \ {d} : Available(c) => Available(c)'
    BY <1>6, <2>1 DEF Fail, MarkFailed, TypeOK, Available
  <2>3. ASSUME NEW q \in Callers PROVE
          /\ \A c \in eligible'[q] : Available(c)' \/ c \in overtaken'[q]
          /\ pc'[q] # "select" => eligible'[q] = {}
          /\ pc'[q] = "dial" => Available(choice[q])' \/ choice'[q] \in overtaken'[q]
    <3>1. CASE q = p
      BY <1>6, <3>1 DEF Fail, TypeOK, InFlight
    <3>2. CASE q # p
      <4>1. pc'[q] = pc[q] /\ eligible' = eligible /\ choice'[q] = choice[q]
        BY <1>6, <3>2 DEF Fail, EndAttempt, TypeOK
      <4>2. overtaken'[q] = IF q \in Reach(d) THEN overtaken[q] \cup {d} ELSE overtaken[q]
        BY <1>6, <2>1, <3>2 DEF Fail, MarkFailed
      <4>3. eligible[q] \subseteq Clients /\ (pc[q] = "dial" => choice[q] \in Clients)
        BY DEF TypeOK, Asking
      <4>4. ASSUME NEW c \in Clients, Available(c) \/ c \in overtaken[q], c = d => q \in Reach(d)
            PROVE  Available(c)' \/ c \in overtaken'[q]
        BY <2>2, <4>2, <4>4
      <4>5. \A c \in eligible[q] : Available(c)' \/ c \in overtaken'[q]
        BY <4>3, <4>4 DEF InFlight, Reach
      <4>6. pc[q] = "dial" => Available(choice[q])' \/ choice[q] \in overtaken'[q]
        <5> SUFFICES ASSUME pc[q] = "dial" PROVE Available(choice[q])' \/ choice[q] \in overtaken'[q]
          OBVIOUS
        <5>1. PICK c \in Clients : c = choice[q]
          BY <4>3
        <5>2. Available(c) \/ c \in overtaken[q]
          BY <5>1 DEF InFlight
        <5>3. c = d => q \in Reach(d)
          BY <5>1 DEF Reach
        <5>4. Available(c)' \/ c \in overtaken'[q]
          BY <4>4, <5>2, <5>3
        <5> QED
          BY <4>1, <5>1, <5>4 DEF Available
      <4> QED
        BY <4>1, <4>5, <4>6 DEF InFlight
    <3> QED
      BY <3>1, <3>2
  <2> QED
    BY <2>3 DEF InFlight
<1>7. ASSUME Tick PROVE InFlight'
  <2>1. UNCHANGED <<pc, eligible, choice, overtaken>>
    BY <1>7 DEF Tick
  <2>2. ASSUME NEW q \in Callers
        PROVE  /\ \A c \in eligible[q] : Available(c)' \/ c \in overtaken[q]
               /\ pc[q] = "dial" => Available(choice[q])' \/ choice[q] \in overtaken[q]
    <3>1. eligible[q] \subseteq Clients /\ (pc[q] = "dial" => choice[q] \in Clients)
      BY DEF TypeOK, Asking
    <3>2. \A c \in eligible[q] : Available(c)' \/ c \in overtaken[q]
      BY <1>7, <3>1, TickAvailable DEF InFlight
    <3>3. ASSUME pc[q] = "dial" PROVE Available(choice[q])' \/ choice[q] \in overtaken[q]
      <4>1. PICK c \in Clients : c = choice[q]
        BY <3>1, <3>3
      <4>2. Available(c) => Available(c)'
        BY <1>7, TickAvailable
      <4> QED
        BY <2>1, <3>3, <4>1, <4>2 DEF InFlight, Available
    <3> QED
      BY <3>2, <3>3
  <2> QED
    BY <2>1, <2>2 DEF InFlight, Available
<1>8. CASE UNCHANGED vars
  BY <1>8 DEF vars, InFlight, Available
<1> QED
  BY <1>1, <1>2, <1>3, <1>4, <1>5, <1>6, <1>7, <1>8 DEF Next, Step

\* A client that is left out provides a connection only to a call that had found
\* it eligible before it failed, however long ago: what selectAvailable finds may
\* be stale by the time it is used, but nobody finds it before the error expires.
THEOREM LeftOut == Spec => LeftOutOnlyInFlight
<1>1. Init => InFlight
  BY DEF Init, InFlight
<1>2. InFlight =>
        [\A p \in Callers :
           Provide(p) => Available(choice[p]) \/ choice[p] \in overtaken[p]]_vars
  BY DEF InFlight, Provide
<1> QED
  BY <1>1, <1>2, TypesKept, InFlightStep, PTL DEF Spec, LeftOutOnlyInFlight

-----------------------------------------------------------------------------
(* Backing off.                                                            *)

\* The powers of two are the numbers of subsets.
LEMMA PowerType ==
  ASSUME NEW S, IsFiniteSet(S)
  PROVE  2 ^ Cardinality(S) \in Nat \ {0}
<1>1. IsFiniteSet(SUBSET S) /\ Cardinality(SUBSET S) = 2 ^ Cardinality(S)
  BY FS_SUBSET
<1>2. SUBSET S # {}
  OBVIOUS
<1> QED
  BY <1>1, <1>2, FS_CardinalityType, FS_EmptySet

\* Half of the subsets have a given element: leaving it out halves the power.
LEMMA PowerHalved ==
  ASSUME NEW S, IsFiniteSet(S), NEW x \in S
  PROVE  2 ^ Cardinality(S) = 2 * 2 ^ Cardinality(S \ {x})
<1> DEFINE A == SUBSET (S \ {x})
           B == {T \in SUBSET S : x \in T}
           f == [T \in A |-> T \cup {x}]
<1>1. /\ IsFiniteSet(S \ {x})
      /\ IsFiniteSet(A) /\ Cardinality(A) = 2 ^ Cardinality(S \ {x})
      /\ IsFiniteSet(SUBSET S) /\ Cardinality(SUBSET S) = 2 ^ Cardinality(S)
  BY FS_SUBSET, FS_RemoveElement
<1>2. f \in Bijection(A, B)
  <2>1. f \in [A -> B]
    OBVIOUS
  <2>2. \A T, U \in A : f[T] = f[U] => T = U
    OBVIOUS
  <2>3. ASSUME NEW U \in B PROVE \E T \in A : f[T] = U
    <3>1. U \ {x} \in A /\ f[U \ {x}] = U
      OBVIOUS
    <3> QED
      BY <3>1
  <2> QED
    BY <2>1, <2>2, <2>3 DEF Bijection, Injection, Surjection, IsInjective
<1>3. IsFiniteSet(B) /\ Cardinality(B) = Cardinality(A)
  BY <1>1, <1>2, FS_Bijection DEF ExistsBijection
<1>4. SUBSET S = A \cup B /\ A \cap B = {}
  OBVIOUS
<1>5. Cardinality(SUBSET S) = Cardinality(A) + Cardinality(B) - 0
  BY <1>1, <1>3, <1>4, FS_Union, FS_EmptySet
<1>6. Cardinality(A) \in Nat
  BY <1>1, FS_CardinalityType
<1> QED
  BY <1>1, <1>3, <1>5, <1>6

\* A larger set has the larger power.
LEMMA PowerMonotonic ==
  ASSUME NEW S, IsFiniteSet(S), NEW T \in SUBSET S
  PROVE  2 ^ Cardinality(T) <= 2 ^ Cardinality(S)
<1>1. IsFiniteSet(T) /\ SUBSET T \in SUBSET (SUBSET S)
  BY FS_Subset
<1>2. IsFiniteSet(SUBSET S) /\ Cardinality(SUBSET T) <= Cardinality(SUBSET S)
  BY <1>1, FS_SUBSET, FS_Subset
<1>3. Cardinality(SUBSET T) = 2 ^ Cardinality(T)
  BY <1>1, FS_SUBSET, Zenon
<1>4. Cardinality(SUBSET S) = 2 ^ Cardinality(S)
  BY FS_SUBSET, Zenon
<1> QED
  BY <1>2, <1>3, <1>4

\* What the expiry of c is bounded by while so many calls may yet double it.
Ceiling(c) == FailedClientExpiry * 2 ^ Cardinality(Callers \ Reach(c))

\* A failure that is followed by another one in time doubles the expiry; there
\* are no more of those to come than calls within reach of the client.
Backed ==
  /\ \A c \in Clients :
       since[c] # Never /\ since[c] <= FailedClientExpiry => expiry[c] <= Ceiling(c)
  /\ BackoffBound

\* A ceiling is between FailedClientExpiry and Longest, and no lower when fewer
\* calls are within reach.
LEMMA CeilingBounds ==
  ASSUME NEW S \in SUBSET Callers, NEW T \in SUBSET S
  PROVE  LET Up(U) == FailedClientExpiry * 2 ^ Cardinality(U) IN
           /\ Up(S) \in Nat /\ Up(T) \in Nat /\ Longest \in Nat
           /\ FailedClientExpiry <= Up(T) /\ Up(T) <= Up(S) /\ Up(S) <= Longest
<1>1. IsFiniteSet(Callers) /\ FailedClientExpiry \in Nat
  BY AvailabilityAssumption
<1>2. IsFiniteSet(S) /\ IsFiniteSet(T)
  BY <1>1, FS_Subset
<1>3. PICK t \in Nat \ {0} : t = 2 ^ Cardinality(T)
  BY <1>2, PowerType
<1>4. PICK u \in Nat \ {0} : u = 2 ^ Cardinality(S)
  BY <1>2, PowerType
<1>5. PICK v \in Nat \ {0} : v = 2 ^ Cardinality(Callers)
  BY <1>1, PowerType
<1>6. t <= u /\ u <= v
  BY <1>1, <1>2, <1>3, <1>4, <1>5, PowerMonotonic
<1>7. ASSUME NEW a \in Nat, NEW b \in Nat, a <= b
      PROVE FailedClientExpiry * a <= FailedClientExpiry * b
  BY <1>1, <1>7
<1>8. /\ FailedClientExpiry * 1 <= FailedClientExpiry * t
      /\ FailedClientExpiry * t <= FailedClientExpiry * u
      /\ FailedClientExpiry * u <= FailedClientExpiry * v
  BY <1>6, <1>7
<1> QED
  BY <1>1, <1>3, <1>4, <1>5, <1>8 DEF Longest

\* A step that changes no expiry keeps Backed, unless it brings a call within
\* reach of a client whose expiry is long already.
LEMMA BackedFrame ==
  ASSUME TypeOK, Backed, UNCHANGED expiry,
         \A c \in Clients : since'[c] # Never => since[c] # Never,
         \A c \in Clients : since'[c] # Never /\ since'[c] <= FailedClientExpiry =>
           \/ expiry[c] <= FailedClientExpiry
           \/ /\ since[c] # Never /\ since[c] <= FailedClientExpiry
              /\ Reach(c)' \subseteq Reach(c)
  PROVE  Backed'
<1> SUFFICES ASSUME NEW c \in Clients, since'[c] # Never, since'[c] <= FailedClientExpiry
             PROVE expiry[c] <= Ceiling(c)'
  BY DEF Backed, BackoffBound
<1>1. PICK S : S = Callers \ Reach(c)
  BY Zenon
<1>2. PICK T : T = Callers \ Reach(c)'
  BY Zenon
<1>3. expiry[c] \in Int /\ FailedClientExpiry \in Nat
  BY AvailabilityAssumption DEF TypeOK
<1>4. Ceiling(c)' = FailedClientExpiry * 2 ^ Cardinality(T)
  BY <1>2 DEF Ceiling
<1>5. CASE expiry[c] <= FailedClientExpiry
  <2>1. FailedClientExpiry <= Ceiling(c)' /\ Ceiling(c)' \in Nat
    BY <1>2, <1>4, CeilingBounds
  <2> QED
    BY <1>3, <1>5, <2>1
<1>6. CASE since[c] # Never /\ since[c] <= FailedClientExpiry /\ Reach(c)' \subseteq Reach(c)
  <2>1. S \in SUBSET T /\ T \in SUBSET Callers
    BY <1>1, <1>2, <1>6
  <2>2. Ceiling(c) <= Ceiling(c)' /\ Ceiling(c) \in Nat /\ Ceiling(c)' \in Nat
    BY <1>1, <1>4, <2>1, CeilingBounds DEF Ceiling
  <2>3. expiry[c] <= Ceiling(c)
    BY <1>6 DEF Backed
  <2> QED
    BY <1>3, <2>2, <2>3
<1> QED
  BY <1>5, <1>6

\* No step disturbs Backed.
LEMMA BackedStep ==
  ASSUME Longest <= MaxDuration, TypeOK, Asking, InFlight, Backed, [Next]_vars
  PROVE  Backed'
<1>0. /\ FailedClientExpiry \in Nat /\ FirstExpiry \in Nat /\ FirstExpiry <= FailedClientExpiry
      /\ MaxDuration \in Nat /\ Never \notin Int
  BY AvailabilityAssumption
<1>1. ASSUME NEW p \in Callers, Begin(p) \/ Provide(p) \/ Pick(p) \/ NoneLive(p) PROVE Backed'
  <2>1. UNCHANGED <<since, expiry>>
    BY <1>1 DEF Begin, Provide, Pick, NoneLive
  <2>2. ASSUME NEW c \in Clients PROVE Reach(c)' \subseteq Reach(c)
    <3>1. CASE Begin(p)
      BY <3>1 DEF Begin, TypeOK, Reach
    <3>2. CASE Provide(p)
      BY <3>2 DEF Provide, EndAttempt, TypeOK, Reach
    <3>3. CASE Pick(p)
      BY <3>3 DEF Pick, Selected, TypeOK, Reach
    <3>4. CASE NoneLive(p)
      BY <3>4 DEF NoneLive, EndAttempt, Selected, TypeOK, Reach
    <3> QED
      BY <1>1, <3>1, <3>2, <3>3, <3>4
  <2> QED
    BY <2>1, <2>2, BackedFrame
<1>2. ASSUME NEW p \in Callers, Scan(p) PROVE Backed'
  <2>1. UNCHANGED <<since, expiry>>
    BY <1>2 DEF Scan
  <2>2. ASSUME NEW c \in Clients, since[c] # Never, since[c] <= FailedClientExpiry
        PROVE expiry[c] <= FailedClientExpiry \/ Reach(c)' \subseteq Reach(c)
    <3>1. CASE Available(c)
      BY <1>0, <2>2, <3>1 DEF Available, TypeOK
    <3>2. CASE ~Available(c)
      BY <1>2, <3>2 DEF Scan, TypeOK, Reach
    <3> QED
      BY <3>1, <3>2
  <2> QED
    BY <2>1, <2>2, BackedFrame
<1>3. ASSUME NEW p \in Callers, Fail(p) PROVE Backed'
  <2>1. PICK c \in Clients : c = choice[p]
    BY <1>3 DEF Fail, Asking
  <2>2. expiry' = [expiry EXCEPT ![c] = Backoff(c)] /\ since' = [since EXCEPT ![c] = 0]
    BY <1>3, <2>1, Zenon DEF Fail, MarkFailed
  <2>3. \A d \in Clients : Reach(d)' \subseteq Reach(d) \ {p}
    BY <1>3 DEF Fail, EndAttempt, TypeOK, InFlight, Reach
  <2>4. p \in Reach(c)
    BY <1>3, <2>1 DEF Fail, Reach
  <2>5. ASSUME NEW d \in Clients
        PROVE /\ since'[d] # Never /\ since'[d] <= FailedClientExpiry => expiry'[d] <= Ceiling(d)'
              /\ since'[d] # Never => FirstExpiry <= expiry'[d] /\ expiry'[d] <= Longest
    <3>1. PICK S : S = Callers \ Reach(d)
      BY Zenon
    <3>2. PICK T : T = Callers \ Reach(d)'
      BY Zenon
    <3>3. S \in SUBSET T /\ T \in SUBSET Callers
      BY <2>3, <3>1, <3>2
    <3>4. /\ Ceiling(d) = FailedClientExpiry * 2 ^ Cardinality(S)
          /\ Ceiling(d)' = FailedClientExpiry * 2 ^ Cardinality(T)
      BY <3>1, <3>2 DEF Ceiling
    <3>5. /\ Ceiling(d) \in Nat /\ Ceiling(d)' \in Nat /\ Longest \in Nat
          /\ FailedClientExpiry <= Ceiling(d)' /\ Ceiling(d) <= Ceiling(d)' /\ Ceiling(d)' <= Longest
      BY <3>3, <3>4, CeilingBounds
    <3>6. CASE d # c
      <4>1. since'[d] = since[d] /\ expiry'[d] = expiry[d] /\ expiry[d] \in Int
        BY <1>0, <2>2, <3>6 DEF TypeOK
      <4>2. /\ since[d] # Never /\ since[d] <= FailedClientExpiry => expiry[d] <= Ceiling(d)
            /\ since[d] # Never => FirstExpiry <= expiry[d] /\ expiry[d] <= Longest
        BY Zenon DEF Backed, BackoffBound
      <4>3. PICK x \in Nat, y \in Nat : x = Ceiling(d) /\ y = Ceiling(d)' /\ x <= y
        BY <3>5
      <4>4. expiry[d] <= x => expiry[d] <= y
        BY <4>1, <4>3
      <4> QED
        BY Zenon, <4>1, <4>2, <4>3, <4>4
    <3>7. CASE d = c
      <4>1. expiry'[d] = Backoff(d) /\ expiry[d] \in Int
        BY <1>0, <2>2, <3>7 DEF TypeOK
      <4>2. CASE since[d] = Never \/ since[d] > FailedClientExpiry
        BY <1>0, <3>5, <4>1, <4>2 DEF Backoff
      <4>3. CASE ~(since[d] = Never \/ since[d] > FailedClientExpiry)
        <5>1. Backoff(d) = Duration(2 * expiry[d]) /\ since[d] \in Nat
          BY <4>3 DEF Backoff, TypeOK
        <5>2. expiry[d] <= Ceiling(d) /\ FirstExpiry <= expiry[d]
          BY <1>0, <4>3, <5>1 DEF Backed, BackoffBound
        <5>3. p \in T /\ S \in SUBSET (T \ {p}) /\ T \ {p} \in SUBSET Callers
          BY <2>3, <2>4, <3>1, <3>2, <3>7
        <5>4. IsFiniteSet(T) /\ IsFiniteSet(T \ {p})
          BY <3>3, AvailabilityAssumption, FS_Subset, FS_RemoveElement
        <5>5. PICK u \in Nat : u = 2 ^ Cardinality(T \ {p})
          BY <5>4, PowerType
        <5>6. Ceiling(d)' = FailedClientExpiry * (2 * u)
          BY <3>4, <5>3, <5>4, <5>5, PowerHalved
        <5>7. Ceiling(d) <= FailedClientExpiry * u
          BY <3>4, <5>3, <5>5, CeilingBounds
        <5>8. 2 * Ceiling(d) <= Ceiling(d)'
          BY <1>0, <3>5, <5>5, <5>6, <5>7
        <5>9. 2 * expiry[d] <= Ceiling(d)' /\ 2 * expiry[d] \in 0..MaxDuration
          BY <1>0, <3>5, <4>1, <5>2, <5>8
        <5>10. expiry'[d] = 2 * expiry[d]
          BY <4>1, <5>1, <5>9, DurationRange
        <5> QED
          BY <1>0, <3>5, <4>1, <5>2, <5>9, <5>10
      <4> QED
        BY <4>2, <4>3
    <3> QED
      BY <3>6, <3>7
  <2> QED
    BY <2>5 DEF Backed, BackoffBound
<1>4. ASSUME Tick PROVE Backed'
  <2>1. \A c \in Clients : Reach(c)' = Reach(c)
    BY <1>4 DEF Tick, Reach
  <2>2. ASSUME NEW c \in Clients, since'[c] # Never, since'[c] <= FailedClientExpiry
        PROVE since[c] # Never /\ since[c] <= FailedClientExpiry
    <3>1. since'[c] = IF since[c] = Never \/ since[c] > Longest THEN since[c] ELSE since[c] + 1
      BY <1>4 DEF Tick
    <3>2. since[c] \in Nat \cup {Never}
      BY DEF TypeOK
    <3> QED
      BY <1>0, <2>2, <3>1, <3>2
  <2>3. UNCHANGED expiry /\ \A c \in Clients : since'[c] # Never => since[c] # Never
    BY <1>4 DEF Tick
  <2> QED
    BY <2>1, <2>2, <2>3, BackedFrame
<1>5. CASE UNCHANGED vars
  <2>1. \A c \in Clients : Reach(c)' = Reach(c)
    BY <1>5 DEF vars, Reach
  <2> QED
    BY <1>5, <2>1, BackedFrame DEF vars
<1> QED
  BY <1>1, <1>2, <1>3, <1>4, <1>5 DEF Next, Step

\* A client that fails is left out for at least FirstExpiry and no longer than
\* FailedClientExpiry doubled once per caller, however many calls fail on it at
\* once, when a Duration can hold that much: what is done when "the most recent
\* client failure was too recent" is done for calls that were within reach of the
\* client before.  (30 s can be doubled 28 times in the 64 bits of nanoseconds.)
THEOREM BoundedBackoff ==
  ASSUME Longest <= MaxDuration
  PROVE  Spec => []BackoffBound
<1>1. Init => InFlight
  BY DEF Init, InFlight
<1>2. Init => Backed
  BY DEF Init, Backed, BackoffBound
<1>3. Backed => BackoffBound
  BY DEF Backed
<1>4. TypeOK /\ Asking /\ InFlight /\ Backed /\ [Next]_vars => Backed'
  BY BackedStep
<1> QED
  BY <1>1, <1>2, <1>3, <1>4, TypesKept, InFlightStep, PTL DEF Spec
=============================================================================
