------------------------------ MODULE Balancing ------------------------------
(***************************************************************************)
(* The RoundRobin, Random, HistoricalConnections and Failover policies of  *)
(* internal/network/sharding.go (the fifth one is module Availability),    *)
(* under concurrent calls of Conn(), with the statistics of the TLSClients *)
(* they choose from (client.go).                                           *)
(*                                                                         *)
(* A client's SuccessfulConnections is updated by a goroutine that its     *)
(* Conn() leaves behind; each Stats() is a read of its own, under the      *)
(* client's lock; rrIdx is read and written without any.                   *)
(* FailedConnections, which no policy reads, is left out.                  *)
(***************************************************************************)
EXTENDS Integers, FiniteSetsExt

CONSTANTS
  NumClients,   \* len(c.clients)
  Callers,      \* goroutines that call Conn()
  Policies,     \* the policies that may be configured
  Healthy,      \* clients whose Conn() never fails
  Down,         \* clients whose Conn() always fails
  MaxProvided   \* bound: no call begins when so many connections were provided

\* Clients in the order of configuration, by their index.
Clients == 0..NumClients - 1

ASSUME BalancingAssumption ==
  /\ NumClients \in Nat \ {0}
  /\ IsFiniteSet(Callers)
  /\ Policies \subseteq {"RoundRobin", "Random", "HistoricalConnections", "Failover"}
  /\ Healthy \subseteq Clients /\ Down \subseteq Clients \ Healthy
  /\ MaxProvided \in Nat

VARIABLES
  policy,   \* the policy configured
  rrIdx,    \* RoundRobinShardedClient.rrIdx
  counted,  \* each client's stats.SuccessfulConnections
  late,     \* goroutines that have yet to count a connection it provided
  pc,       \* where each caller is in Conn()
  choice,   \* the client it asks, or the best candidate so far
  at,       \* the candidate its loop has come to
  read,     \* what it last read: a candidate's statistics, or rrIdx
  outcome,  \* what its last Conn() answered
  \* History, read by properties only.
  failed,   \* the clients that failed it in this call
  peak,     \* the most connections of a client that were ever uncounted
  lastAsked,\* the client asked last, by anyone
  overlap   \* some call has begun during another

callVars == <<pc, choice, at, read, outcome, failed>>
vars == <<policy, rrIdx, counted, late, callVars, peak, lastAsked, overlap>>

\* The connections client c has provided.
Provided(c) == counted[c] + late[c]

\* The bound of the instance.
MoreToCome == MapThenSumSet(Provided, Clients) < MaxProvided

-----------------------------------------------------------------------------
(* Conn() of each policy, up to asking a client.                           *)

\* Conn() is called under policy pol; it asks client c, or begins to look for
\* one with c as its first candidate.
Begin(p, pol, c, next) ==
  /\ policy = pol /\ pc[p] = "idle"
  /\ MoreToCome
  /\ pc' = [pc EXCEPT ![p] = next]
  /\ choice' = [choice EXCEPT ![p] = c]
  /\ at' = [at EXCEPT ![p] = 1]
  /\ outcome' = [outcome EXCEPT ![p] = "none"]
  /\ failed' = [failed EXCEPT ![p] = {}]
  /\ lastAsked' = IF next = "ask" THEN c ELSE lastAsked
  /\ overlap' = (overlap \/ \E q \in Callers : pc[q] # "idle")
  /\ UNCHANGED <<policy, rrIdx, counted, late, read, peak>>

RoundRobinConn(p) == Begin(p, "RoundRobin", rrIdx, "ask")

RandomConn(p) == \E c \in Clients : Begin(p, "Random", c, "ask")

\* The first client is the first candidate, its statistics unseen.
HistoricalConn(p) == Begin(p, "HistoricalConnections", 0, "scan")

FailoverConn(p) == Begin(p, "Failover", 0, "ask")

\* candidate.Stats().
ReadCandidate(p) ==
  /\ pc[p] = "scan" /\ at[p] < NumClients
  /\ read' = [read EXCEPT ![p] = counted[at[p]]]
  /\ pc' = [pc EXCEPT ![p] = "compare"]
  /\ UNCHANGED <<policy, rrIdx, counted, late, choice, at, outcome, failed, peak, lastAsked, overlap>>

\* Mutant of Fewer: the client with the most connections is preferred.
FewerReversed(m, n) == m > n

\* The candidate has provided fewer connections than the best one so far.
Fewer(m, n) == m < n

\* client.Stats(), and the choice between the two.
Compare(p) ==
  /\ pc[p] = "compare"
  /\ choice' = [choice EXCEPT ![p] = IF Fewer(read[p], counted[@]) THEN at[p] ELSE @]
  /\ at' = [at EXCEPT ![p] = @ + 1]
  /\ pc' = [pc EXCEPT ![p] = "scan"]
  /\ UNCHANGED <<policy, rrIdx, counted, late, read, outcome, failed, peak, lastAsked, overlap>>

Decide(p) ==
  /\ pc[p] = "scan" /\ at[p] = NumClients
  /\ pc' = [pc EXCEPT ![p] = "ask"]
  /\ lastAsked' = choice[p]
  /\ UNCHANGED <<policy, rrIdx, counted, late, choice, at, read, outcome, failed, peak, overlap>>

-----------------------------------------------------------------------------
(* The client's Conn(), and what is left to do after it.                   *)

\* Mutant of Return: the index is advanced only when a client has failed.
ReturnKept(p, answer) ==
  /\ outcome' = [outcome EXCEPT ![p] = answer]
  /\ pc' = [pc EXCEPT ![p] =
              IF policy = "RoundRobin" /\ answer = "error" THEN "advance" ELSE "idle"]

\* Conn() returns; the round robin's deferred function is still to run.
Return(p, answer) ==
  /\ outcome' = [outcome EXCEPT ![p] = answer]
  /\ pc' = [pc EXCEPT ![p] = IF policy = "RoundRobin" THEN "advance" ELSE "idle"]

\* TLSClient.Conn() has a connection; a goroutine will count it.
Provide(p) ==
  /\ pc[p] = "ask" /\ choice[p] \notin Down
  /\ late' = [late EXCEPT ![choice[p]] = @ + 1]
  /\ peak' = IF late'[choice[p]] > peak THEN late'[choice[p]] ELSE peak
  /\ Return(p, "conn")
  /\ UNCHANGED <<policy, rrIdx, counted, choice, at, read, failed, lastAsked, overlap>>

\* Mutant of LastResort: the loop ends one client early.
LastResortEarly(c) == policy = "Failover" => c >= NumClients - 2

\* No client is asked after c.
LastResort(c) == policy = "Failover" => c = NumClients - 1

\* It has none: Failover asks the next client, the others return the error.
Fail(p) ==
  /\ pc[p] = "ask" /\ choice[p] \notin Healthy
  /\ failed' = [failed EXCEPT ![p] = @ \cup {choice[p]}]
  /\ \/ /\ LastResort(choice[p])
        /\ Return(p, "error")
        /\ UNCHANGED <<choice, lastAsked>>
     \/ /\ ~LastResort(choice[p])
        /\ choice' = [choice EXCEPT ![p] = @ + 1]
        /\ lastAsked' = choice'[p]
        /\ UNCHANGED <<pc, outcome>>
  /\ UNCHANGED <<policy, rrIdx, counted, late, at, read, peak, overlap>>

\* The deferred function reads rrIdx, ...
ReadIndex(p) ==
  /\ pc[p] = "advance"
  /\ read' = [read EXCEPT ![p] = rrIdx]
  /\ pc' = [pc EXCEPT ![p] = "store"]
  /\ UNCHANGED <<policy, rrIdx, counted, late, choice, at, outcome, failed, peak, lastAsked, overlap>>

\* Mutant of Advanced: the index does not start over.
AdvancedPast(i) == i + 1

Advanced(i) == (i + 1) % NumClients

\* ... and writes it, whatever others have written in the meantime.
StoreIndex(p) ==
  /\ pc[p] = "store"
  /\ rrIdx' = Advanced(read[p])
  /\ pc' = [pc EXCEPT ![p] = "idle"]
  /\ UNCHANGED <<policy, counted, late, choice, at, read, outcome, failed, peak, lastAsked, overlap>>

\* One of the goroutines counts its connection.
Count(c) ==
  /\ late[c] > 0
  /\ late' = [late EXCEPT ![c] = @ - 1]
  /\ counted' = [counted EXCEPT ![c] = @ + 1]
  /\ UNCHANGED <<policy, rrIdx, callVars, peak, lastAsked, overlap>>

-----------------------------------------------------------------------------

Init ==
  /\ policy \in Policies
  /\ rrIdx = 0
  /\ counted = [c \in Clients |-> 0]
  /\ late = [c \in Clients |-> 0]
  /\ pc = [p \in Callers |-> "idle"]
  /\ choice = [p \in Callers |-> 0]
  /\ at = [p \in Callers |-> 1]
  /\ read = [p \in Callers |-> 0]
  /\ outcome = [p \in Callers |-> "none"]
  /\ failed = [p \in Callers |-> {}]
  /\ peak = 0
  /\ lastAsked = NumClients - 1
  /\ overlap = FALSE

Call(p) == RoundRobinConn(p) \/ RandomConn(p) \/ HistoricalConn(p) \/ FailoverConn(p)

Step(p) ==
  \/ ReadCandidate(p) \/ Compare(p) \/ Decide(p)
  \/ Provide(p) \/ Fail(p)
  \/ ReadIndex(p) \/ StoreIndex(p)

Next ==
  \/ \E p \in Callers : Call(p) \/ Step(p)
  \/ \E c \in Clients : Count(c)

Spec == Init /\ [][Next]_vars

\* Requests keep coming, and goroutines that can run are run.
FairSpec ==
  /\ Spec
  /\ \A p \in Callers : WF_vars(Call(p)) /\ WF_vars(Step(p))
  /\ \A c \in Clients : WF_vars(Count(c))

-----------------------------------------------------------------------------
(* Properties.                                                             *)

\* The values the variables range over. In particular the round robin's index,
\* read and written by calls at once, always is that of a client: Conn() never
\* indexes c.clients out of range.
TypeOK ==
  /\ policy \in Policies
  /\ rrIdx \in Clients
  /\ counted \in [Clients -> Nat]
  /\ late \in [Clients -> Nat]
  /\ pc \in [Callers -> {"idle", "scan", "compare", "ask", "advance", "store"}]
  /\ choice \in [Callers -> Clients]
  /\ at \in [Callers -> 1..NumClients]
  /\ read \in [Callers -> Nat]
  /\ outcome \in [Callers -> {"none", "conn", "error"}]
  /\ failed \in [Callers -> SUBSET Clients]
  /\ peak \in Nat
  /\ lastAsked \in Clients
  /\ overlap \in BOOLEAN

\* In how many comparisons c can have prevailed over d: directly, or over
\* candidates that had prevailed over d before.
Hops(c, d) == IF c < d THEN 1 ELSE c - (IF d = 0 THEN 0 ELSE d - 1)

\* HistoricalConnections, which decides on statistics that lag behind and are
\* read one by one, lets no client get further ahead of another than the
\* calls at once and the goroutines behind with counting account for: once,
\* or once for each comparison through which the one is preferred to the other.
LoadBalanced ==
  policy = "HistoricalConnections" =>
    \A c, d \in Clients :
      Provided(c) <= Provided(d) + Hops(c, d) * (peak + Cardinality(Callers))

\* As long as calls do not overlap, round robin asks each client in turn, also
\* after one that failed.
Rotates ==
  [][\A p \in Callers :
       RoundRobinConn(p) /\ ~overlap' => choice'[p] = (lastAsked + 1) % NumClients]_vars

\* Failover answers an error only when every client has failed in this very
\* call, and takes a connection only from the first that has not.
FailsOverInOrder ==
  policy = "Failover" => \A p \in Callers :
    /\ outcome[p] = "error" => failed[p] = Clients
    /\ outcome[p] = "conn" => failed[p] = 0..choice[p] - 1

\* A healthy client gets its share although another one has failed ("to ensure
\* that load is distributed to all clients fairly even if one of them has
\* failed").
SharesLoad ==
  \A c \in Healthy : <>(\E p \in Callers : pc[p] = "ask" /\ choice[p] = c)
=============================================================================
