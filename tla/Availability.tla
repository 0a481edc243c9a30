---------------------------- MODULE Availability ----------------------------
(***************************************************************************)
(* AvailabilityShardedClient (internal/network/sharding.go): concurrent    *)
(* calls of Conn() over several upstream clients, where a client that      *)
(* fails is left out for a time that doubles from failure to failure.      *)
(*                                                                         *)
(* Each client's lastError and errorExpiry are read together under the     *)
(* read lock, one client after the other, and written together under the   *)
(* write lock; other calls run in between, and time passes, except between *)
(* the reading of a client's state and the time.Since that follows it.     *)
(* Time is kept as the ticks since each client's last error: the code      *)
(* compares only those.                                                    *)
(***************************************************************************)
EXTENDS Integers, FiniteSets

CONSTANTS
  NumClients,          \* len(c.clients); clients are tried in this order
  Callers,             \* goroutines that call Conn()
  Healthy,             \* clients whose Conn() never fails, or else all may fail
  FirstExpiry,         \* ticks in 100 * time.Millisecond
  FailedClientExpiry,  \* ticks in 30 * time.Second
  MaxDuration,         \* the largest time.Duration, in ticks
  MaxSelect,           \* the longest selectAvailable takes, in ticks
  MaxDial,             \* the longest a client's Conn() takes
  Never                \* lastError is the zero time

Clients == 1..NumClients

ASSUME AvailabilityAssumption ==
  /\ NumClients \in Nat \ {0}
  /\ IsFiniteSet(Callers)
  /\ Healthy \subseteq Clients
  /\ FirstExpiry \in Nat \ {0}
  /\ FailedClientExpiry \in Nat /\ FirstExpiry <= FailedClientExpiry
  /\ MaxDuration \in Nat /\ FailedClientExpiry <= MaxDuration
  /\ {MaxSelect, MaxDial} \subseteq Nat
  /\ Never \notin Int

VARIABLES
  healthy,   \* the clients that do not fail
  since,     \* ticks since each client's last error, or Never
  expiry,    \* errorExpiry
  pc,        \* where each caller is in Conn()
  scanned,   \* how many clients its selectAvailable has looked at
  eligible,  \* eligibleClients
  choice,    \* the client it asks for a connection, or 0
  age,       \* how long it has been selecting, or asking
  outcome,   \* what its last Conn() answered
  \* History, read by properties only.
  overtaken  \* the clients that have failed since it found them eligible

vars == <<healthy, since, expiry, pc, scanned, eligible, choice, age, outcome, overtaken>>

\* The largest expiry there can be (BackoffBound), overflow aside, which leads to
\* smaller ones: counting time past it makes no difference.
Longest == FailedClientExpiry * 2 ^ Cardinality(Callers)

-----------------------------------------------------------------------------

Available(c) == since[c] = Never \/ since[c] > expiry[c]

Begin(p) ==
  /\ pc[p] = "idle"
  /\ pc' = [pc EXCEPT ![p] = "select"]
  /\ outcome' = [outcome EXCEPT ![p] = "none"]
  /\ UNCHANGED <<since, expiry, scanned, eligible, choice, age, overtaken>>

\* Mutant of Scan: the loop runs once too often.
ScanPastEnd(p) ==
  /\ pc[p] = "select" /\ scanned[p] <= NumClients
  /\ scanned' = [scanned EXCEPT ![p] = @ + 1]
  /\ UNCHANGED <<since, expiry, pc, eligible, choice, age, outcome, overtaken>>

\* Mutant of Scan: the expiry is not looked at.
ScanAll(p) ==
  /\ pc[p] = "select" /\ scanned[p] < NumClients
  /\ scanned' = [scanned EXCEPT ![p] = @ + 1]
  /\ eligible' = [eligible EXCEPT ![p] = @ \cup {scanned[p] + 1}]
  /\ UNCHANGED <<since, expiry, pc, choice, age, outcome, overtaken>>

\* selectAvailable looks at its next client.
Scan(p) ==
  /\ pc[p] = "select" /\ scanned[p] < NumClients
  /\ scanned' = [scanned EXCEPT ![p] = @ + 1]
  /\ eligible' = [eligible EXCEPT ![p] =
                    @ \cup {c \in {scanned[p] + 1} : Available(c)}]
  /\ UNCHANGED <<since, expiry, pc, choice, age, outcome, overtaken>>

\* selectAvailable returns, and what it gathered is gone.
Selected(p) ==
  /\ pc[p] = "select" /\ scanned[p] = NumClients
  /\ scanned' = [scanned EXCEPT ![p] = 0]
  /\ eligible' = [eligible EXCEPT ![p] = {}]

\* It picks an eligible client, which is asked for a connection.
Pick(p) ==
  /\ Selected(p)
  /\ \E c \in eligible[p] : choice' = [choice EXCEPT ![p] = c]
  /\ pc' = [pc EXCEPT ![p] = "dial"]
  /\ age' = [age EXCEPT ![p] = 0]
  /\ UNCHANGED <<since, expiry, outcome, overtaken>>

\* The attempt to get a connection is over, and with it what is known of it.
EndAttempt(p) ==
  /\ choice' = [choice EXCEPT ![p] = 0]
  /\ age' = [age EXCEPT ![p] = 0]

\* No client is eligible: Conn() answers an error.
NoneLive(p) ==
  /\ Selected(p)
  /\ eligible[p] = {}
  /\ pc' = [pc EXCEPT ![p] = "idle"]
  /\ outcome' = [outcome EXCEPT ![p] = "error"]
  /\ EndAttempt(p)
  /\ overtaken' = [overtaken EXCEPT ![p] = {}]
  /\ UNCHANGED <<since, expiry>>

\* The client provides a connection.
Provide(p) ==
  /\ pc[p] = "dial"
  /\ pc' = [pc EXCEPT ![p] = "idle"]
  /\ outcome' = [outcome EXCEPT ![p] = "conn"]
  /\ EndAttempt(p)
  /\ overtaken' = [overtaken EXCEPT ![p] = {}]
  /\ UNCHANGED <<since, expiry, scanned, eligible>>

\* A time.Duration is a signed integer that wraps around.
Duration(d) == ((d + MaxDuration + 1) % (2 * (MaxDuration + 1))) - (MaxDuration + 1)

\* Mutant of Backoff: the timer is never reset.
BackoffUnreset(c) == IF since[c] = Never THEN FirstExpiry ELSE Duration(2 * expiry[c])

\* Mutant of Backoff: the timer never grows.
BackoffFlat(c) == FirstExpiry

\* Where the backoff timer goes when client c fails.
Backoff(c) ==
  IF since[c] = Never \/ since[c] > FailedClientExpiry THEN FirstExpiry
  ELSE Duration(2 * expiry[c])

\* The calls that have found client c eligible: they ask it, or may yet.
Reach(c) == {p \in Callers : (pc[p] = "dial" /\ choice[p] = c) \/ c \in eligible[p]}

\* Client c fails for the call p: its timer is set, and the others within reach
\* have been overtaken.
MarkFailed(p, c) ==
  /\ expiry' = [expiry EXCEPT ![c] = Backoff(c)]
  /\ since' = [since EXCEPT ![c] = 0]
  /\ overtaken' = [q \in Callers |->
                     IF q = p THEN {}
                     ELSE IF q \in Reach(c) THEN overtaken[q] \cup {c} ELSE overtaken[q]]

\* Mutant of Fail: the error is returned instead of failing over.
FailReturned(p) ==
  /\ pc[p] = "dial" /\ choice[p] \notin healthy
  /\ MarkFailed(p, choice[p])
  /\ pc' = [pc EXCEPT ![p] = "idle"]
  /\ outcome' = [outcome EXCEPT ![p] = "error"]
  /\ EndAttempt(p)
  /\ UNCHANGED <<scanned, eligible>>

\* The client fails, and Conn() calls itself.
Fail(p) ==
  /\ pc[p] = "dial" /\ choice[p] \notin healthy
  /\ MarkFailed(p, choice[p])
  /\ pc' = [pc EXCEPT ![p] = "select"]
  /\ EndAttempt(p)
  /\ UNCHANGED <<scanned, eligible, outcome>>

\* How long a call may be where it is.
Limit(p) == IF pc[p] = "select" THEN MaxSelect ELSE MaxDial

\* Time passes, wherever the calls are.
Tick ==
  /\ \A p \in Callers : pc[p] # "idle" => age[p] < Limit(p)
  /\ age' = [p \in Callers |-> IF pc[p] # "idle" THEN age[p] + 1 ELSE age[p]]
  /\ since' = [c \in Clients |-> IF since[c] = Never \/ since[c] > Longest
                                 THEN since[c] ELSE since[c] + 1]
  /\ UNCHANGED <<expiry, pc, scanned, eligible, choice, outcome, overtaken>>

-----------------------------------------------------------------------------

Init ==
  /\ healthy \in {Healthy, {}}
  /\ since = [c \in Clients |-> Never]
  /\ expiry = [c \in Clients |-> 0]
  /\ pc = [p \in Callers |-> "idle"]
  /\ scanned = [p \in Callers |-> 0]
  /\ eligible = [p \in Callers |-> {}]
  /\ choice = [p \in Callers |-> 0]
  /\ age = [p \in Callers |-> 0]
  /\ outcome = [p \in Callers |-> "none"]
  /\ overtaken = [p \in Callers |-> {}]

Step(p) == Scan(p) \/ Pick(p) \/ NoneLive(p) \/ Provide(p) \/ Fail(p)

Next == UNCHANGED healthy /\ (Tick \/ \E p \in Callers : Begin(p) \/ Step(p))

Spec == Init /\ [][Next]_vars

\* A goroutine that can run is run, and a client's Conn() answers in the end.
FairSpec == Spec /\ \A p \in Callers : WF_vars(Step(p) /\ UNCHANGED healthy)

-----------------------------------------------------------------------------
(* Properties.                                                             *)

\* The values the variables range over.
TypeOK ==
  /\ healthy \subseteq Clients
  /\ since \in [Clients -> Nat \cup {Never}]
  /\ expiry \in [Clients -> -(MaxDuration + 1)..MaxDuration]
  /\ pc \in [Callers -> {"idle", "select", "dial"}]
  /\ scanned \in [Callers -> 0..NumClients]
  /\ eligible \in [Callers -> SUBSET Clients]
  /\ choice \in [Callers -> Clients \cup {0}]
  /\ age \in [Callers -> Nat]
  /\ outcome \in [Callers -> {"none", "conn", "error"}]
  /\ overtaken \in [Callers -> SUBSET Clients]

\* However many calls fail at once, a client that has failed is left out for at
\* least FirstExpiry and at most FailedClientExpiry doubled once per concurrent
\* caller. No call finds the client again before it expires, and after
\* FailedClientExpiry the timer starts over, so only calls under way double it
\* further; it must not wrap around.
BackoffBound ==
  \A c \in Clients :
    since[c] # Never => FirstExpiry <= expiry[c] /\ expiry[c] <= Longest

\* As long as one client is healthy no call of Conn() fails: the others' errors
\* lead it there, and never make the healthy one unavailable.
FailsOver == healthy # {} => \A p \in Callers : outcome[p] # "error"

\* A client that is left out provides connections only to calls that had found
\* it eligible before it failed: selectAvailable's answer is used after its
\* locks are released, at any later time, but no call that looks at the client
\* after the failure gets it.
LeftOutOnlyInFlight ==
  [][\A p \in Callers :
       Provide(p) => Available(choice[p]) \/ choice[p] \in overtaken[p]]_vars

\* A call of Conn() returns: it stops calling itself, because each failure leaves
\* the client out for longer.
Returns == \A p \in Callers : pc[p] # "idle" ~> pc[p] = "idle"
=============================================================================
