---------------------------- MODULE DaemonProofs ----------------------------
(***************************************************************************)
(* For any configuration file and any number of workers, connections and   *)
(* requests: what validate accepts never makes the process dereference nil *)
(* or index an empty list, and the metrics add up.                         *)
(***************************************************************************)
EXTENDS Daemon, FiniteSetTheorems, TLAPS

-----------------------------------------------------------------------------
(* Accepted configurations.                                                *)

\* validate accepts only what has a listener and an upstream with a server.
LEMMA Accepted ==
  ASSUME NEW f \in Files \ {Nil, Unreadable}, validate(f) = ""
  PROVE  /\ f.listener # Nil /\ f.upstream # Nil
         /\ Len(f.upstream.servers) \in Nat \ {0}
<1>1. ListenerError(f) = "" /\ UpstreamError(f) = ""
  BY Zenon DEF validate
<1>2. f.listener # Nil
  BY <1>1, Zenon DEF ListenerError
<1>3. f.upstream # Nil
  BY <1>1, Zenon DEF UpstreamError
<1>4. Len(f.upstream.servers) # 0
  BY <1>1, <1>3, Zenon DEF UpstreamError
<1>5. Len(f.upstream.servers) \in Nat
  BY <1>3, DaemonAssumption, Zenon
<1> QED
  BY <1>2, <1>3, <1>4, <1>5, Zenon

\* What main has made sure of by each of its stages; before the listeners are
\* configured no goroutine serves requests.
Wired ==
  /\ cfg \in Files
  /\ main \in {"hooks", "upstream", "udp", "tcp", "serving"} =>
       cfg \notin {Nil, Unreadable} /\ validate(cfg) = ""
  /\ main \in {"parse", "hooks", "upstream", "udp"} =>
       /\ \A t \in {"tcp", "udp"} : listening[t] = "off"
       /\ \A g \in Workers \cup Links : doing[g] = "none"
  /\ main \in {"udp", "tcp", "serving"} => upstream.clients \in Nat \ {0}
  /\ NoFault

\* No step disturbs it.
LEMMA WiredStep == Wired /\ [Next]_vars => Wired'
<1> SUFFICES ASSUME Wired, [Next]_vars PROVE Wired'
  OBVIOUS
<1>1. ASSUME ParseConfig PROVE Wired'
  BY <1>1, Zenon DEF ParseConfig, At, Wired, NoFault
<1>2. ASSUME ConfigureMetrics PROVE Wired'
  BY <1>2, Zenon DEF ConfigureMetrics, Wired, NoFault
<1>3. ASSUME ConfigureUpstreams PROVE Wired'
  <2>1. cfg.upstream # Nil /\ Len(cfg.upstream.servers) \in Nat \ {0}
    BY <1>3, Accepted, Zenon DEF ConfigureUpstreams, At, Wired
  <2> QED
    BY <1>3, <2>1, Zenon DEF ConfigureUpstreams, At, Wired, NoFault
<1>4. ASSUME ConfigureUDP PROVE Wired'
  <2>1. cfg.listener # Nil
    BY <1>4, Accepted, Zenon DEF ConfigureUDP, At, Wired
  <2> QED
    BY <1>4, <2>1, Zenon DEF ConfigureUDP, At, Wired, NoFault
<1>5. ASSUME ConfigureTCP PROVE Wired'
  BY <1>5, Zenon DEF ConfigureTCP, At, Wired, NoFault
<1>6. ASSUME NEW t \in {"tcp", "udp"}, Listen(t) PROVE Wired'
  <2>1. main \notin {"parse", "hooks", "upstream", "udp"}
    BY <1>6, Zenon DEF Listen, Wired
  <2>2. UNCHANGED <<cfg, upstream>> /\ (main' = main \/ main' = "dead")
    BY <1>6 DEF Listen
  <2> QED
    BY <2>1, <2>2, Zenon DEF Wired, NoFault
<1>7. ASSUME NEW g \in Workers \cup Links, Processed(g) PROVE Wired'
  <2>1. main \in {"tcp", "serving"}
    BY <1>7, Zenon DEF Processed, Alive, Wired
  <2>2. ~NoClientToTake
    BY <2>1, Zenon DEF Wired, NoClientToTake
  <2> QED
    BY <1>7, <2>1, <2>2, Zenon DEF Processed, Wired, NoFault
<1>8. ASSUME NEW g \in Workers \cup Links, Receive(g) \/ ConsumeError(g) \/ Close(g) PROVE Wired'
  <2>1. main \in {"tcp", "serving"}
    BY <1>8, Zenon DEF Receive, ConsumeError, Close, Alive, Wired
  <2>2. UNCHANGED life
    BY <1>8 DEF Receive, ConsumeError, Close
  <2> QED
    BY <2>1, <2>2, Zenon DEF life, Wired, NoFault
<1>9. ASSUME NEW k \in Links, Accept(k) PROVE Wired'
  <2>1. main \in {"tcp", "serving"}
    BY <1>9, Zenon DEF Accept, Alive, Wired
  <2> QED
    BY <1>9, <2>1, Zenon DEF Accept, life, Wired, NoFault
<1>10. ASSUME AcceptFail \/ AddSequence \/ \E e \in Events : Count(e) PROVE Wired'
  <2>1. UNCHANGED <<life, listening, doing>>
    BY <1>10 DEF AcceptFail, AddSequence, Count
  <2> QED
    BY <2>1, Zenon DEF life, Wired, NoFault
<1>11. CASE UNCHANGED vars
  BY <1>11, Zenon DEF vars, Wired, NoFault
<1> QED
  BY <1>1, <1>2, <1>3, <1>4, <1>5, <1>6, <1>7, <1>8, <1>9, <1>10, <1>11, Zenon
  DEF Next, Progress, Main

\* Whatever the configuration file holds, main either refuses it or wires the
\* parts and serves requests without a nil pointer or an empty list of clients
\* on the way, unless the file is empty.
THEOREM NeverFaults == Spec => []NoFault
<1>1. Init => Wired
  BY DEF Init, Wired, NoFault
<1>2. Wired => NoFault
  BY Zenon DEF Wired
<1> QED
  BY <1>1, <1>2, WiredStep, PTL DEF Spec

-----------------------------------------------------------------------------
(* Types of what is counted.                                               *)

Goroutines == Workers \cup Links

\* The types, and what has not happened yet: no event before the hooks are
\* configured, no UDP worker before its server listens.
Books ==
  /\ level \in 1..4 /\ statsd \in BOOLEAN /\ width \in Workers
  /\ listening \in [{"tcp", "udp"} -> {"off", "binding", "up"}]
  /\ doing \in [Goroutines -> {"none", "waiting", "handling", "ending"}]
  /\ emitting \in [Events -> Nat] /\ counted \in [Events -> Nat]
  /\ adding \in Nat /\ sequenceID \in Nat /\ printed \in Nat /\ begun \in Nat
  /\ main \in {"parse", "hooks"} =>
       begun = 0 /\ printed = 0 /\ \A e \in Events : emitting[e] = 0 /\ counted[e] = 0
  /\ listening["udp"] # "up" => \A w \in Workers : doing[w] = "none"

\* A line about an error is always printed.
LEMMA LogError == ASSUME Books, Log(Len(Levels)) PROVE printed' = printed + 1
<1>1. Len(Levels) = 4
  BY DEF Levels
<1> QED
  BY <1>1 DEF Log, Enables, Books

\* What Emit does to the goroutines that report.
LEMMA EmitEffect ==
  ASSUME Books, NEW events, Emit(events)
  PROVE  /\ emitting' \in [Events -> Nat]
         /\ statsd => \A e \in Events :
              emitting'[e] = emitting[e] + IF e \in events THEN 1 ELSE 0
  BY DEF Books, Emit

\* Verbosity parses to one of the levels.
LEMMA LevelType == \A v : ParseLevel(v) \in 1..4
<1> SUFFICES ASSUME NEW v PROVE ParseLevel(v) \in 1..4
  OBVIOUS
<1> DEFINE named == {i \in 1..Len(Levels) : ToLower(v) = ToLower(Text(Levels[i], TRUE))}
<1>1. Len(Levels) = 4
  BY DEF Levels
<1>2. named # {} => (CHOOSE i \in named : TRUE) \in named
  BY Zenon
<1>3. named \subseteq 1..4
  BY <1>1, Zenon
<1>4. ParseLevel(v) = IF named = {} THEN Len(Levels) ELSE CHOOSE i \in named : TRUE
  BY DEF ParseLevel
<1> HIDE DEF named
<1> QED
  BY <1>1, <1>2, <1>3, <1>4

\* Every step keeps Books.
LEMMA BooksStep == Wired /\ Books /\ [Next]_vars => Books'
<1> SUFFICES ASSUME Wired, Books, [Next]_vars PROVE Books'
  OBVIOUS
<1>1. ASSUME ParseConfig PROVE Books'
  BY <1>1, Zenon DEF ParseConfig, At, Books
<1>2. ASSUME ConfigureMetrics PROVE Books'
  <2>1. statsd' \in BOOLEAN
    BY <1>2, Zenon DEF ConfigureMetrics
  <2>2. main = "hooks" /\ UNCHANGED <<level, listening, width, doing, emitting, counted, adding,
                                      sequenceID, printed, begun>>
    BY <1>2 DEF ConfigureMetrics
  <2> QED
    BY <2>1, <2>2 DEF Books
<1>3. ASSUME ConfigureUpstreams PROVE Books'
  BY <1>3 DEF ConfigureUpstreams, At, Books
<1>4. ASSUME ConfigureUDP PROVE Books'
  <2>1. cfg \in Files \ {Nil, Unreadable} /\ main' \notin {"parse", "hooks"}
    BY <1>4, Zenon DEF ConfigureUDP, At, Wired
  <2>2. width' \in Workers
    <3>1. CASE cfg.listener # Nil /\ cfg.listener.udp # Nil
      <4>1. cfg.listener.udp.max \in Int /\ cfg.listener.udp.max <= DefaultWorkers
        BY <2>1, <3>1, DaemonAssumption
      <4>2. width' = NewUDPServer(cfg.listener.udp.max)
        BY <1>4, <3>1 DEF ConfigureUDP
      <4> QED
        BY <4>1, <4>2, DaemonAssumption DEF NewUDPServer, Workers
    <3>2. CASE ~(cfg.listener # Nil /\ cfg.listener.udp # Nil)
      BY <1>4, <3>2 DEF ConfigureUDP, Books
    <3> QED
      BY <3>1, <3>2
  <2>3. \/ listening' = listening
        \/ listening' = [listening EXCEPT !["udp"] = "binding"]
    BY <1>4 DEF ConfigureUDP
  <2>4. listening["udp"] # "up"
    BY <1>4, Zenon DEF ConfigureUDP, At, Wired
  <2> QED
    BY <1>4, <2>1, <2>2, <2>3, <2>4 DEF ConfigureUDP, Books
<1>5. ASSUME ConfigureTCP PROVE Books'
  BY <1>5 DEF ConfigureTCP, At, Books
<1>6. ASSUME NEW t \in {"tcp", "udp"}, Listen(t) PROVE Books'
  <2>1. main \notin {"parse", "hooks"} /\ main' \notin {"parse", "hooks"}
    BY <1>6, Zenon DEF Listen, Wired
  <2>2. listening' \in [{"tcp", "udp"} -> {"off", "binding", "up"}]
    BY <1>6 DEF Listen, Books
  <2>3. doing' \in [Goroutines -> {"none", "waiting", "handling", "ending"}]
    BY <1>6 DEF Listen, Books, Goroutines
  <2>4. listening'["udp"] # "up" => \A w \in Workers : doing'[w] = "none"
    BY <1>6 DEF Listen, Books
  <2> QED
    BY <1>6, <2>1, <2>2, <2>3, <2>4 DEF Listen, Books
<1>7. ASSUME NEW w \in Workers, Receive(w) PROVE Books'
  <2>1. main' \notin {"parse", "hooks"} /\ listening["udp"] = "up"
    BY <1>7, Zenon DEF Receive, Wired, Books, life
  <2> QED
    BY <1>7, <2>1 DEF Receive, life, Books, Goroutines
<1>8. ASSUME NEW k \in Links, Accept(k) \/ Close(k) PROVE Books'
  <2>1. main' \notin {"parse", "hooks"}
    BY <1>8, Zenon DEF Accept, Close, Wired, life
  <2>2. emitting' \in [Events -> Nat]
    BY <1>8, EmitEffect DEF Accept, Close
  <2>3. k \notin Workers
    BY DaemonAssumption DEF Workers
  <2> QED
    BY <1>8, <2>1, <2>2, <2>3 DEF Accept, Close, life, Books, Goroutines
<1>9. ASSUME AcceptFail PROVE Books'
  <2>1. main' \notin {"parse", "hooks"}
    BY <1>9, Zenon DEF AcceptFail, Wired, life
  <2>2. emitting' \in [Events -> Nat] /\ printed' = printed + 1
    BY <1>9, EmitEffect, LogError DEF AcceptFail
  <2> QED
    BY <1>9, <2>1, <2>2 DEF AcceptFail, life, Books
<1>10. ASSUME NEW g \in Goroutines, Processed(g) \/ ConsumeError(g) PROVE Books'
  <2>1. main \notin {"parse", "hooks"} /\ main' \notin {"parse", "hooks"}
    BY <1>10, Zenon DEF Processed, ConsumeError, Wired, life, Goroutines
  <2>2. emitting' \in [Events -> Nat] /\ printed' \in Nat
    BY <1>10, EmitEffect, LogError, SMTT(30) DEF Processed, ConsumeError, Books
  <2>3. doing' = [doing EXCEPT ![g] = After(g)] /\ After(g) \in {"waiting", "ending"}
    BY <1>10 DEF Processed, ConsumeError, After
  <2>4. listening["udp"] # "up" => g \notin Workers
    BY <1>10 DEF Processed, ConsumeError, Books
  <2>5. UNCHANGED <<level, statsd, listening, width, counted, adding, sequenceID, begun>>
    BY <1>10 DEF Processed, ConsumeError, life
  <2> QED
    BY <2>1, <2>2, <2>3, <2>4, <2>5 DEF Books
<1>11. ASSUME NEW e \in Events, Count(e) PROVE Books'
  BY <1>11 DEF Count, life, Books
<1>12. ASSUME AddSequence PROVE Books'
  BY <1>12 DEF AddSequence, life, Books
<1>13. CASE UNCHANGED vars
  BY <1>13 DEF vars, Books
<1> QED
  BY <1>1, <1>2, <1>3, <1>4, <1>5, <1>6, <1>7, <1>8, <1>9, <1>10, <1>11, <1>12, <1>13, Zenon
  DEF Next, Progress, Main, Goroutines

\* Wired and Books hold throughout.
LEMMA Kept == Spec => [](Wired /\ Books)
<1>1. Init => Wired
  BY DEF Init, Wired, NoFault
<1>2. Init => Books
  <2> SUFFICES ASSUME Init PROVE Books
    OBVIOUS
  <2>1. level \in 1..4
    BY LevelType DEF Init
  <2>2. width \in Workers
    BY DaemonAssumption DEF Init, Workers
  <2> QED
    BY <2>1, <2>2, Zenon DEF Init, Books, Goroutines
<1> QED
  BY <1>1, <1>2, WiredStep, BooksStep, PTL DEF Spec

\* What Books leaves out: the stages of main, the sharded client and the bound.
Assembled ==
  /\ main \in {"parse", "hooks", "upstream", "udp", "tcp", "serving", "refused", "fault", "dead"}
  /\ upstream \in [clients : Nat, policy : Policies]
  /\ begun \in 0..MaxBegun

\* A text names one of the policies, or stands for the default.
LEMMA PolicyType == \A t : ParseLoadBalancingPolicy(t).policy \in Policies
<1> SUFFICES ASSUME NEW t PROVE ParseLoadBalancingPolicy(t).policy \in Policies
  OBVIOUS
<1> DEFINE named == {k \in Policies : ToLower(t) = ToLower(Text(k, TRUE))}
<1>1. named # {} => (CHOOSE k \in named : TRUE) \in named
  BY Zenon
<1>2. named \subseteq Policies
  BY Zenon
<1>3. ParseLoadBalancingPolicy(t) =
        IF named = {} THEN [policy |-> "RoundRobin", ok |-> FALSE]
                      ELSE [policy |-> CHOOSE k \in named : TRUE, ok |-> TRUE]
  BY DEF ParseLoadBalancingPolicy
<1> HIDE DEF named
<1>4. "RoundRobin" \in Policies
  BY DEF Policies
<1> QED
  BY <1>1, <1>2, <1>3, <1>4

\* Every step keeps it.
LEMMA AssembledStep == Wired /\ Assembled /\ [Next]_vars => Assembled'
<1> SUFFICES ASSUME Wired, Assembled, [Next]_vars PROVE Assembled'
  OBVIOUS
<1>1. ASSUME ParseConfig \/ ConfigureMetrics \/ ConfigureUDP \/ ConfigureTCP PROVE Assembled'
  BY <1>1, Zenon DEF ParseConfig, ConfigureMetrics, ConfigureUDP, ConfigureTCP, At, Assembled
<1>2. ASSUME ConfigureUpstreams PROVE Assembled'
  <2>1. cfg.upstream # Nil /\ Len(cfg.upstream.servers) \in Nat
    BY <1>2, Accepted, Zenon DEF ConfigureUpstreams, At, Wired
  <2>2. PICK n \in Nat : n = Len(cfg.upstream.servers)
    BY <2>1
  <2>3. PICK p \in Policies : p = ParseLoadBalancingPolicy(cfg.upstream.policy).policy
    BY PolicyType
  <2>4. upstream' = [clients |-> n, policy |-> p] /\ main' = "udp" /\ begun' = begun
    BY <1>2, <2>1, <2>2, <2>3, Zenon DEF ConfigureUpstreams, At
  <2> QED
    BY <2>4 DEF Assembled
<1>3. ASSUME NEW t, Listen(t) PROVE Assembled'
  BY <1>3, Zenon DEF Listen, Assembled
<1>4. ASSUME NEW g, Processed(g) PROVE Assembled'
  BY <1>4, Zenon DEF Processed, Assembled
<1>5. ASSUME NEW g, ConsumeError(g) \/ Close(g) \/ Count(g) \/ AddSequence PROVE Assembled'
  BY <1>5, Zenon DEF ConsumeError, Close, Count, AddSequence, life, Assembled
<1>6. ASSUME NEW g, Receive(g) \/ Accept(g) \/ AcceptFail PROVE Assembled'
  <2>1. begun < MaxBegun /\ begun' = begun + 1 /\ UNCHANGED life
    BY <1>6 DEF Receive, Accept, AcceptFail
  <2>2. begun' \in 0..MaxBegun
    BY <2>1, DaemonAssumption DEF Assembled
  <2> QED
    BY <2>1, <2>2, Zenon DEF life, Assembled
<1>7. CASE UNCHANGED vars
  BY <1>7, Zenon DEF vars, Assembled
<1> QED
  BY <1>1, <1>2, <1>3, <1>4, <1>5, <1>6, <1>7, Zenon DEF Next, Progress, Main

\* Every variable keeps its type for any configuration file: in particular the
\* logger has one of its levels and the sharded client one of its policies
\* whatever the texts parsed for them, and a UDP server has a worker whatever
\* number is configured.
THEOREM TypesKept == Spec => []TypeOK
<1>1. Init => Assembled
  <2> SUFFICES ASSUME Init PROVE Assembled
    OBVIOUS
  <2>1. upstream \in [clients : Nat, policy : Policies]
    BY DEF Init, Policies
  <2> QED
    BY <2>1, DaemonAssumption DEF Init, Assembled
<1>2. Wired /\ Books /\ Assembled => TypeOK
  <2> SUFFICES ASSUME Wired, Books, Assembled PROVE TypeOK
    OBVIOUS
  <2>1. Len(Levels) = 4
    BY DEF Levels
  <2>2. {adding, sequenceID, printed} \subseteq Nat
    BY DEF Books
  <2> QED
    BY <2>1, <2>2, Zenon DEF Wired, Books, Assembled, TypeOK, Goroutines
<1> QED
  BY <1>1, <1>2, Kept, AssembledStep, PTL DEF Spec

-----------------------------------------------------------------------------
(* The metrics add up.                                                     *)

\* The TCP connections that are open.
Open == Links \ In("none")

\* The sets that are counted are finite.
LEMMA Finite ==
  /\ IsFiniteSet(In("handling")) /\ Cardinality(In("handling")) \in Nat
  /\ IsFiniteSet(Open) /\ Cardinality(Open) \in Nat
<1>1. IsFiniteSet(Goroutines) /\ IsFiniteSet(Links)
  <2>1. 1 \in Int /\ DefaultWorkers \in Int /\ IsFiniteSet(Links)
    BY DaemonAssumption
  <2>2. IsFiniteSet(Workers)
    BY <2>1, FS_Interval DEF Workers
  <2> QED
    BY <2>1, <2>2, FS_Union, Zenon DEF Goroutines
<1>2. In("handling") \in SUBSET Goroutines /\ Open \in SUBSET Links
  BY DEF In, Goroutines, Open
<1>3. IsFiniteSet(In("handling")) /\ IsFiniteSet(Open)
  BY <1>1, <1>2, FS_Subset
<1> QED
  BY <1>3, FS_CardinalityType

\* How the two change when goroutine g begins to handle a request, has handled
\* it, or has closed its connection.
LEMMA GoroutineMoves ==
  ASSUME Books, NEW g \in Goroutines, NEW next \in {"none", "waiting", "handling", "ending"},
         doing' = [doing EXCEPT ![g] = next]
  PROVE  /\ In("handling")' = IF next = "handling" THEN In("handling") \cup {g}
                                                   ELSE In("handling") \ {g}
         /\ Open' = IF next = "none" \/ g \notin Links THEN Open \ {g} ELSE Open \cup {g}
<1>1. \A h \in Goroutines : doing'[h] = IF h = g THEN next ELSE doing[h]
  BY DEF Books
<1>2. Links \subseteq Goroutines
  BY DEF Goroutines
<1>3. In("handling")' = IF next = "handling" THEN In("handling") \cup {g} ELSE In("handling") \ {g}
  <2>1. CASE next = "handling"
    BY <1>1, <2>1 DEF In, Goroutines
  <2>2. CASE next # "handling"
    BY <1>1, <2>2 DEF In, Goroutines
  <2> QED
    BY <2>1, <2>2
<1>4. Open = {k \in Links : doing[k] # "none"} /\ Open' = {k \in Links : doing'[k] # "none"}
  BY DEF Open, In
<1>5. Open' = IF next = "none" \/ g \notin Links THEN Open \ {g} ELSE Open \cup {g}
  <2>1. CASE next = "none" \/ g \notin Links
    BY <1>1, <1>2, <1>4, <2>1
  <2>2. CASE ~(next = "none" \/ g \notin Links)
    BY <1>1, <1>2, <1>4, <2>2
  <2> QED
    BY <2>1, <2>2
<1> QED
  BY <1>3, <1>5

\* What Ledger says of a process that reports.
AddsUp ==
  /\ Total("cx_open") = Total("cx_close") + Cardinality(Open)
  /\ Total("process") + Total("error") + Cardinality(In("handling")) = begun
  /\ printed = Total("error")

\* What is reported or about to be is a number of events.
LEMMA TotalType == ASSUME Books PROVE \A e \in Events : Total(e) \in Nat
  BY DEF Books, Total

\* Emitting adds one to the totals of its events.
LEMMA EmitTotals ==
  ASSUME Books, statsd, NEW events, Emit(events), counted' = counted
  PROVE  \A e \in Events : Total(e)' = Total(e) + IF e \in events THEN 1 ELSE 0
<1> SUFFICES ASSUME NEW e \in Events PROVE Total(e)' = Total(e) + IF e \in events THEN 1 ELSE 0
  OBVIOUS
<1>1. emitting'[e] = emitting[e] + IF e \in events THEN 1 ELSE 0
  BY EmitEffect
<1>2. emitting[e] \in Nat /\ counted[e] \in Nat
  BY DEF Books
<1> QED
  BY <1>1, <1>2 DEF Total

\* Each step of a process that reports keeps the sums: what it changes in one
\* place it makes up for in another.
LEMMA AddsUpStep ==
  ASSUME Wired, Books, statsd, AddsUp, Next
  PROVE  AddsUp' \/ ConfigureMetrics
<1> USE Finite
<1>0. /\ \A e \in Events : Total(e) \in Nat
      /\ {"cx_open", "cx_close", "cx_error", "process", "error"} = Events
      /\ begun \in Nat /\ printed \in Nat
  BY TotalType DEF Events, Books
<1>1. ASSUME ParseConfig \/ ConfigureUpstreams \/ ConfigureUDP \/ ConfigureTCP \/ AddSequence
      PROVE AddsUp'
  <2>1. UNCHANGED <<doing, emitting, counted, printed, begun>>
    BY <1>1, Zenon DEF ParseConfig, ConfigureUpstreams, ConfigureUDP, ConfigureTCP, AddSequence
  <2> QED
    BY <2>1 DEF AddsUp, Total, In, Open
<1>2. ASSUME NEW t \in {"tcp", "udp"}, Listen(t) PROVE AddsUp'
  <2>1. UNCHANGED <<emitting, counted, printed, begun>>
    BY <1>2 DEF Listen
  <2>2. \A g \in Goroutines : doing'[g] = doing[g] \/
          (g \in Workers /\ doing[g] = "none" /\ doing'[g] = "waiting")
    BY <1>2, DaemonAssumption, SMTT(30) DEF Listen, Books, Goroutines, Workers
  <2>3. In("handling")' = In("handling")
    BY <2>2 DEF In, Goroutines
  <2>4. Open' = Open
    <3>1. Links \cap Workers = {}
      BY DaemonAssumption DEF Workers
    <3>2. \A k \in Links : doing'[k] = doing[k]
      BY <2>2, <3>1 DEF Goroutines
    <3> QED
      BY <3>2 DEF Open, In
  <2> QED
    BY <2>1, <2>3, <2>4 DEF AddsUp, Total
<1>3. ASSUME NEW e \in Events, Count(e) PROVE AddsUp'
  <2>1. \A f \in Events : Total(f)' = Total(f)
    BY <1>3 DEF Count, Books, Total
  <2>2. UNCHANGED <<doing, printed, begun>>
    BY <1>3 DEF Count
  <2> QED
    BY <1>0, <2>1, <2>2 DEF AddsUp, In, Open
<1>4. ASSUME NEW w \in Workers, Receive(w) PROVE AddsUp'
  <2>1. w \in Goroutines /\ w \notin Links /\ w \notin In("handling") /\ w \notin Open
    <3>1. w \in Int /\ w \notin Links
      BY DaemonAssumption DEF Workers
    <3> QED
      BY <1>4, <3>1 DEF Receive, Goroutines, In, Open
  <2>2. In("handling")' = In("handling") \cup {w} /\ Open' = Open
    <3>1. doing' = [doing EXCEPT ![w] = "handling"]
      BY <1>4 DEF Receive
    <3>2. In("handling")' = In("handling") \cup {w} /\ Open' = Open \ {w}
      BY <2>1, <3>1, GoroutineMoves, Zenon
    <3> QED
      BY <2>1, <3>2
  <2>3. Cardinality(In("handling")') = Cardinality(In("handling")) + 1
    BY <2>1, <2>2, FS_AddElement
  <2>4. begun' = begun + 1 /\ UNCHANGED <<emitting, counted, printed>>
    BY <1>4 DEF Receive
  <2>5. \A e \in Events : Total(e)' = Total(e)
    BY <2>4 DEF Total
  <2> QED
    BY <1>0, <2>2, <2>3, <2>4, <2>5 DEF AddsUp
<1>5. ASSUME NEW k \in Links, Accept(k) PROVE AddsUp'
  <2>1. k \in Goroutines /\ k \notin In("handling") /\ k \notin Open
    BY <1>5 DEF Accept, Goroutines, In, Open
  <2>2. In("handling")' = In("handling") \cup {k} /\ Open' = Open \cup {k}
    BY <1>5, <2>1, GoroutineMoves, Zenon DEF Accept
  <2>3. /\ Cardinality(In("handling")') = Cardinality(In("handling")) + 1
        /\ Cardinality(Open') = Cardinality(Open) + 1
    BY <2>1, <2>2, FS_AddElement, Zenon
  <2>4. begun' = begun + 1 /\ printed' = printed /\ counted' = counted /\ Emit({"cx_open"})
    BY <1>5 DEF Accept
  <2>5. \A e \in Events : Total(e)' = Total(e) + IF e \in {"cx_open"} THEN 1 ELSE 0
    BY <2>4, EmitTotals
  <2> QED
    BY <1>0, <2>3, <2>4, <2>5 DEF AddsUp
<1>6. ASSUME AcceptFail PROVE AddsUp'
  <2>1. begun' = begun + 1 /\ UNCHANGED <<doing, counted>> /\ Emit({"cx_error", "error"})
    BY <1>6 DEF AcceptFail
  <2>2. printed' = printed + 1
    BY <1>6, LogError DEF AcceptFail
  <2>3. \A e \in Events : Total(e)' = Total(e) + IF e \in {"cx_error", "error"} THEN 1 ELSE 0
    BY <2>1, EmitTotals
  <2>4. In("handling")' = In("handling") /\ Open' = Open
    BY <2>1 DEF In, Open
  <2> QED
    BY <1>0, <2>1, <2>2, <2>3, <2>4 DEF AddsUp
<1>7. ASSUME NEW g \in Goroutines, doing[g] = "handling", doing' = [doing EXCEPT ![g] = After(g)]
      PROVE /\ Cardinality(In("handling")') = Cardinality(In("handling")) - 1
            /\ Open' = Open
  <2>1. g \in In("handling") /\ (g \in Links => g \in Open)
    BY <1>7 DEF In, Goroutines, Open
  <2>2. After(g) \in {"waiting", "ending"}
    BY DEF After
  <2>3. In("handling")' = In("handling") \ {g}
    BY <1>7, <2>2, GoroutineMoves, Zenon
  <2>4. Open' = Open
    <3>1. CASE g \in Links
      <4>1. Open' = Open \cup {g}
        BY <1>7, <2>2, <3>1, GoroutineMoves, Zenon
      <4> QED
        BY <2>1, <3>1, <4>1
    <3>2. CASE g \notin Links
      <4>1. Open' = Open \ {g}
        BY <1>7, <2>2, <3>2, GoroutineMoves, Zenon
      <4> QED
        BY <3>2, <4>1, Zenon DEF Open
    <3> QED
      BY <3>1, <3>2
  <2> QED
    BY <2>1, <2>3, <2>4, FS_RemoveElement
<1>8. ASSUME NEW g \in Goroutines, Processed(g) PROVE AddsUp'
  <2>1. /\ doing[g] = "handling" /\ doing' = [doing EXCEPT ![g] = After(g)]
        /\ UNCHANGED <<begun, printed, counted>> /\ Emit({"process"})
    BY <1>8 DEF Processed
  <2>2. \A e \in Events : Total(e)' = Total(e) + IF e \in {"process"} THEN 1 ELSE 0
    BY <2>1, EmitTotals
  <2>3. Cardinality(In("handling")') = Cardinality(In("handling")) - 1 /\ Open' = Open
    BY <1>7, <2>1, Zenon
  <2> QED
    BY <1>0, <2>1, <2>2, <2>3 DEF AddsUp
<1>9. ASSUME NEW g \in Goroutines, ConsumeError(g) PROVE AddsUp'
  <2>1. /\ doing[g] = "handling" /\ doing' = [doing EXCEPT ![g] = After(g)]
        /\ UNCHANGED <<begun, counted>> /\ Emit({"error"})
    BY <1>9 DEF ConsumeError
  <2>2. printed' = printed + 1
    BY <1>9, LogError DEF ConsumeError
  <2>3. \A e \in Events : Total(e)' = Total(e) + IF e \in {"error"} THEN 1 ELSE 0
    BY <2>1, EmitTotals
  <2>4. Cardinality(In("handling")') = Cardinality(In("handling")) - 1 /\ Open' = Open
    BY <1>7, <2>1, Zenon
  <2> QED
    BY <1>0, <2>1, <2>2, <2>3, <2>4 DEF AddsUp
<1>10. ASSUME NEW k \in Links, Close(k) PROVE AddsUp'
  <2>1. k \in Goroutines /\ k \notin In("handling") /\ k \in Open
    BY <1>10 DEF Close, Goroutines, In, Open
  <2>2. In("handling")' = In("handling") /\ Open' = Open \ {k}
    <3>1. doing' = [doing EXCEPT ![k] = "none"]
      BY <1>10 DEF Close
    <3>2. In("handling")' = In("handling") \ {k} /\ Open' = Open \ {k}
      BY <2>1, <3>1, GoroutineMoves, Zenon
    <3> QED
      BY <2>1, <3>2
  <2>3. Cardinality(Open') = Cardinality(Open) - 1
    BY <2>1, <2>2, FS_RemoveElement, Zenon
  <2>4. UNCHANGED <<begun, printed, counted>> /\ Emit({"cx_close"})
    BY <1>10 DEF Close
  <2>5. \A e \in Events : Total(e)' = Total(e) + IF e \in {"cx_close"} THEN 1 ELSE 0
    BY <2>4, EmitTotals
  <2> QED
    BY <1>0, <2>2, <2>3, <2>4, <2>5 DEF AddsUp
<1> QED
  BY <1>1, <1>2, <1>3, <1>4, <1>5, <1>6, <1>8, <1>9, <1>10, Zenon
  DEF Next, Progress, Main, Goroutines

\* At every moment and for any number of workers, connections and requests, what
\* the hooks have reported or are about to report accounts for every connection
\* accepted and every request begun, and every error is logged, whatever the
\* verbosity.
THEOREM MetricsAddUp == Spec => []Ledger
<1>1. Ledger = (statsd /\ main # "fault" => AddsUp)
  BY DEF Ledger, AddsUp, Open
<1>2. Init => Ledger
  BY Zenon DEF Init, Ledger
<1>3. Wired /\ Books /\ Ledger /\ [Next]_vars => Ledger'
  <2> SUFFICES ASSUME Wired, Books, Ledger, [Next]_vars, statsd', main' # "fault" PROVE AddsUp'
    BY DEF Ledger, AddsUp, Open
  <2>1. ASSUME ConfigureMetrics PROVE AddsUp'
    <3>1. /\ begun = 0 /\ printed = 0 /\ (\A e \in Events : emitting[e] = 0 /\ counted[e] = 0)
          /\ (\A g \in Goroutines : doing[g] = "none")
      BY <2>1, Zenon DEF ConfigureMetrics, Books, Wired, Goroutines
    <3>2. UNCHANGED <<begun, printed, emitting, counted, doing>>
      BY <2>1 DEF ConfigureMetrics
    <3>3. In("handling")' = {} /\ Open' = {}
      BY <3>1, <3>2 DEF In, Open, Goroutines
    <3>4. Cardinality({}) = 0
      BY FS_EmptySet
    <3>5. \A e \in Events : Total(e)' = 0
      BY <3>1, <3>2 DEF Total
    <3> QED
      BY <3>1, <3>2, <3>3, <3>4, <3>5 DEF AddsUp, Events
  <2>2. ASSUME Next, ~ConfigureMetrics PROVE AddsUp'
    <3>1. main # "fault"
      BY <2>2, Zenon DEF Next, Progress, Main, At, ParseConfig, ConfigureUpstreams, ConfigureUDP,
         ConfigureTCP, Alive, Listen, Receive, Accept, AcceptFail, Processed, ConsumeError,
         Close, Count, AddSequence
    <3>2. statsd' = statsd
      BY <2>2, Zenon DEF Next, Progress, Main, ParseConfig, ConfigureUpstreams, ConfigureUDP,
         ConfigureTCP, Listen, Receive, Accept, AcceptFail, Processed, ConsumeError, Close,
         Count, AddSequence, life
    <3>3. statsd /\ AddsUp
      BY <1>1, <3>1, <3>2, Zenon
    <3> QED
      BY <2>2, <3>3, AddsUpStep
  <2>3. ASSUME UNCHANGED vars PROVE AddsUp'
    <3>1. UNCHANGED <<main, statsd, doing, emitting, counted, printed, begun>>
      BY <2>3, Zenon DEF vars
    <3>2. AddsUp
      BY <1>1, <3>1, Zenon
    <3> QED
      BY <3>1, <3>2 DEF AddsUp, Total, In, Open
  <2> QED
    BY <2>1, <2>2, <2>3
<1> QED
  BY <1>2, <1>3, Kept, PTL DEF Spec
=============================================================================
