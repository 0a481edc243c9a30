------------------------------- MODULE Daemon -------------------------------
(***************************************************************************)
(* The process: main() reads its configuration (Config), wires the parts   *)
(* together and starts the listeners of server.go, whose goroutines serve  *)
(* requests, log errors and report to statsd through hook.go, each report  *)
(* from a goroutine of its own.                                            *)
(*                                                                         *)
(* A request is a call of Handle that returns an error or not; how it does *)
(* that is DNSProxy's.  Of the metrics, those counted once per connection  *)
(* or request are kept.                                                    *)
(***************************************************************************)
EXTENDS Config, FiniteSets

CONSTANTS
  Files,           \* what the configuration file may hold; Nil when it is empty
  Unreadable,      \* it cannot be read or is not YAML
  Verbosities,     \* values of -verbosity
  DefaultWorkers,  \* UDP workers when none are configured (16 in the code), and
                   \* the most that Files configures
  Links,           \* accepted TCP connections
  MaxBegun         \* bound on requests and failed accepts

ASSUME DaemonAssumption ==
  /\ {Nil, Unreadable} \subseteq Files /\ Nil # Unreadable
  /\ \A f \in Files \ {Nil, Unreadable} :
       /\ f.upstream # Nil => Len(f.upstream.servers) \in Nat
       /\ f.listener # Nil /\ f.listener.udp # Nil =>
            f.listener.udp.max \in Int /\ f.listener.udp.max <= DefaultWorkers
  /\ DefaultWorkers \in Nat \ {0}
  /\ MaxBegun \in Nat
  /\ IsFiniteSet(Links) /\ Links \cap Int = {}

Workers == 1..DefaultWorkers

Events == {"cx_open", "cx_close", "cx_error", "process", "error"}

VARIABLES
  main,        \* where main is, or how the process ended
  cfg,         \* the configuration file
  level,       \* the logger's level
  statsd,      \* the hooks report to statsd, or do nothing
  upstream,    \* the sharded client: how many clients it has, and its policy
  listening,   \* each listener: "off", "binding" or "up"
  width,       \* UDPServerOpts.MaxConcurrentConnections
  doing,       \* UDP workers and the goroutines of TCP connections
  emitting,    \* goroutines with an event still to report
  counted,     \* events reported
  adding,      \* EmitProcess goroutines that have reported and not yet added
  sequenceID,
  printed,     \* error lines on the console
  begun        \* requests and failed accepts so far

life == <<main, cfg, level, statsd, upstream>>
vars == <<main, cfg, level, statsd, upstream, listening, width, doing, emitting, counted,
          adding, sequenceID, printed, begun>>

-----------------------------------------------------------------------------
(* main.                                                                   *)

At(here, next) == main = here /\ main' = next

\* ParseConfig, and the panic on its error. An empty file leaves the pointer nil,
\* and validate dereferences it.
ParseConfig ==
  /\ At("parse", IF cfg = Nil THEN "fault"
                 ELSE IF cfg = Unreadable THEN "refused"
                 ELSE IF validate(cfg) # "" THEN "refused" ELSE "hooks")
  /\ UNCHANGED <<cfg, level, statsd, upstream, listening, width, doing, emitting, counted,
                 adding, sequenceID, printed, begun>>

\* The hooks: five statsd clients, or none; any that fails ends the process.
ConfigureMetrics ==
  LET configured == cfg.metrics # Nil /\ cfg.metrics.statsd # Nil IN
    /\ main = "hooks"
    /\ main' \in IF configured THEN {"upstream", "refused"} ELSE {"upstream"}
    /\ statsd' = configured
    /\ UNCHANGED <<cfg, level, upstream, listening, width, doing, emitting, counted, adding,
                   sequenceID, printed, begun>>

\* One TLS client per server, and the sharded client over them.
ConfigureUpstreams ==
  /\ At("upstream", IF cfg.upstream = Nil THEN "fault" ELSE "udp")
  /\ upstream' = IF cfg.upstream = Nil THEN upstream
                 ELSE [clients |-> Len(cfg.upstream.servers),
                       policy |-> ParseLoadBalancingPolicy(cfg.upstream.policy).policy]
  /\ UNCHANGED <<cfg, level, statsd, listening, width, doing, emitting, counted, adding,
                 sequenceID, printed, begun>>

\* Mutant of NewUDPServer: only a negative number is replaced.
NewUDPServerZero(n) == IF n < 0 THEN DefaultWorkers ELSE n

\* The number of workers, given the one configured.
NewUDPServer(n) == IF n <= 0 THEN DefaultWorkers ELSE n

ConfigureUDP ==
  /\ At("udp", IF cfg.listener = Nil THEN "fault" ELSE "tcp")
  /\ IF cfg.listener # Nil /\ cfg.listener.udp # Nil
     THEN /\ width' = NewUDPServer(cfg.listener.udp.max)
          /\ listening' = [listening EXCEPT !["udp"] = "binding"]
     ELSE UNCHANGED <<width, listening>>
  /\ UNCHANGED <<cfg, level, statsd, upstream, doing, emitting, counted, adding, sequenceID,
                 printed, begun>>

\* Mutant of ConfigureTCP: one listener is enough.
ConfigureTCPElse ==
  /\ At("tcp", "serving")
  /\ listening' = IF cfg.listener.udp = Nil THEN [listening EXCEPT !["tcp"] = "binding"] ELSE listening
  /\ UNCHANGED <<cfg, level, statsd, upstream, width, doing, emitting, counted, adding,
                 sequenceID, printed, begun>>

\* The last thing main does before it blocks for ever.
ConfigureTCP ==
  /\ At("tcp", "serving")
  /\ listening' = IF cfg.listener.tcp # Nil THEN [listening EXCEPT !["tcp"] = "binding"] ELSE listening
  /\ UNCHANGED <<cfg, level, statsd, upstream, width, doing, emitting, counted, adding,
                 sequenceID, printed, begun>>

Main == ParseConfig \/ ConfigureMetrics \/ ConfigureUpstreams \/ ConfigureUDP \/ ConfigureTCP

-----------------------------------------------------------------------------
(* Reports.                                                                *)

Alive == main \in {"parse", "hooks", "upstream", "udp", "tcp", "serving"}

\* Each event is handed to a goroutine; the noop hooks drop it.
Emit(events) ==
  emitting' = IF statsd THEN [e \in Events |-> emitting[e] + IF e \in events THEN 1 ELSE 0]
                        ELSE emitting

\* log: a line is printed when the logger's level enables its own.
Log(l) == printed' = IF Enables(level, l) THEN printed + 1 ELSE printed

\* A goroutine reports. EmitProcess has the sequence number still to add to.
Count(e) ==
  /\ Alive
  /\ emitting[e] > 0
  /\ emitting' = [emitting EXCEPT ![e] = @ - 1]
  /\ counted' = [counted EXCEPT ![e] = @ + 1]
  /\ adding' = IF e = "process" THEN adding + 1 ELSE adding
  /\ UNCHANGED <<life, listening, width, doing, sequenceID, printed, begun>>

AddSequence ==
  /\ Alive
  /\ adding > 0
  /\ adding' = adding - 1
  /\ sequenceID' = sequenceID + 1
  /\ UNCHANGED <<life, listening, width, doing, emitting, counted, printed, begun>>

-----------------------------------------------------------------------------
(* Servers.                                                                *)

\* ListenAndServe binds its address, or ends the process. The UDP server then
\* starts its workers and returns; the TCP server accepts.
Listen(t) ==
  /\ Alive
  /\ listening[t] = "binding"
  /\ \/ /\ listening' = [listening EXCEPT ![t] = "up"]
        /\ doing' = [g \in Workers \cup Links |->
                       IF t = "udp" /\ g \in 1..width THEN "waiting" ELSE doing[g]]
        /\ UNCHANGED main
     \/ /\ main' = "dead"
        /\ UNCHANGED <<listening, doing>>
  /\ UNCHANGED <<cfg, level, statsd, upstream, width, emitting, counted, adding, sequenceID,
                 printed, begun>>

\* A datagram ends a worker's wait: clientRead returns in Handle.
Receive(w) ==
  /\ Alive
  /\ doing[w] = "waiting"
  /\ begun < MaxBegun
  /\ begun' = begun + 1
  /\ doing' = [doing EXCEPT ![w] = "handling"]
  /\ UNCHANGED <<life, listening, width, emitting, counted, adding, sequenceID, printed>>

Accept(k) ==
  /\ Alive
  /\ listening["tcp"] = "up" /\ doing[k] = "none"
  /\ begun < MaxBegun
  /\ begun' = begun + 1
  /\ doing' = [doing EXCEPT ![k] = "handling"]
  /\ Emit({"cx_open"})
  /\ UNCHANGED <<life, listening, width, counted, adding, sequenceID, printed>>

\* Mutant of AcceptFail: the server logs the error itself.
AcceptFailLogged ==
  /\ Alive
  /\ listening["tcp"] = "up"
  /\ begun < MaxBegun
  /\ begun' = begun + 1
  /\ Emit({"cx_error"})
  /\ Log(Len(Levels))
  /\ UNCHANGED <<life, listening, width, doing, counted, adding, sequenceID>>

\* Accept fails; the loop goes on.
AcceptFail ==
  /\ Alive
  /\ listening["tcp"] = "up"
  /\ begun < MaxBegun
  /\ begun' = begun + 1
  /\ Emit({"cx_error", "error"})
  /\ Log(Len(Levels))
  /\ UNCHANGED <<life, listening, width, doing, counted, adding, sequenceID>>

\* Every policy but two takes an element of the list of clients whatever it holds.
NoClientToTake == upstream.clients = 0 /\ upstream.policy \notin {"Availability", "Failover"}

\* Where a goroutine goes when Handle has returned: a worker takes a new UDPConn,
\* a TCP connection's goroutine runs what it deferred.
After(g) == IF g \in Workers THEN "waiting" ELSE "ending"

\* Handle succeeds.
Processed(g) ==
  /\ Alive
  /\ doing[g] = "handling"
  /\ main' = IF NoClientToTake THEN "fault" ELSE main
  /\ doing' = [doing EXCEPT ![g] = After(g)]
  /\ Emit({"process"})
  /\ UNCHANGED <<cfg, level, statsd, upstream, listening, width, counted, adding, sequenceID,
                 printed, begun>>

\* Handle returns an error: ConsumeError.
ConsumeError(g) ==
  /\ Alive
  /\ doing[g] = "handling"
  /\ doing' = [doing EXCEPT ![g] = After(g)]
  /\ Emit({"error"})
  /\ Log(Len(Levels))
  /\ UNCHANGED <<life, listening, width, counted, adding, sequenceID, begun>>

\* Mutant of Close: the socket is closed, and that is all.
CloseUnreported(k) ==
  /\ Alive
  /\ doing[k] = "ending"
  /\ doing' = [doing EXCEPT ![k] = "none"]
  /\ UNCHANGED <<life, listening, width, emitting, counted, adding, sequenceID, printed, begun>>

\* The deferred function of a TCP connection.
Close(k) ==
  /\ Alive
  /\ doing[k] = "ending"
  /\ doing' = [doing EXCEPT ![k] = "none"]
  /\ Emit({"cx_close"})
  /\ UNCHANGED <<life, listening, width, counted, adding, sequenceID, printed, begun>>

-----------------------------------------------------------------------------

Init ==
  /\ main = "parse"
  /\ cfg \in Files
  /\ \E v \in Verbosities : level = ParseLevel(v)
  /\ statsd = FALSE
  /\ upstream = [clients |-> 0, policy |-> "RoundRobin"]
  /\ listening = [t \in {"tcp", "udp"} |-> "off"]
  /\ width = DefaultWorkers
  /\ doing = [g \in Workers \cup Links |-> "none"]
  /\ emitting = [e \in Events |-> 0]
  /\ counted = emitting
  /\ adding = 0 /\ sequenceID = 0 /\ printed = 0 /\ begun = 0

\* What the process does by itself.
Progress ==
  \/ Main
  \/ \E t \in {"tcp", "udp"} : Listen(t)
  \/ \E g \in Workers \cup Links : Processed(g) \/ ConsumeError(g)
  \/ \E k \in Links : Close(k)
  \/ \E e \in Events : Count(e)
  \/ AddSequence

Next ==
  \/ Progress
  \/ \E w \in Workers : Receive(w)
  \/ \E k \in Links : Accept(k)
  \/ AcceptFail

Spec == Init /\ [][Next]_vars

\* Goroutines are scheduled, and Handle returns: reads and writes have timeouts,
\* or peers that answer.
FairSpec == Spec /\ WF_vars(Progress)

-----------------------------------------------------------------------------
(* Properties.                                                             *)

\* The values the variables range over; in particular a UDP server has a worker.
TypeOK ==
  /\ main \in {"parse", "hooks", "upstream", "udp", "tcp", "serving", "refused", "fault", "dead"}
  /\ cfg \in Files
  /\ level \in 1..Len(Levels)
  /\ statsd \in BOOLEAN
  /\ upstream \in [clients : Nat, policy : Policies]
  /\ listening \in [{"tcp", "udp"} -> {"off", "binding", "up"}]
  /\ width \in Workers
  /\ doing \in [Workers \cup Links -> {"none", "waiting", "handling", "ending"}]
  /\ emitting \in [Events -> Nat] /\ counted \in [Events -> Nat]
  /\ {adding, sequenceID, printed} \subseteq Nat
  /\ begun \in 0..MaxBegun

\* A configuration that validate accepts is one main can wire and the policies
\* can serve requests with: nothing but an empty file makes the process
\* dereference nil or take a client from an empty list.
NoFault == main = "fault" => cfg = Nil

Total(e) == emitting[e] + counted[e]

In(state) == {g \in Workers \cup Links : doing[g] = state}

\* The metrics add up at every moment: the connections opened are the ones closed
\* and the ones still served, and each request or failed accept is being handled
\* or has one outcome, which is counted and, for an error, logged at whatever
\* verbosity.
Ledger ==
  statsd /\ main # "fault" =>
    /\ Total("cx_open") = Total("cx_close") + Cardinality(Links \ In("none"))
    /\ Total("process") + Total("error") + Cardinality(In("handling")) = begun
    /\ printed = Total("error")

\* A listener in an accepted configuration gets bound, or the process ends: it
\* does not go on with one listener of two.
ComesUp ==
  \A t \in {"tcp", "udp"} :
    main = "hooks" /\ cfg.listener[t] # Nil ~> listening[t] = "up" \/ ~Alive

\* When clients are done, every connection is closed and reported closed, every
\* request has been counted and the sequence number has caught up.
Settles ==
  <>[](Alive /\ statsd =>
         /\ In("handling") = {} /\ In("ending") = {}
         /\ counted["cx_open"] = counted["cx_close"]
         /\ counted["process"] + counted["error"] = begun
         /\ sequenceID = counted["process"])
=============================================================================
