------------------------------- MODULE Config -------------------------------
(***************************************************************************)
(* The application's configuration (internal/meta/config.go), the load     *)
(* balancing policies and log levels it and the command line name          *)
(* (sharding.go, internal/log): what is parsed from them, what is refused. *)
(*                                                                         *)
(* A text is a word and whether it has capitals: all that comparing it     *)
(* with "", or with a known name in lower case, can tell.                  *)
(***************************************************************************)
EXTENDS Integers, Sequences

CONSTANT Nil   \* a nil pointer: the block is not in the file

Text(letters, capitals) == [letters |-> letters, capitals |-> capitals]

Empty == Text("", FALSE)

ToLower(t) == [t EXCEPT !.capitals = FALSE]

-----------------------------------------------------------------------------

Policies == {"RoundRobin", "Random", "HistoricalConnections", "Availability", "Failover"}

\* The constant a text names, and whether it names one.
ParseLoadBalancingPolicy(t) ==
  LET named == {k \in Policies : ToLower(t) = ToLower(Text(k, TRUE))} IN
    IF named = {} THEN [policy |-> "RoundRobin", ok |-> FALSE]
                  ELSE [policy |-> CHOOSE k \in named : TRUE, ok |-> TRUE]

\* From the most verbose level to the least, which is the default.
Levels == <<"debug", "info", "warn", "error">>

ParseLevel(t) ==
  LET named == {i \in 1..Len(Levels) : ToLower(t) = ToLower(Text(Levels[i], TRUE))} IN
    IF named = {} THEN Len(Levels) ELSE CHOOSE i \in named : TRUE

Enables(level, other) == level <= other

-----------------------------------------------------------------------------

\* Config, but for what nothing here depends on: a block that is a pointer may be
\* nil; the servers are a slice of values.
Configs(texts, rates, widths, policies, serverLists) ==
  [metrics  : {Nil} \cup [statsd : {Nil} \cup [addr : texts, rate : rates]],
   listener : {Nil} \cup [tcp : {Nil} \cup [addr : texts],
                          udp : {Nil} \cup [addr : texts, max : widths]],
   upstream : {Nil} \cup [policy : policies, servers : serverLists]]

-----------------------------------------------------------------------------
(* validate: the first thing that is wrong, or "" when nothing is.  A      *)
(* sample rate is "below" 0, "within" [0, 1], "above" 1 or "nan", which is *)
(* neither below nor above.                                                *)

MetricsError(c) ==
  IF c.metrics = Nil \/ c.metrics.statsd = Nil THEN ""
  ELSE IF c.metrics.statsd.addr = Empty THEN "statsd address"
  ELSE IF c.metrics.statsd.rate \in {"below", "above"} THEN "statsd rate"
  ELSE ""

ListenerError(c) ==
  IF c.listener = Nil THEN "listener"
  ELSE IF c.listener.tcp = Nil /\ c.listener.udp = Nil THEN "no listener"
  ELSE IF \E l \in {c.listener.tcp, c.listener.udp} : l # Nil /\ l.addr = Empty THEN "address"
  ELSE ""

Unnamed(server) == Empty \in {server.addr, server.name}

\* Mutant of UpstreamError: there may be no server.
UpstreamErrorNoServer(c) ==
  IF c.upstream = Nil THEN "upstream"
  ELSE IF c.upstream.policy # Empty /\ ~ParseLoadBalancingPolicy(c.upstream.policy).ok THEN "policy"
  ELSE IF \E i \in DOMAIN c.upstream.servers : Unnamed(c.upstream.servers[i]) THEN "server"
  ELSE ""

UpstreamError(c) ==
  IF c.upstream = Nil THEN "upstream"
  ELSE IF c.upstream.policy # Empty /\ ~ParseLoadBalancingPolicy(c.upstream.policy).ok THEN "policy"
  ELSE IF Len(c.upstream.servers) = 0 THEN "no servers"
  ELSE IF \E i \in DOMAIN c.upstream.servers : Unnamed(c.upstream.servers[i]) THEN "server"
  ELSE ""

validate(c) ==
  IF MetricsError(c) # "" THEN MetricsError(c)
  ELSE IF ListenerError(c) # "" THEN ListenerError(c)
  ELSE UpstreamError(c)
=============================================================================
