------------------------------ MODULE Restart ------------------------------
(***************************************************************************)
(* The proxy while its upstream server restarts, cannot be reached for a   *)
(* while, or drops connections it finds idle: "it is highly likely that    *)
(* any single proxy request will fail (due to a server-side closed         *)
(* connection) and will need to be retried with another connection in the  *)
(* pool" (dns_proxy.go).                                                   *)
(*                                                                         *)
(* During an outage dials and exchanges may fail or not (a dial that gets  *)
(* as far as the handshake is ConnPool's matter).  Otherwise the           *)
(* server answers, dials succeed, and exchanges fail only over connections *)
(* it has closed.                                                          *)
(***************************************************************************)
EXTENDS DNSProxy

CONSTANT MaxFaults   \* bound: how often there is an outage or a dropped connection

ASSUME RestartAssumption ==
  /\ MaxFaults \in Nat
  /\ Values \subseteq Nat

VARIABLES
  gone,     \* the connections the server has closed, or that have failed
  outage,
  faults    \* how many there have been

faultVars == <<gone, outage, faults>>

\* The server closes connections; it answers no query that is on them.
Close(cs) ==
  /\ faults < MaxFaults
  /\ faults' = faults + 1
  /\ gone' = gone \cup cs
  /\ pending' = [c \in Conns |-> IF c \in cs THEN {} ELSE pending[c]]
  /\ UNCHANGED <<vars, handleVars, cut, inbox>>

\* The server stops, or the network does.
OutageBegins == ~outage /\ outage' = TRUE /\ (\E cs \in {Open, {}} : Close(cs))

OutageEnds == outage /\ outage' = FALSE /\ UNCHANGED <<allVars, gone, faults>>

ServerDrop(c) == c \in Open \ gone /\ pending[c] = {} /\ Close({c}) /\ UNCHANGED outage

\* Connections are dialled in the order of their numbers, which are only names.
InOrder == \A c \in Fresh \ Fresh' : \A d \in Fresh : c <= d

\* An exchange fails.
Broken(r) ==
  /\ TransactFail(r)
  /\ outage \/ hand[r] \in gone
  /\ gone' = gone \cup {hand[r]}
  /\ UNCHANGED <<outage, faults>>

\* What handler r does with a request.
Proceed(r) ==
  /\ \/ /\ \/ ConnStep(r) \/ ConnAnswer(r) \/ (outage /\ ConnError(r) /\ UNCHANGED sock)
           \/ Write(r) \/ ReadHeader(r) \/ ReadBody(r) \/ ClientWrite(r)
        /\ UNCHANGED faultVars
     \/ Broken(r)
  /\ InOrder

\* A server that has not closed the connection answers.
Answer(c) == c \notin gone /\ UpstreamAnswer(c) /\ UNCHANGED faultVars

\* The pool is filled, connections are returned, destroyed and closed, and time
\* passes.
Housekeeping ==
  /\ \/ FillDial \/ FillPush \/ (outage /\ FillDialFail /\ UNCHANGED sock)
     \/ \E k \in closers : RunClose(k) \/ RunDestroy(k)
     \/ \E c \in dying : RunDying(c)
     \/ Pass
  /\ InOrder
  /\ UNCHANGED <<proxyVars, faultVars>>

RestartInit == ProxyInit /\ gone = {} /\ outage = FALSE /\ faults = 0

RestartNext ==
  \/ OutageBegins \/ OutageEnds \/ \E c \in Conns : ServerDrop(c) \/ Answer(c)
  \/ \E r \in Callers : Proceed(r) \/ (ClientRead(r) /\ UNCHANGED faultVars)
  \/ Housekeeping

everything == <<allVars, faultVars>>

\* Goroutines that can run are run, and the server answers what it is asked; in
\* an outage, that or timeouts end every exchange.
RestartSpec ==
  /\ RestartInit /\ [][RestartNext]_everything
  /\ \A r \in Callers : WF_everything(Proceed(r))
  /\ \A c \in Conns : WF_everything(Answer(c))

-----------------------------------------------------------------------------
(* Properties.                                                             *)

\* proxyUpstream gives a request up only when no connection can be had, or more
\* connections have failed or been closed than there are retries: no retry is
\* spent on a connection that has failed before, this request or another, and
\* none on a sound one.
GivesUpOutnumbered ==
  [][\A r \in Callers :
       stage[r] \notin {"client", "reply"} /\ stage'[r] = "client" =>
         (outage /\ stage[r] = "conn") \/ Cardinality(gone') > Retries]_everything

\* A request that has been read, or is retried, is answered, although the server
\* closes the connections under it, unless they outnumber the retries or there
\* is an outage.
AnsweredInTheEnd ==
  \A r \in Callers :
    stage[r] = "conn" ~> stage[r] = "reply" \/ Cardinality(gone) > Retries \/ outage
=============================================================================
