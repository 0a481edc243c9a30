---------------------------- MODULE ProxyService ----------------------------
(***************************************************************************)
(* What the proxy promises its clients, without connections, retries or a  *)
(* pool ("Handle reads a request from the client connection, ... and       *)
(* finally writes the response back to the client", dns_proxy.go): each    *)
(* request that is read is concluded, at most once, either by the response *)
(* to it or by an error.                                                   *)
(***************************************************************************)
EXTENDS Naturals

CONSTANT Handlers

VARIABLES
  phase,   \* where each handler is
  asked,   \* the request it last read
  answer   \* the request its last response answers

serviceVars == <<phase, asked, answer>>

ServiceInit ==
  /\ phase = [h \in Handlers |-> "idle"]
  /\ asked = [h \in Handlers |-> 0]
  /\ answer = [h \in Handlers |-> 0]

\* A request that no handler has is read.
Ask(h) ==
  /\ phase[h] = "idle"
  /\ asked'[h] \in Nat \ {asked[g] : g \in Handlers}
  /\ asked' = [asked EXCEPT ![h] = asked'[h]]
  /\ phase' = [phase EXCEPT ![h] = "asked"]
  /\ UNCHANGED answer

Respond(h) ==
  /\ phase[h] = "asked"
  /\ answer' = [answer EXCEPT ![h] = asked[h]]
  /\ phase' = [phase EXCEPT ![h] = "answered"]
  /\ UNCHANGED asked

\* The response is written to the client, or writing it fails.
Deliver(h) ==
  /\ phase[h] = "answered"
  /\ phase' = [phase EXCEPT ![h] = "idle"]
  /\ UNCHANGED <<asked, answer>>

GiveUp(h) ==
  /\ phase[h] = "asked"
  /\ phase' = [phase EXCEPT ![h] = "idle"]
  /\ UNCHANGED <<asked, answer>>

Conclude(h) == Respond(h) \/ Deliver(h) \/ GiveUp(h)

ServiceNext == \E h \in Handlers : Ask(h) \/ Conclude(h)

ServiceSpec ==
  /\ ServiceInit
  /\ [][ServiceNext]_serviceVars
  /\ \A h \in Handlers : WF_serviceVars(Conclude(h))
=============================================================================
