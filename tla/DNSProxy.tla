------------------------------ MODULE DNSProxy ------------------------------
(***************************************************************************)
(* DNSProxyHandler (internal/protocol/dns_proxy.go) on top of the pool:    *)
(* the goroutines that read a request from a client, exchange it with the  *)
(* upstream server over a pooled connection, retry on another connection   *)
(* when that fails, and write the response back.  Every caller of ConnPool *)
(* is such a handler: a worker of the UDP server, or the goroutine the TCP *)
(* server starts for a client.                                             *)
(*                                                                         *)
(* The upstream server and the network are external: a connection is a     *)
(* reliable stream; the server answers each complete query at most once,   *)
(* in any order, at any time or never; any read or write may fail.         *)
(***************************************************************************)
EXTENDS ConnPool, Sequences

CONSTANTS
  UDPHandlers,        \* the handlers that serve the UDP listener
  MaxUpstreamRetries, \* DNSProxyOpts; non-positive means the default
  ReadSizes,          \* what one TCP client read may hold, in halves of a query
  MaxRequests         \* bound: client reads in a behaviour

ASSUME ProxyAssumption ==
  /\ UDPHandlers \subseteq Callers
  /\ MaxUpstreamRetries \in Int
  /\ ReadSizes \subseteq Nat \ {0}
  /\ MaxRequests \in Nat

VARIABLES
  stage,    \* where each handler is in Handle
  req,      \* the request it has read
  budget,   \* proxyUpstream's retries argument
  resp,     \* the response it has read from the upstream
  pending,  \* queries on each connection the upstream has not answered
  cut,      \* the request whose last query it has only in part, or 0
  inbox,    \* responses on each connection the proxy has not read
  \* History, read by properties only.
  issued,   \* client reads so far; the count identifies a request
  tries     \* connections each handler has used for its request

handleVars == <<stage, req, budget, resp, issued, tries>>
wireVars == <<pending, cut, inbox>>
proxyVars == <<handleVars, wireVars>>

\* A message names the request it belongs to and its place in that request; it
\* starts with so many two-octet length headers.
Message == [id : Nat, part : Nat, headers : Nat]

\* What one client read returned: how much, and the headers of its queries. An
\* odd size ends within a query.
Request == [id : Nat, size : Nat, headers : Nat]

NoMessage == [id |-> 0, part |-> 0, headers |-> 0]
NoRequest == [id |-> 0, size |-> 0, headers |-> 0]

-----------------------------------------------------------------------------
(* The upstream server.                                                    *)

\* It understands a query only behind one length header, and answers likewise.
UpstreamAnswer(c) ==
  /\ sock[c] = "open"
  /\ \E q \in pending[c] :
       /\ q.headers = 1
       /\ pending' = [pending EXCEPT ![c] = @ \ {q}]
       /\ inbox' = [inbox EXCEPT ![c] = Append(@, q)]
  /\ UNCHANGED <<vars, handleVars, cut>>

Queries(q) == {[id |-> q.id, part |-> i, headers |-> q.headers] : i \in 1..(q.size \div 2)}

\* What it takes for a query when the rest of request d's was never sent.
Spliced(d) == [id |-> d, part |-> 0, headers |-> 1]

\* What it makes of request q on a connection on which it has part of a query
\* of request d (none if d = 0): it takes what comes for the rest of that
\* query, which may complete it, and what then follows for another.
Arrives(q, d) ==
  IF d = 0
  THEN {[queries |-> Queries(q), cut |-> IF q.size % 2 = 1 THEN q.id ELSE 0]}
  ELSE {[queries |-> {}, cut |-> d]} \cup [queries : {{Spliced(d)}}, cut : {0, q.id}]

-----------------------------------------------------------------------------
(* Handle, up to the upstream exchange.                                    *)

Retries == IF MaxUpstreamRetries <= 0 THEN 16 ELSE MaxUpstreamRetries

\* A datagram is one bare query; a TCP read returns whatever has arrived, each
\* query behind its header, the last one perhaps in part.
Received(r) ==
  IF r \in UDPHandlers
  THEN [size : {2}, headers : {0}]
  ELSE [size : ReadSizes, headers : {1}]

\* Handle puts the length header before a datagram, and takes it off the
\* response to one.
AddHeader(r, h) == IF r \in UDPHandlers THEN h + 1 ELSE h
DropHeader(r, h) == IF r \in UDPHandlers THEN h - 1 ELSE h

\* clientRead succeeds.
ClientRead(r) ==
  /\ stage[r] = "client"
  /\ issued < MaxRequests
  /\ issued' = issued + 1
  /\ \E q \in Received(r) :
       req' = [req EXCEPT ![r] =
                 [id |-> issued', size |-> q.size, headers |-> AddHeader(r, q.headers)]]
  /\ budget' = [budget EXCEPT ![r] = Retries]
  /\ tries' = [tries EXCEPT ![r] = 0]
  /\ stage' = [stage EXCEPT ![r] = "conn"]
  /\ UNCHANGED <<vars, resp, wireVars>>

\* clientRead fails: the handler's error is logged, and it starts over with
\* another client (TCP) or another read (UDP).
ClientReadFail(r) ==
  /\ stage[r] = "client"
  /\ UNCHANGED <<vars, proxyVars>>

-----------------------------------------------------------------------------
(* proxyUpstream.                                                          *)

\* Upstream.Conn() goes on.
ConnStep(r) ==
  /\ stage[r] = "conn"
  /\ ConnPop(r) \/ ConnPopEmpty(r) \/ ConnStale(r)
  /\ UNCHANGED proxyVars

\* Upstream.Conn() answers a connection.
ConnAnswer(r) ==
  /\ stage[r] = "conn"
  /\ ConnReuse(r) \/ ConnDial(r)
  /\ stage' = [stage EXCEPT ![r] = "write"]
  /\ tries' = [tries EXCEPT ![r] = @ + 1]
  /\ UNCHANGED <<req, budget, resp, issued, wireVars>>

\* Mutant of ConnError: a failed dial is retried without a budget.
ConnErrorRetried(r) ==
  /\ stage[r] = "conn"
  /\ ConnDialFail(r)
  /\ UNCHANGED proxyVars

\* Upstream.Conn() answers an error, which is not retried.
ConnError(r) ==
  /\ stage[r] = "conn"
  /\ ConnDialFail(r)
  /\ stage' = [stage EXCEPT ![r] = "client"]
  /\ UNCHANGED <<req, budget, resp, issued, tries, wireVars>>

Write(r) ==
  /\ stage[r] = "write"
  /\ \E a \in Arrives(req[r], cut[hand[r]]) :
       /\ pending' = [pending EXCEPT ![hand[r]] = @ \cup a.queries]
       /\ cut' = [cut EXCEPT ![hand[r]] = a.cut]
  /\ stage' = [stage EXCEPT ![r] = "header"]
  /\ UNCHANGED <<vars, req, budget, resp, issued, tries, inbox>>

ReadHeader(r) ==
  /\ stage[r] = "header"
  /\ inbox[hand[r]] # <<>>
  /\ stage' = [stage EXCEPT ![r] = "body"]
  /\ UNCHANGED <<vars, req, budget, resp, issued, tries, wireVars>>

\* The response is complete: the connection goes back to the pool, and a UDP
\* client's response loses its header.
ReadBody(r) ==
  /\ stage[r] = "body"
  /\ LET m == Head(inbox[hand[r]]) IN
       resp' = [resp EXCEPT ![r] = [m EXCEPT !.headers = DropHeader(r, @)]]
  /\ inbox' = [inbox EXCEPT ![hand[r]] = Tail(@)]
  /\ Finish(r, FALSE)
  /\ stage' = [stage EXCEPT ![r] = "reply"]
  /\ UNCHANGED <<req, budget, issued, tries, pending, cut>>

\* Mutant of TransactFail: the connection is closed, not destroyed.
TransactFailClosed(r) ==
  /\ stage[r] \in {"write", "header", "body"}
  /\ Finish(r, FALSE)
  /\ \/ /\ budget[r] > 0
        /\ budget' = [budget EXCEPT ![r] = @ - 1]
        /\ stage' = [stage EXCEPT ![r] = "conn"]
     \/ /\ budget[r] <= 0
        /\ stage' = [stage EXCEPT ![r] = "client"]
        /\ UNCHANGED budget
  /\ UNCHANGED <<req, resp, issued, tries, wireVars>>

\* Mutant of TransactFail: a retry is free.
TransactFailFree(r) ==
  /\ stage[r] \in {"write", "header", "body"}
  /\ Finish(r, TRUE)
  /\ stage' = [stage EXCEPT ![r] = IF budget[r] > 0 THEN "conn" ELSE "client"]
  /\ UNCHANGED <<req, budget, resp, issued, tries, wireVars>>

\* Mutant of TransactFail: the last retry is not the last.
TransactFailOnceMore(r) ==
  /\ stage[r] \in {"write", "header", "body"}
  /\ Finish(r, TRUE)
  /\ budget' = [budget EXCEPT ![r] = @ - 1]
  /\ stage' = [stage EXCEPT ![r] = IF budget[r] >= 0 THEN "conn" ELSE "client"]
  /\ UNCHANGED <<req, resp, issued, tries, wireVars>>

\* A read or write fails, times out or is short: the connection is destroyed,
\* and the request retried while the budget lasts.
TransactFail(r) ==
  /\ stage[r] \in {"write", "header", "body"}
  /\ Finish(r, TRUE)
  /\ \/ /\ budget[r] > 0
        /\ budget' = [budget EXCEPT ![r] = @ - 1]
        /\ stage' = [stage EXCEPT ![r] = "conn"]
     \/ /\ budget[r] <= 0
        /\ stage' = [stage EXCEPT ![r] = "client"]
        /\ UNCHANGED budget
  /\ UNCHANGED <<req, resp, issued, tries, wireVars>>

\* clientWrite, which may fail: the handler is done either way.
ClientWrite(r) ==
  /\ stage[r] = "reply"
  /\ stage' = [stage EXCEPT ![r] = "client"]
  /\ UNCHANGED <<vars, req, budget, resp, issued, tries, wireVars>>

-----------------------------------------------------------------------------

ProxyInit ==
  /\ Init
  /\ stage = [r \in Callers |-> "client"]
  /\ req = [r \in Callers |-> NoRequest]
  /\ budget = [r \in Callers |-> 0]
  /\ resp = [r \in Callers |-> NoMessage]
  /\ pending = [c \in Conns |-> {}]
  /\ cut = [c \in Conns |-> 0]
  /\ inbox = [c \in Conns |-> <<>>]
  /\ issued = 0
  /\ tries = [r \in Callers |-> 0]

\* What handler r does once it has a request.
Handling(r) ==
  \/ ConnStep(r) \/ ConnAnswer(r) \/ ConnError(r)
  \/ Write(r) \/ ReadHeader(r) \/ ReadBody(r) \/ TransactFail(r)
  \/ ClientWrite(r)

ProxyNext ==
  \/ \E r \in Callers : ClientRead(r) \/ ClientReadFail(r) \/ Handling(r)
  \/ \E c \in Conns : UpstreamAnswer(c)
  \/ (Background \/ Pass) /\ UNCHANGED proxyVars

allVars == <<vars, proxyVars>>

ProxySpec == ProxyInit /\ [][ProxyNext]_allVars

-----------------------------------------------------------------------------
(* Properties.                                                             *)

\* The values the handler's variables range over, and the pool's.
ProxyTypeOK ==
  /\ TypeOK
  /\ stage \in [Callers -> {"client", "conn", "write", "header", "body", "reply"}]
  /\ req \in [Callers -> Request]
  /\ budget \in [Callers -> Nat]
  /\ resp \in [Callers -> Message]
  /\ pending \in [Conns -> SUBSET Message]
  /\ cut \in [Conns -> Nat]
  /\ inbox \in [Conns -> Seq(Message)]
  /\ issued \in Nat
  /\ tries \in [Callers -> Nat]

\* The response Handle writes back answers the request it read, and is framed
\* as the client's transport wants it, whichever connections were tried and
\* whoever used them before.
OwnResponse ==
  \A r \in Callers : stage[r] = "reply" =>
    /\ resp[r].id = req[r].id
    /\ resp[r].headers = IF r \in UDPHandlers THEN 0 ELSE 1

Quiet(c) == pending[c] = {} /\ cut[c] = 0 /\ inbox[c] = <<>>

\* No query, no part of one and no response is left on a connection in the pool
\* or on its way there: a transaction that ends early has its connection
\* destroyed.
PooledIsQuiet ==
  /\ \A c \in Queued \cup Filling : Quiet(c)
  /\ \A k \in closers : ~k.destroyed => Quiet(k.conn)

\* A request uses at most one connection more than the retries it is allowed,
\* and the budget counts exactly those it has left.
RetryBound ==
  \A r \in Callers :
    /\ tries[r] <= Retries + 1
    /\ stage[r] \in {"write", "header", "body"} => tries[r] + budget[r] = Retries + 1

\* The service the handlers offer their clients.
Phase(r) == CASE stage[r] = "client" -> "idle"
              [] stage[r] = "reply"  -> "answered"
              [] OTHER               -> "asked"

Service == INSTANCE ProxyService WITH
  Handlers <- Callers,
  phase    <- [r \in Callers |-> Phase(r)],
  asked    <- [r \in Callers |-> req[r].id],
  answer   <- [r \in Callers |-> resp[r].id]

\* Handle implements the service: every request read is answered at most once,
\* by the response to it, and is answered or given up in the end.
ImplementsService == Service!ServiceSpec
=============================================================================
