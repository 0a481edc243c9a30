--------------------------- MODULE ResponseProofs ---------------------------
(***************************************************************************)
(* For any number of handlers, connections and requests, when a client     *)
(* read holds one query or part of one: no connection returns to the pool  *)
(* with a query or response on it, the response a client gets is the one   *)
(* to its request, and every step is one the proxy's service allows; that  *)
(* holds, too, while the upstream server restarts or drops connections     *)
(* (Restart), and a request is then given up only when it must be.         *)
(***************************************************************************)
EXTENDS DNSProxyProofs, Restart

-----------------------------------------------------------------------------
(* Responses.                                                              *)

\* The exchange of handler r: its query is on the connection it has, or the
\* response to it, and nothing else. Part of a query is nothing the upstream
\* server can answer, and a server that has closed the connection will not
\* answer what it was sent.
Exchange(r) ==
  /\ Queries(req[r]) = {} \/ cut[hand[r]] = 0
  /\ \/ stage[r] = "header" /\ pending[hand[r]] \subseteq Queries(req[r]) /\ inbox[hand[r]] = <<>>
     \/ \E q \in Queries(req[r]) : pending[hand[r]] = {} /\ inbox[hand[r]] = <<q>>

Wire ==
  /\ \A c \in Clean : Quiet(c)
  /\ \A r \in Callers : stage[r] \in {"conn", "write", "header", "body"} =>
       req[r].headers = 1 /\ req[r].size \in {1, 2}
  /\ \A r \in Callers : stage[r] \in {"header", "body"} => Exchange(r)
  /\ OwnResponse

\* A request is one query, framed for the upstream, or part of one.
LEMMA OneQuery ==
  ASSUME NEW q, q.headers = 1, q.size \in {1, 2}
  PROVE  \A x \in Queries(q) :
           /\ x.id = q.id /\ x.headers = 1 /\ Queries(q) = {x}
           /\ x = [id |-> x.id, part |-> x.part, headers |-> x.headers]
<1>1. Queries(q) = {[id |-> q.id, part |-> i, headers |-> 1] : i \in 1..(q.size \div 2)}
  BY DEF Queries
<1>2. \A i \in 1..(q.size \div 2) : i = 1
  OBVIOUS
<1> QED
  BY <1>1, <1>2

\* On a connection without part of a query, the upstream server has the query of
\* such a request whole, or part of it and nothing to answer.
LEMMA WrittenWhole ==
  ASSUME NEW q, q.size \in {1, 2}, NEW a \in Arrives(q, 0)
  PROVE  a.queries = Queries(q) /\ (Queries(q) = {} \/ a.cut = 0)
<1>1. a = [queries |-> Queries(q), cut |-> IF q.size % 2 = 1 THEN q.id ELSE 0]
  BY Zenon DEF Arrives
<1>2. CASE q.size = 1
  <2>1. 1..(q.size \div 2) = {}
    BY <1>2
  <2> QED
    BY <1>1, <2>1 DEF Queries
<1>3. CASE q.size = 2
  BY <1>1, <1>3
<1> QED
  BY <1>2, <1>3

\* While the wire and the requests are left alone, it is enough that no handler
\* enters an exchange or has its connection changed in one.
LEMMA WireFrame ==
  ASSUME Wire, Clean' \subseteq Clean, UNCHANGED <<pending, cut, inbox, req, resp>>,
         \A r \in Callers : stage'[r] \in {"header", "body"} =>
           /\ stage[r] \in {"header", "body"} /\ hand'[r] = hand[r]
           /\ stage'[r] = stage[r] \/ inbox[hand[r]] # <<>>,
         \A r \in Callers : stage'[r] \in {"conn", "write"} =>
           stage[r] \in {"conn", "write", "header", "body"},
         \A r \in Callers : stage'[r] = "reply" => stage[r] = "reply"
  PROVE  Wire'
<1>1. \A c \in Clean' : Quiet(c)'
  BY DEF Wire, Quiet
<1>2. ASSUME NEW r \in Callers, stage'[r] \in {"header", "body"} PROVE Exchange(r)'
  <2>1. /\ Exchange(r) /\ hand'[r] = hand[r]
        /\ stage'[r] = stage[r] \/ inbox[hand[r]] # <<>>
    BY <1>2 DEF Wire
  <2>2. CASE \E q \in Queries(req[r]) : pending[hand[r]] = {} /\ inbox[hand[r]] = <<q>>
    BY <2>1, <2>2 DEF Exchange
  <2>3. CASE stage[r] = "header" /\ pending[hand[r]] \subseteq Queries(req[r]) /\ inbox[hand[r]] = <<>>
    <3>1. stage'[r] = "header"
      BY <2>1, <2>3
    <3> QED
      BY <2>1, <2>3, <3>1 DEF Exchange
  <2> QED
    BY <2>1, <2>2, <2>3 DEF Exchange
<1>3. OwnResponse'
  BY DEF Wire, OwnResponse
<1> QED
  BY <1>1, <1>2, <1>3 DEF Wire

\* The shapes of the handlers' variables.
LEMMA Shapes ==
  ASSUME IInv, Handlers
  PROVE  /\ stage \in [Callers -> {"client", "conn", "write", "header", "body", "reply"}]
         /\ hand \in [Callers -> Conns \cup {NoConn}]
         /\ pending = [c \in Conns |-> pending[c]] /\ cut = [c \in Conns |-> cut[c]]
         /\ inbox = [c \in Conns |-> inbox[c]]
         /\ req = [r \in Callers |-> req[r]] /\ resp = [r \in Callers |-> resp[r]]
         /\ Clean \subseteq Conns
<1>1. Clean \subseteq Conns
  BY DEF Clean, Queued, Filling, Fresh, Returning, Unused, IInv, TypeOK, Item, Closer, Conns
<1> QED
  BY <1>1 DEF Handlers, IInv, TypeOK

\* A request is framed when it is read; nobody is waiting for it yet.
LEMMA WireClientRead ==
  ASSUME ReadSizes \subseteq {1, 2}, IInv, Handlers, Wire, NEW r \in Callers, ClientRead(r)
  PROVE  Wire'
<1>1. Clean' \subseteq Clean
  BY HandlerClean
<1>2. PICK q \in Received(r) : req' = [req EXCEPT ![r] =
               [id |-> issued', size |-> q.size, headers |-> AddHeader(r, q.headers)]]
  BY Zenon DEF ClientRead
<1>3. AddHeader(r, q.headers) = 1 /\ q.size \in {1, 2}
  <2>1. CASE r \in UDPHandlers
    BY <2>1 DEF Received, AddHeader
  <2>2. CASE r \notin UDPHandlers
    BY <2>2, Zenon DEF Received, AddHeader
  <2> QED
    BY <2>1, <2>2
<1>4. req'[r].headers = 1 /\ req'[r].size \in {1, 2}
      /\ \A s \in Callers \ {r} : req'[s] = req[s]
  BY <1>2, <1>3, Shapes
<1>5. stage' = [stage EXCEPT ![r] = "conn"] /\ UNCHANGED <<hand, pending, cut, inbox, resp>>
  BY DEF ClientRead, vars, callVars, wireVars
<1>6. \A s \in Callers : stage'[s] # "conn" => s # r /\ stage'[s] = stage[s] /\ req'[s] = req[s]
  BY <1>4, <1>5, Shapes
<1>7. \A c \in Clean' : Quiet(c)'
  BY <1>1, <1>5 DEF Wire, Quiet
<1>8. \A s \in Callers : stage'[s] \in {"header", "body"} => Exchange(s)'
  <2> SUFFICES ASSUME NEW s \in Callers, stage'[s] \in {"header", "body"} PROVE Exchange(s)'
    OBVIOUS
  <2>1. stage'[s] = stage[s] /\ req'[s] = req[s]
    BY <1>6
  <2>2. Exchange(s)
    BY <2>1 DEF Wire
  <2> QED
    BY <1>5, <2>1, <2>2, Zenon DEF Exchange
<1>9. OwnResponse'
  BY <1>5, <1>6 DEF Wire, OwnResponse
<1>10. \A s \in Callers : stage'[s] \in {"conn", "write", "header", "body"} =>
         req'[s].headers = 1 /\ req'[s].size \in {1, 2}
  BY <1>4, <1>5, Shapes DEF Wire
<1> QED
  BY <1>7, <1>8, <1>9, <1>10 DEF Wire

\* A query is written to a connection that was quiet.
LEMMA WireWrite ==
  ASSUME IInv, Handlers, Wire, NEW r \in Callers, Write(r)
  PROVE  Wire'
<1>0. UNCHANGED <<vars, hand, inbox, req, resp>> /\ hand[r] \in Conns
  BY Shapes DEF Write, Handlers, IInv, Coupled, vars, callVars
<1>1. Clean' \subseteq Clean /\ hand[r] \in Clean /\ hand[r] \notin Clean'
  <2>1. Clean' \subseteq Clean
    BY HandlerClean
  <2>2. hand[r] \in Unused
    BY <1>0, PoolAssumption DEF Write, Unused, Conns
  <2>3. stage'[r] = "header"
    BY Shapes DEF Write
  <2>4. hand[r] \notin Unused'
    BY <1>0, <2>2, <2>3, HeldApart DEF Unused
  <2>5. hand[r] \notin (Queued \cup Filling \cup Fresh \cup Returning)'
    BY <1>0, <2>2, HeldApart DEF Unused, vars, fillVars, Queued, Filling, Fresh, Returning, Conns
  <2> QED
    BY <2>1, <2>2, <2>4, <2>5 DEF Clean
<1>a. PICK a \in Arrives(req[r], cut[hand[r]]) :
         /\ pending' = [pending EXCEPT ![hand[r]] = @ \cup a.queries]
         /\ cut' = [cut EXCEPT ![hand[r]] = a.cut]
  BY Zenon DEF Write
<1>b. cut[hand[r]] = 0 /\ req[r].size \in {1, 2}
  BY <1>1 DEF Write, Wire, Quiet
<1>c. a.queries = Queries(req[r]) /\ (Queries(req[r]) = {} \/ a.cut = 0)
  BY <1>a, <1>b, WrittenWhole
<1>2. /\ pending'[hand[r]] = Queries(req[r]) /\ inbox'[hand[r]] = <<>>
      /\ Queries(req[r]) = {} \/ cut'[hand[r]] = 0
  BY <1>0, <1>1, <1>a, <1>c, Shapes DEF Wire, Quiet
<1>3. \A c \in Conns \ {hand[r]} : pending'[c] = pending[c] /\ cut'[c] = cut[c]
  BY <1>a, Shapes
<1>4. stage'[r] = "header" /\ \A s \in Callers \ {r} : stage'[s] = stage[s]
  BY Shapes DEF Write
<1>5. \A c \in Clean' : Quiet(c)'
  BY <1>0, <1>1, <1>3, Shapes DEF Wire, Quiet
<1>6. \A s \in Callers : stage'[s] \in {"header", "body"} => Exchange(s)'
  <2>1. Exchange(r)'
    BY <1>0, <1>2, <1>4 DEF Exchange
  <2>2. ASSUME NEW s \in Callers \ {r}, stage[s] \in {"header", "body"} PROVE Exchange(s)'
    <3>1. hand[s] \in Conns /\ hand[s] # hand[r]
      BY <1>1, <2>2, UsedIsNotClean
    <3>2. /\ pending'[hand[s]] = pending[hand[s]] /\ cut'[hand[s]] = cut[hand[s]]
          /\ stage'[s] = stage[s]
      BY <1>3, <1>4, <3>1
    <3>3. Exchange(s)
      BY <2>2 DEF Wire
    <3> QED
      BY ZenonT(30), <1>0, <3>2, <3>3 DEF Exchange
  <2> QED
    BY <1>4, <2>1, <2>2
<1>7. OwnResponse'
  BY <1>0, <1>4 DEF Wire, OwnResponse
<1>8. \A s \in Callers : stage'[s] \in {"conn", "write", "header", "body"} =>
         stage[s] \in {"conn", "write", "header", "body"}
  BY <1>4 DEF Write
<1> QED
  BY <1>0, <1>5, <1>6, <1>7, <1>8 DEF Wire

\* The response is the one to the request, and leaves the connection quiet.
LEMMA WireReadBody ==
  ASSUME IInv, Handlers, Wire, NEW r \in Callers, ReadBody(r)
  PROVE  Wire'
<1>c. PICK c : c = hand[r]
  OBVIOUS
<1>0. /\ stage[r] = "body" /\ stage' = [stage EXCEPT ![r] = "reply"]
      /\ hand' = [hand EXCEPT ![r] = NoConn] /\ UNCHANGED <<pending, cut, req>>
      /\ closers' = closers \cup {[conn |-> c, destroyed |-> FALSE]}
      /\ UNCHANGED <<store, filling, sock>>
  BY <1>c DEF ReadBody, Finish, fillVars
<1>1. c \in Conns /\ c \notin Clean
  BY <1>0, <1>c, UsedIsNotClean
<1>2. PICK q \in Queries(req[r]) : pending[c] = {} /\ cut[c] = 0 /\ inbox[c] = <<q>>
  BY <1>0, <1>c DEF Wire, Exchange
<1>3. q.id = req[r].id /\ q.headers = 1 /\ q = [id |-> q.id, part |-> q.part, headers |-> q.headers]
  <2>1. req[r].headers = 1 /\ req[r].size \in {1, 2}
    BY <1>0 DEF Wire
  <2> QED
    BY <1>2, <2>1, OneQuery
<1>4. inbox' = [inbox EXCEPT ![c] = <<>>]
  <2>1. Tail(inbox[c]) = <<>>
    BY <1>2
  <2> QED
    BY <1>c, <2>1, Zenon DEF ReadBody
<1>5. resp' = [resp EXCEPT ![r] = [q EXCEPT !.headers = DropHeader(r, @)]]
  <2>1. Head(inbox[c]) = q
    BY <1>2
  <2> QED
    BY <1>c, <2>1, Zenon DEF ReadBody
<1>6. Clean' \subseteq Clean \cup {c}
  <2>1. Returning' \subseteq Returning \cup {c}
    BY <1>0 DEF Returning
  <2>2. Unused' \subseteq Unused
    BY <1>0, Shapes DEF Unused
  <2>3. Queued' = Queued /\ Filling' = Filling /\ Fresh' = Fresh
    BY <1>0 DEF Queued, Filling, Fresh, Conns
  <2> QED
    BY <2>1, <2>2, <2>3 DEF Clean
<1>7. \A d \in Clean' : Quiet(d)'
  <2>1. Quiet(c)'
    BY <1>0, <1>1, <1>2, <1>4, Shapes DEF Quiet
  <2>2. ASSUME NEW d \in Clean PROVE Quiet(d)'
    <3>1. d # c /\ d \in Conns
      BY <1>1, Shapes
    <3> QED
      BY <1>0, <1>4, <3>1, Shapes DEF Wire, Quiet
  <2> QED
    BY <1>6, <2>1, <2>2
<1>8. stage'[r] = "reply" /\ \A s \in Callers \ {r} : stage'[s] = stage[s] /\ hand'[s] = hand[s]
  BY <1>0, Shapes
<1>9. ASSUME NEW s \in Callers, stage'[s] \in {"header", "body"} PROVE Exchange(s)'
  <2>1. s # r /\ stage[s] \in {"header", "body"} /\ hand'[s] = hand[s] /\ stage'[s] = stage[s]
    BY <1>8, <1>9
  <2>2. hand[s] \in Conns /\ hand[s] # c
    BY <1>c, <1>1, <2>1, UsedIsNotClean, HeldApart, PoolAssumption DEF Conns
  <2>3. inbox'[hand[s]] = inbox[hand[s]]
    BY <1>4, <2>2, Shapes
  <2>4. Exchange(s)
    BY <2>1 DEF Wire
  <2> QED
    BY <1>0, <2>1, <2>3, <2>4 DEF Exchange
<1>10. OwnResponse'
  <2>1. resp'[r].id = req[r].id /\ resp'[r].headers = DropHeader(r, 1)
    BY <1>3, <1>5, Shapes
  <2>2. DropHeader(r, 1) = IF r \in UDPHandlers THEN 0 ELSE 1
    BY DEF DropHeader
  <2>3. \A s \in Callers \ {r} : resp'[s] = resp[s]
    BY <1>5, Shapes
  <2> QED
    BY <1>0, <1>8, <2>1, <2>2, <2>3, SMTT(30) DEF Wire, OwnResponse
<1>11. \A s \in Callers : stage'[s] # "reply" => stage'[s] = stage[s]
  BY <1>8
<1> QED
  BY <1>0, <1>7, <1>9, <1>10, <1>11 DEF Wire

\* An answer takes the place of its query, or nobody will read it.
LEMMA WireAnswer ==
  ASSUME IInv, Handlers, Wire, NEW c \in Conns, UpstreamAnswer(c)
  PROVE  Wire'
<1>0. UNCHANGED <<vars, hand, stage, req, resp, cut>>
  BY DEF UpstreamAnswer, vars, callVars, handleVars
<1>1. PICK q \in pending[c] :
        pending' = [pending EXCEPT ![c] = @ \ {q}] /\ inbox' = [inbox EXCEPT ![c] = Append(@, q)]
  BY Zenon DEF UpstreamAnswer
<1>2. Clean' = Clean
  BY <1>0 DEF vars, fillVars, Clean, Queued, Filling, Fresh, Returning, Unused, Conns
<1>3. \A d \in Clean : Quiet(d)'
  BY <1>0, <1>1, <1>2, Shapes DEF Wire, Quiet
<1>4. ASSUME NEW r \in Callers, stage[r] \in {"header", "body"} PROVE Exchange(r)'
  <2>1. hand[r] \in Conns /\ Exchange(r)
    BY <1>4, UsedIsNotClean DEF Wire
  <2>2. CASE hand[r] # c
    <3>1. pending'[hand[r]] = pending[hand[r]] /\ inbox'[hand[r]] = inbox[hand[r]]
      BY <1>1, <2>1, <2>2, Shapes
    <3> QED
      BY <1>0, <2>1, <3>1 DEF Exchange
  <2>3. CASE hand[r] = c
    <3>1. pending[c] \subseteq Queries(req[r]) /\ inbox[c] = <<>> /\ req[r].headers = 1 /\ req[r].size \in {1, 2}
      BY <1>1, <1>4, <2>1, <2>3 DEF Exchange, Wire
    <3>2. q \in Queries(req[r]) /\ Queries(req[r]) = {q}
      BY <1>1, <3>1, OneQuery
    <3>3. pending'[c] = {}
      BY <1>1, <3>1, <3>2, Shapes
    <3>4. inbox'[c] = <<q>>
      BY <1>1, <3>1, Shapes
    <3> QED
      <4>1. Queries(req[r]) = {} \/ cut[c] = 0
        BY <2>1, <2>3 DEF Exchange
      <4> QED
        BY <1>0, <2>3, <3>2, <3>3, <3>4, <4>1, Zenon DEF Exchange
  <2> QED
    BY <2>2, <2>3
<1> QED
  BY <1>0, <1>2, <1>3, <1>4 DEF Wire, OwnResponse

\* Every step keeps it, when a read holds one query or part of one.
LEMMA WireStep ==
  ASSUME ReadSizes \subseteq {1, 2}, IInv, Handlers, Wire, [ProxyNext]_allVars
  PROVE  Wire'
<1>1. ASSUME NEW r \in Callers, ClientRead(r) PROVE Wire'
  BY <1>1, WireClientRead
<1>2. ASSUME NEW r \in Callers, ConnStep(r) PROVE Wire'
  <2>1. Clean' \subseteq Clean
    BY <1>2, HandlerClean
  <2>2. UNCHANGED <<pending, cut, inbox, req, resp, stage>> /\ stage[r] = "conn"
    BY <1>2 DEF ConnStep, proxyVars, handleVars, wireVars
  <2>3. \A s \in Callers \ {r} : hand'[s] = hand[s]
    BY <1>2, Shapes DEF ConnStep, ConnPop, ConnPopEmpty, ConnStale
  <2> QED
    BY <2>1, <2>2, <2>3, WireFrame
<1>3. ASSUME NEW r \in Callers, ConnAnswer(r) PROVE Wire'
  <2>1. Clean' \subseteq Clean
    BY <1>3, HandlerClean
  <2>2. UNCHANGED <<pending, cut, inbox, req, resp>> /\ stage[r] = "conn" /\ stage' = [stage EXCEPT ![r] = "write"]
    BY <1>3 DEF ConnAnswer, wireVars
  <2>3. \A s \in Callers \ {r} : hand'[s] = hand[s]
    BY <1>3, Shapes DEF ConnAnswer, ConnReuse, ConnDial
  <2> QED
    BY <2>1, <2>2, <2>3, Shapes, WireFrame
<1>4. ASSUME NEW r \in Callers, ConnError(r) \/ ReadHeader(r) \/ ClientWrite(r) PROVE Wire'
  <2>1. Clean' \subseteq Clean
    BY <1>4, HandlerClean
  <2>2. UNCHANGED <<pending, cut, inbox, req, resp, hand>>
    BY <1>4 DEF ConnError, ConnDialFail, ReadHeader, ClientWrite, vars, callVars, wireVars
  <2>3. \/ stage' = [stage EXCEPT ![r] = "client"]
        \/ stage[r] = "header" /\ stage' = [stage EXCEPT ![r] = "body"] /\ inbox[hand[r]] # <<>>
    BY <1>4 DEF ConnError, ReadHeader, ClientWrite
  <2> QED
    BY <2>1, <2>2, <2>3, Shapes, WireFrame
<1>5. ASSUME NEW r \in Callers, TransactFail(r) PROVE Wire'
  <2>1. Clean' \subseteq Clean
    BY <1>5, HandlerClean
  <2>2. UNCHANGED <<pending, cut, inbox, req, resp>>
    BY <1>5 DEF TransactFail, wireVars
  <2>3. /\ stage[r] \in {"write", "header", "body"} /\ hand' = [hand EXCEPT ![r] = NoConn]
        /\ \E s \in {"conn", "client"} : stage' = [stage EXCEPT ![r] = s]
    BY <1>5 DEF TransactFail, Finish
  <2> QED
    BY <2>1, <2>2, <2>3, Shapes, WireFrame
<1>6. ASSUME NEW r \in Callers, Write(r) PROVE Wire'
  BY <1>6, WireWrite
<1>7. ASSUME NEW r \in Callers, ReadBody(r) PROVE Wire'
  BY <1>7, WireReadBody
<1>8. ASSUME NEW c \in Conns, UpstreamAnswer(c) PROVE Wire'
  BY <1>8, WireAnswer
<1>9. ASSUME Background \/ Pass, UNCHANGED proxyVars PROVE Wire'
  <2>1. UNCHANGED <<pending, cut, inbox, req, resp, stage>>
    BY <1>9 DEF proxyVars, handleVars, wireVars
  <2>2. UNCHANGED hand
    BY <1>9 DEF Background, Fill, FillDial, FillDialFail, FillPush, RunClose, RunDestroy,
                RunDying, Pass, callVars
  <2>3. Clean' \subseteq Clean
    BY <1>9, <2>1, BackgroundClean
  <2> QED
    BY <2>1, <2>2, <2>3, WireFrame
<1>10. CASE UNCHANGED allVars
  <2>1. UNCHANGED <<pending, cut, inbox, req, resp, stage, hand>>
    BY <1>10 DEF allVars, proxyVars, handleVars, wireVars, vars, callVars
  <2>2. Clean' = Clean
    BY <1>10, <2>1 DEF allVars, vars, fillVars, Clean, Queued, Filling, Fresh, Returning, Unused, Conns
  <2> QED
    BY <2>1, <2>2, WireFrame
<1>11. ASSUME NEW r \in Callers, ClientReadFail(r) PROVE UNCHANGED allVars
  BY <1>11 DEF ClientReadFail, allVars
<1> QED
  BY <1>1, <1>2, <1>3, <1>4, <1>5, <1>6, <1>7, <1>8, <1>9, <1>10, <1>11 DEF ProxyNext, Handling

\* Together with the pool's invariant, the handlers' is inductive.
LEMMA WireKept ==
  ASSUME ReadSizes \subseteq {1, 2}
  PROVE  ProxySpec => []Wire
<1>1. ProxyInit => Wire
  <2> SUFFICES ASSUME ProxyInit PROVE Wire
    OBVIOUS
  <2>1. Clean \subseteq Conns
    BY DEF Clean, Queued, Filling, Fresh, Returning, Unused, ProxyInit, Init, QInit, Conns
  <2>2. \A c \in Clean : Quiet(c)
    BY <2>1 DEF ProxyInit, Quiet
  <2> QED
    BY <2>2 DEF Wire, ProxyInit, OwnResponse
<1>2. IInv /\ Handlers /\ Wire /\ [ProxyNext]_allVars => Wire'
  BY WireStep
<1> QED
  BY <1>1, <1>2, BothKept, PTL DEF ProxySpec

\* When a client read holds one query or part of one, the response Handle writes
\* back is the one to the request it read, in the client's framing, whatever fails
\* on the way and whoever had the connection before (dns_proxy.go).
THEOREM AnswersTheRequest ==
  ASSUME ReadSizes \subseteq {1, 2}
  PROVE  ProxySpec => []OwnResponse
<1>1. Wire => OwnResponse
  BY DEF Wire
<1> QED
  BY <1>1, WireKept, PTL

\* Then, too, nothing is left on a connection that is in the pool or on its way
\* there: proxyUpstream closes one only after the whole response, and destroys
\* it after any failure.
THEOREM ReturnedQuiet ==
  ASSUME ReadSizes \subseteq {1, 2}
  PROVE  ProxySpec => []PooledIsQuiet
<1>1. Wire => PooledIsQuiet
  BY DEF Wire, PooledIsQuiet, Clean, Returning
<1> QED
  BY <1>1, WireKept, PTL

-----------------------------------------------------------------------------
(* The service.                                                            *)

\* The safety part of ImplementsService.
ServiceSafety == Service!ServiceInit /\ [][Service!ServiceNext]_(Service!serviceVars)

\* No request that has been read is numbered beyond the count of reads.
Numbered == issued \in Nat /\ \A r \in Callers : req[r].id \in 0..issued

\* Every step keeps the numbering.
LEMMA NumberedStep == Handlers /\ Numbered /\ [ProxyNext]_allVars => Numbered'
<1> SUFFICES ASSUME Handlers, Numbered, [ProxyNext]_allVars PROVE Numbered'
  OBVIOUS
<1>1. ASSUME NEW r \in Callers, ClientRead(r) PROVE Numbered'
  <2>1. issued' = issued + 1
    BY <1>1 DEF ClientRead
  <2>2. req'[r].id = issued' /\ \A s \in Callers \ {r} : req'[s] = req[s]
    BY <1>1 DEF ClientRead, Handlers
  <2> QED
    BY <2>1, <2>2 DEF Numbered
<1>2. ASSUME UNCHANGED <<req, issued>> PROVE Numbered'
  BY <1>2 DEF Numbered
<1>3. ASSUME NEW r \in Callers, ClientReadFail(r) \/ Handling(r) PROVE UNCHANGED <<req, issued>>
  BY <1>3, Zenon DEF ClientReadFail, Handling, ConnStep, ConnAnswer, ConnError, Write, ReadHeader, ReadBody,
              TransactFail, ClientWrite, proxyVars, handleVars
<1>4. ASSUME NEW c \in Conns, UpstreamAnswer(c) PROVE UNCHANGED <<req, issued>>
  BY <1>4 DEF UpstreamAnswer, handleVars
<1>5. (UNCHANGED proxyVars) \/ (UNCHANGED allVars) => UNCHANGED <<req, issued>>
  BY DEF allVars, proxyVars, handleVars
<1> QED
  BY <1>1, <1>2, <1>3, <1>4, <1>5 DEF ProxyNext

\* A step that leaves phases, requests and responses alone is a stutter.
LEMMA ServiceStutters ==
  ASSUME UNCHANGED <<req, resp>>, \A r \in Callers : Phase(r)' = Phase(r)
  PROVE  UNCHANGED Service!serviceVars
  BY DEF Service!serviceVars

\* Every step is a step of the service or none.
LEMMA ServiceStep ==
  ASSUME Handlers, Numbered, OwnResponse', [ProxyNext]_allVars
  PROVE  [Service!ServiceNext]_(Service!serviceVars)
<1>0. /\ stage \in [Callers -> {"client", "conn", "write", "header", "body", "reply"}]
      /\ req = [r \in Callers |-> req[r]] /\ resp = [r \in Callers |-> resp[r]]
  BY DEF Handlers
<1>1. ASSUME NEW r \in Callers, ClientRead(r) PROVE Service!Ask(r)
  <2>1. Phase(r) = "idle" /\ Phase(r)' = "asked" /\ \A s \in Callers \ {r} : Phase(s)' = Phase(s)
    BY <1>0, <1>1 DEF ClientRead, Phase
  <2>2. req'[r].id = issued + 1 /\ \A s \in Callers \ {r} : req'[s] = req[s]
    BY <1>0, <1>1 DEF ClientRead
  <2>3. req'[r].id \in Nat \ {req[s].id : s \in Callers}
    BY <2>2 DEF Numbered
  <2>4. UNCHANGED resp
    BY <1>1 DEF ClientRead
  <2> QED
    BY <2>1, <2>2, <2>3, <2>4, Zenon DEF Service!Ask
<1>2. ASSUME NEW r \in Callers, ReadBody(r) PROVE Service!Respond(r)
  <2>1. Phase(r) = "asked" /\ Phase(r)' = "answered" /\ \A s \in Callers \ {r} : Phase(s)' = Phase(s)
    BY <1>0, <1>2 DEF ReadBody, Phase
  <2>2. \A s \in Callers \ {r} : resp'[s] = resp[s]
    BY <1>0, <1>2 DEF ReadBody
  <2>3. resp'[r].id = req[r].id /\ UNCHANGED req
    BY <1>0, <1>2, Zenon DEF ReadBody, OwnResponse
  <2> QED
    BY <2>1, <2>2, <2>3, Zenon DEF Service!Respond
<1>3. ASSUME NEW r \in Callers, ClientWrite(r) PROVE Service!Deliver(r)
  <2>1. Phase(r) = "answered" /\ Phase(r)' = "idle" /\ \A s \in Callers \ {r} : Phase(s)' = Phase(s)
    BY <1>0, <1>3 DEF ClientWrite, Phase
  <2>2. UNCHANGED <<req, resp>>
    BY <1>3 DEF ClientWrite
  <2> QED
    BY <2>1, <2>2, Zenon DEF Service!Deliver
<1>4. ASSUME NEW r \in Callers, ConnError(r) \/ TransactFail(r)
      PROVE  Service!GiveUp(r) \/ UNCHANGED Service!serviceVars
  <2>1. /\ stage[r] \in {"conn", "write", "header", "body"} /\ UNCHANGED <<req, resp>>
        /\ \E s \in {"conn", "client"} : stage' = [stage EXCEPT ![r] = s]
    BY <1>4, Zenon DEF ConnError, TransactFail
  <2>2. CASE stage' = [stage EXCEPT ![r] = "conn"]
    BY <1>0, <2>1, <2>2, ServiceStutters DEF Phase
  <2>3. CASE stage' = [stage EXCEPT ![r] = "client"]
    <3>1. Phase(r) = "asked" /\ Phase(r)' = "idle" /\ \A s \in Callers \ {r} : Phase(s)' = Phase(s)
      BY <1>0, <2>1, <2>3 DEF Phase
    <3> QED
      BY <2>1, <3>1, Zenon DEF Service!GiveUp
  <2> QED
    BY <2>1, <2>2, <2>3, Zenon
<1>5. ASSUME NEW r \in Callers, ConnAnswer(r) \/ Write(r) \/ ReadHeader(r)
      PROVE  UNCHANGED Service!serviceVars
  <2>1. /\ stage[r] \in {"conn", "write", "header"} /\ UNCHANGED <<req, resp>>
        /\ \E s \in {"write", "header", "body"} : stage' = [stage EXCEPT ![r] = s]
    BY <1>5 DEF ConnAnswer, Write, ReadHeader
  <2> QED
    BY <1>0, <2>1, ServiceStutters DEF Phase
<1>6. ASSUME UNCHANGED <<stage, req, resp>> PROVE UNCHANGED Service!serviceVars
  BY <1>6, ServiceStutters DEF Phase
<1>7. ASSUME NEW r \in Callers, ClientReadFail(r) \/ ConnStep(r) PROVE UNCHANGED <<stage, req, resp>>
  BY <1>7 DEF ClientReadFail, ConnStep, proxyVars, handleVars
<1>8. ASSUME NEW c \in Conns, UpstreamAnswer(c) PROVE UNCHANGED <<stage, req, resp>>
  BY <1>8 DEF UpstreamAnswer, handleVars
<1>9. (UNCHANGED proxyVars) \/ (UNCHANGED allVars) => UNCHANGED <<stage, req, resp>>
  BY DEF allVars, proxyVars, handleVars
<1> QED
  BY <1>1, <1>2, <1>3, <1>4, <1>5, <1>6, <1>7, <1>8, <1>9
  DEF ProxyNext, Handling, Service!ServiceNext, Service!Conclude

\* Handle, with its connections, retries and pool, does for its clients only
\* what the service allows: it answers a request it has read once, with the
\* response to it, or gives it up.
THEOREM RefinesService ==
  ASSUME ReadSizes \subseteq {1, 2}
  PROVE  ProxySpec => ServiceSafety
<1>1. ProxyInit => Service!ServiceInit
  BY DEF ProxyInit, Service!ServiceInit, Phase, NoRequest, NoMessage
<1>2. ProxyInit => Numbered
  BY DEF ProxyInit, Numbered, NoRequest
<1>3. ProxySpec => []Numbered
  BY <1>2, BothKept, NumberedStep, PTL DEF ProxySpec
<1>4. Handlers /\ Numbered /\ OwnResponse' /\ [ProxyNext]_allVars
        => [Service!ServiceNext]_(Service!serviceVars)
  BY ServiceStep
<1> QED
  BY <1>1, <1>3, <1>4, BothKept, AnswersTheRequest, PTL DEF ProxySpec, ServiceSafety

-----------------------------------------------------------------------------
(* Restarts.                                                               *)

\* A step of the proxy while its server restarts is one of the proxy's own, or
\* the server closes connections.
LEMMA KindsOfStep ==
  ASSUME RestartNext PROVE ProxyNext \/ (\E cs : Close(cs)) \/ UNCHANGED allVars
<1>1. ASSUME NEW r \in Callers, Proceed(r) PROVE Handling(r)
  BY <1>1, Zenon DEF Proceed, Broken, Handling
<1>2. ASSUME Housekeeping PROVE (Background \/ Pass) /\ UNCHANGED proxyVars
  BY <1>2, Zenon DEF Housekeeping, Background, Fill
<1> QED
  BY <1>1, <1>2, Zenon
  DEF RestartNext, OutageBegins, OutageEnds, ServerDrop, Answer, ProxyNext

\* The pool and the handlers do not see that connections are closed.
LEMMA CloseKeeps ==
  ASSUME IInv, Handlers, NEW cs, Close(cs)
  PROVE  IInv' /\ Handlers'
<1>1. UNCHANGED vars
  BY DEF Close
<1>2. pending' = [c \in Conns |-> pending'[c]] /\ UNCHANGED <<handleVars, cut, inbox>>
  BY Zenon DEF Close
<1>3. Handlers'
  BY <1>1, <1>2, Zenon DEF Handlers, vars, callVars, handleVars
<1> QED
  BY <1>1, <1>3, StepInv

\* Both invariants hold throughout.
LEMMA RestartBothKept == RestartSpec => [](IInv /\ Handlers)
<1>1. RestartInit => IInv /\ Handlers
  <2>1. RestartInit => IInv
    BY InitInv DEF RestartInit, ProxyInit
  <2>2. RestartInit => Handlers
    BY DEF RestartInit, ProxyInit, Init, Handlers
  <2> QED
    BY <2>1, <2>2
<1>2. IInv /\ Handlers /\ [RestartNext]_everything => IInv' /\ Handlers'
  <2> SUFFICES ASSUME IInv, Handlers, [RestartNext]_everything PROVE IInv' /\ Handlers'
    OBVIOUS
  <2>1. [ProxyNext]_allVars \/ \E cs : Close(cs)
    BY KindsOfStep, Zenon DEF everything
  <2>2. ASSUME [ProxyNext]_allVars PROVE IInv' /\ Handlers'
    <3>1. [Next]_vars
      BY <2>2, PoolStep DEF allVars
    <3> QED
      BY <2>2, <3>1, StepInv, HandlersStep
  <2> QED
    BY <2>1, <2>2, CloseKeeps
<1> QED
  BY <1>1, <1>2, PTL DEF RestartSpec

\* A connection that is closed keeps its response, or has nothing left.
LEMMA WireClose ==
  ASSUME IInv, Handlers, Wire, NEW cs, Close(cs)
  PROVE  Wire'
<1>0. UNCHANGED <<vars, hand, stage, req, resp, cut, inbox>>
  BY DEF Close, vars, callVars, handleVars
<1>1. Clean' = Clean
  BY <1>0 DEF vars, fillVars, Clean, Queued, Filling, Fresh, Returning, Unused, Conns
<1>2. \A c \in Conns : pending'[c] = IF c \in cs THEN {} ELSE pending[c]
  BY DEF Close
<1>3. \A c \in Clean : Quiet(c)'
  BY <1>0, <1>2, Shapes DEF Wire, Quiet
<1>4. ASSUME NEW r \in Callers, stage[r] \in {"header", "body"} PROVE Exchange(r)'
  <2>1. hand[r] \in Conns /\ Exchange(r)
    BY <1>4, UsedIsNotClean DEF Wire
  <2>2. pending'[hand[r]] = pending[hand[r]] \/ pending'[hand[r]] = {}
    BY <1>2, <2>1
  <2> QED
    BY <1>0, <2>1, <2>2 DEF Exchange
<1> QED
  BY <1>0, <1>1, <1>3, <1>4 DEF Wire, OwnResponse

\* Although the server restarts or drops connections in the middle of exchanges,
\* Handle does for its clients only what the service allows: no request is
\* answered twice, or with the response to another that was on a connection
\* the server closed (dns_proxy.go).
THEOREM RestartRefinesService ==
  ASSUME ReadSizes \subseteq {1, 2}
  PROVE  RestartSpec => ServiceSafety
<1>1. RestartInit => Service!ServiceInit
  BY DEF RestartInit, ProxyInit, Service!ServiceInit, Phase, NoRequest, NoMessage
<1>2. RestartInit => Wire /\ Numbered
  <2> SUFFICES ASSUME RestartInit PROVE Wire /\ Numbered
    OBVIOUS
  <2>1. Clean \subseteq Conns
    BY DEF Clean, Queued, Filling, Fresh, Returning, Unused, RestartInit, ProxyInit, Init, QInit, Conns
  <2>2. \A c \in Clean : Quiet(c)
    BY <2>1 DEF RestartInit, ProxyInit, Quiet
  <2> QED
    BY <2>2 DEF Wire, RestartInit, ProxyInit, OwnResponse, Numbered, NoRequest
<1>3. IInv /\ Handlers /\ Wire /\ Numbered /\ [RestartNext]_everything
        => Wire' /\ Numbered' /\ [Service!ServiceNext]_(Service!serviceVars)
  <2> SUFFICES ASSUME IInv, Handlers, Wire, Numbered, [RestartNext]_everything
               PROVE  Wire' /\ Numbered' /\ [Service!ServiceNext]_(Service!serviceVars)
    OBVIOUS
  <2>1. [ProxyNext]_allVars \/ \E cs : Close(cs)
    BY KindsOfStep, Zenon DEF everything
  <2>2. ASSUME [ProxyNext]_allVars
        PROVE  Wire' /\ Numbered' /\ [Service!ServiceNext]_(Service!serviceVars)
    <3>1. Wire' /\ Numbered'
      BY <2>2, WireStep, NumberedStep
    <3>2. OwnResponse'
      BY <3>1 DEF Wire
    <3> QED
      BY <2>2, <3>1, <3>2, ServiceStep
  <2>3. ASSUME NEW cs, Close(cs)
        PROVE  Wire' /\ Numbered' /\ [Service!ServiceNext]_(Service!serviceVars)
    <3>1. UNCHANGED <<stage, req, resp, issued>>
      BY <2>3 DEF Close, handleVars
    <3>2. Numbered'
      BY <3>1 DEF Numbered
    <3>3. UNCHANGED Service!serviceVars
      BY <3>1, ServiceStutters DEF Phase
    <3> QED
      BY <2>3, <3>2, <3>3, WireClose
  <2> QED
    BY <2>1, <2>2, <2>3
<1> QED
  BY <1>1, <1>2, <1>3, RestartBothKept, PTL DEF RestartSpec, ServiceSafety

\* The connections opened so far, and those that nobody will be given again.
Opened == {c \in Conns : sock[c] # "fresh"}
Dead == {c \in Conns : sock[c] = "closed"} \cup {k.conn : k \in {j \in closers : j.destroyed}}

\* The connections that failed or were closed, and are dead.
Lost == gone \cap Dead

\* The retries a request has used were each spent on another lost connection.
Spent ==
  /\ IsFiniteSet(Opened) /\ gone \subseteq Opened
  /\ \A r \in Callers : stage[r] \in {"conn", "write", "header", "body"} =>
       Cardinality(Lost) + budget[r] >= Retries

\* A dead connection stays dead, and at most one is opened at a time.
LEMMA Aging ==
  ASSUME IInv, Handlers, [RestartNext]_everything
  PROVE  /\ Lost \subseteq Lost'
         /\ \E c : Opened' \subseteq Opened \cup {c}
         /\ Opened \subseteq Opened'
         /\ gone' \subseteq gone \cup Open
<1> DEFINE Goal == /\ Dead \subseteq Dead' /\ Opened \subseteq Opened'
                   /\ \E c : Opened' \subseteq Opened \cup {c}
<1>0. sock \in [Conns -> {"fresh", "open", "closed"}] /\ closers \subseteq Closer
  BY DEF IInv, TypeOK
<1>1. ASSUME UNCHANGED <<sock, closers>> PROVE Goal
  BY <1>1 DEF Dead, Opened
<1>d. ASSUME NEW c \in Conns, DialOk(c), UNCHANGED closers PROVE Goal
  <2>1. sock[c] = "fresh" /\ sock' = [sock EXCEPT ![c] = "open"]
    BY <1>d DEF DialOk, Fresh
  <2>2. Opened \subseteq Opened' /\ Opened' \subseteq Opened \cup {c}
    BY <1>0, <2>1 DEF Opened
  <2>3. Dead \subseteq Dead'
    BY <1>0, <1>d, <2>1 DEF Dead
  <2> QED
    BY <2>2, <2>3
<1>2. ASSUME NEW r \in Callers, ConnAnswer(r) PROVE Goal
  <2>1. CASE ConnReuse(r)
    BY <1>1, <2>1 DEF ConnReuse
  <2>2. CASE ConnDial(r)
    BY <1>d, <2>2, Zenon DEF ConnDial
  <2> QED
    BY <1>2, <2>1, <2>2 DEF ConnAnswer
<1>3. ASSUME NEW r \in Callers, ReadBody(r) \/ TransactFail(r) PROVE Goal
  <2>1. UNCHANGED sock /\ closers \subseteq closers'
    BY <1>3 DEF ReadBody, TransactFail, Finish
  <2> QED
    BY <2>1 DEF Dead, Opened
<1>4. ASSUME NEW k \in closers, RunClose(k) \/ RunDestroy(k) PROVE Goal
  <2>1. k.conn \in Conns /\ k.conn \in Opened
    <3>1. k.conn \in Conns
      BY <1>0 DEF Closer
    <3>2. k.conn \in Open
      BY DEF IInv, Owned, UsableIsOpen, Closing
    <3> QED
      BY <3>1, <3>2 DEF Open, Opened
  <2>2. sock' = sock \/ sock' = [sock EXCEPT ![k.conn] = "closed"]
    BY <1>4 DEF RunClose, RunDestroy, CloseSocket
  <2>3. Opened' = Opened
    BY <1>0, <2>1, <2>2 DEF Opened
  <2>4. \A c \in Conns : sock[c] = "closed" => sock'[c] = "closed"
    BY <1>0, <2>1, <2>2
  <2>5. k.destroyed => sock'[k.conn] = "closed"
    BY <1>0, <1>4, <2>1 DEF RunClose, RunDestroy, CloseSocket
  <2>6. closers' = closers \ {k}
    BY <1>4 DEF RunClose, RunDestroy
  <2>7. Dead \subseteq Dead'
    BY <2>1, <2>4, <2>5, <2>6 DEF Dead
  <2> QED
    BY <2>3, <2>7
<1>5. ASSUME NEW r \in Callers, Proceed(r) PROVE Goal
  <2>1. ASSUME ConnStep(r) \/ (ConnError(r) /\ UNCHANGED sock) \/ Write(r) \/ ReadHeader(r) \/ ClientWrite(r)
        PROVE  UNCHANGED <<sock, closers>>
    BY <2>1 DEF ConnStep, ConnPop, ConnPopEmpty, ConnStale, ConnError, ConnDialFail, Write, ReadHeader,
                ClientWrite, vars
  <2> QED
    BY <1>1, <1>2, <1>3, <1>5, <2>1 DEF Proceed, Broken
<1>6. ASSUME UNCHANGED vars PROVE Goal
  BY <1>1, <1>6 DEF vars
<1>f. ASSUME FillDial \/ FillPush \/ (FillDialFail /\ UNCHANGED sock) \/ Pass PROVE Goal
  <2>1. CASE FillDial
    BY <1>d, <2>1, Zenon DEF FillDial
  <2>2. CASE FillPush \/ (FillDialFail /\ UNCHANGED sock) \/ Pass
    BY <1>1, <2>2, Zenon DEF FillPush, FillDialFail, Pass
  <2> QED
    BY <1>f, <2>1, <2>2
<1>g. ASSUME NEW c \in dying, RunDying(c) PROVE Goal
  <2>1. c \in Opened /\ sock' = [sock EXCEPT ![c] = "closed"] /\ UNCHANGED closers
    BY <1>g DEF RunDying, CloseSocket, IInv, TypeOK, Owned, UsableIsOpen, Open, Opened
  <2>2. Opened' = Opened /\ Dead \subseteq Dead'
    BY <1>0, <2>1 DEF Opened, Dead
  <2> QED
    BY <2>2
<1>7. Goal
  <2>1. ASSUME NEW r \in Callers, ClientRead(r) PROVE UNCHANGED vars
    BY <2>1 DEF ClientRead
  <2>2. ASSUME NEW c \in Conns, ServerDrop(c) \/ Answer(c) PROVE UNCHANGED vars
    BY <2>2 DEF ServerDrop, Close, Answer, UpstreamAnswer
  <2>3. ASSUME OutageBegins \/ OutageEnds \/ UNCHANGED everything PROVE UNCHANGED vars
    BY <2>3 DEF OutageBegins, Close, OutageEnds, everything, allVars
  <2> QED
    BY <1>4, <1>5, <1>6, <1>f, <1>g, <2>1, <2>2, <2>3 DEF RestartNext, Housekeeping
<1>8. gone \subseteq gone' /\ gone' \subseteq gone \cup Open
  <2>1. ASSUME NEW r \in Callers, Proceed(r) PROVE gone \subseteq gone' /\ gone' \subseteq gone \cup Open
    <3>1. CASE UNCHANGED faultVars
      BY <3>1 DEF faultVars
    <3>2. CASE Broken(r)
      <4>1. hand[r] \in Held
        BY <3>2 DEF Broken, TransactFail, Handlers, IInv, Coupled, Held
      <4>2. hand[r] \in Open
        BY <4>1 DEF IInv, Owned, UsableIsOpen
      <4> QED
        BY <3>2, <4>2 DEF Broken
    <3> QED
      BY <2>1, <3>1, <3>2 DEF Proceed
  <2>2. ASSUME NEW c \in Conns, ServerDrop(c) \/ Answer(c)
        PROVE  gone \subseteq gone' /\ gone' \subseteq gone \cup Open
    BY <2>2 DEF ServerDrop, Close, Answer, faultVars
  <2>3. ASSUME OutageBegins PROVE gone \subseteq gone' /\ gone' \subseteq gone \cup Open
    BY <2>3 DEF OutageBegins, Close
  <2>4. ASSUME UNCHANGED gone PROVE gone \subseteq gone' /\ gone' \subseteq gone \cup Open
    BY <2>4
  <2> QED
    BY <2>1, <2>2, <2>3, <2>4 DEF RestartNext, OutageEnds, Housekeeping, faultVars, everything
<1> QED
  BY <1>7, <1>8 DEF Lost

\* The lost connections are finitely many, and do not become fewer.
LEMMA LostCounted ==
  ASSUME Spent, IsFiniteSet(Opened'), gone' \subseteq Opened', Lost \subseteq Lost'
  PROVE  /\ IsFiniteSet(Lost') /\ Cardinality(Lost) \in Nat /\ Cardinality(Lost') \in Nat
         /\ Cardinality(Lost) <= Cardinality(Lost')
         /\ \A c \in Lost' \ Lost : Cardinality(Lost) + 1 <= Cardinality(Lost')
<1>1. PICK S : S = Lost
  OBVIOUS
<1>2. PICK T : T = Lost'
  OBVIOUS
<1>3. T \subseteq Opened' /\ S \subseteq T
  BY <1>1, <1>2 DEF Lost
<1>4. IsFiniteSet(T)
  BY <1>3, FS_Subset
<1>5. IsFiniteSet(S) /\ Cardinality(S) <= Cardinality(T)
  BY <1>3, <1>4, FS_Subset
<1>6. Cardinality(S) \in Nat /\ Cardinality(T) \in Nat
  BY <1>4, <1>5, FS_CardinalityType
<1>7. ASSUME NEW c \in T \ S PROVE Cardinality(S) + 1 <= Cardinality(T)
  <2>1. Cardinality(T \ {c}) = Cardinality(T) - 1 /\ IsFiniteSet(T \ {c})
    BY <1>4, FS_RemoveElement
  <2>2. S \subseteq T \ {c}
    BY <1>3
  <2>3. Cardinality(S) <= Cardinality(T \ {c})
    BY <2>1, <2>2, FS_Subset
  <2> QED
    BY <1>6, <2>1, <2>3
<1> QED
  BY <1>1, <1>2, <1>4, <1>5, <1>6, <1>7

\* A failed exchange loses a connection that was not lost before: the one the
\* handler has is open, and with nobody who would close it.
LEMMA BrokenLoses ==
  ASSUME IInv, Handlers, NEW r \in Callers, Broken(r)
  PROVE  hand[r] \in Lost' /\ hand[r] \notin Lost
<1>1. hand[r] \in Held /\ hand[r] \in Conns
  BY DEF Broken, TransactFail, Handlers, IInv, TypeOK, Coupled, Held
<1>2. hand[r] \in Open /\ hand[r] \notin Closing
  BY <1>1 DEF IInv, Owned, Exclusive, UsableIsOpen
<1>3. hand[r] \notin Dead
  BY <1>2 DEF Dead, Open, Closing
<1>4. [conn |-> hand[r], destroyed |-> TRUE] \in closers' /\ hand[r] \in gone'
  BY DEF Broken, TransactFail, Finish
<1>5. hand[r] \in Dead'
  BY <1>4 DEF Dead
<1> QED
  BY <1>3, <1>4, <1>5 DEF Lost

\* No step disturbs it, and a request is given up only as GivesUpOutnumbered says.
LEMMA SpentStep ==
  ASSUME IInv, Handlers, Spent, [RestartNext]_everything
  PROVE  /\ Spent'
         /\ \A r \in Callers :
              stage[r] \notin {"client", "reply"} /\ stage'[r] = "client" =>
                (outage /\ stage[r] = "conn") \/ Cardinality(gone') > Retries
<1> DEFINE Under == {"conn", "write", "header", "body"}
           GivenUp(r) == stage[r] \notin {"client", "reply"} /\ stage'[r] = "client"
<1>0. /\ stage \in [Callers -> {"client", "conn", "write", "header", "body", "reply"}]
      /\ budget \in [Callers -> Nat] /\ Retries \in Nat
  BY RetriesType DEF Handlers
<1>1. IsFiniteSet(Opened') /\ gone' \subseteq Opened'
  <2>1. PICK c : Opened' \subseteq Opened \cup {c}
    BY Aging
  <2>2. IsFiniteSet(Opened \cup {c})
    BY FS_AddElement DEF Spent
  <2>3. IsFiniteSet(Opened')
    BY <2>1, <2>2, FS_Subset
  <2>4. Open \subseteq Opened
    BY DEF Open, Opened
  <2> QED
    BY <2>3, <2>4, Aging DEF Spent
<1>2. /\ Lost \subseteq Lost' /\ IsFiniteSet(gone')
      /\ Cardinality(Lost) \in Nat /\ Cardinality(Lost') \in Nat
      /\ Cardinality(Lost) <= Cardinality(Lost')
      /\ \A c \in Lost' \ Lost : Cardinality(Lost) + 1 <= Cardinality(Lost')
  BY <1>1, Aging, LostCounted, FS_Subset
<1>3. ASSUME \A r \in Callers : stage'[r] \in Under =>
               budget'[r] = Retries \/ (stage[r] \in Under /\ budget'[r] = budget[r]),
             \A r \in Callers : GivenUp(r) => outage /\ stage[r] = "conn"
      PROVE  Spent' /\ \A r \in Callers :
               GivenUp(r) => (outage /\ stage[r] = "conn") \/ Cardinality(gone') > Retries
  <2>1. \A r \in Callers : stage'[r] \in Under => Cardinality(Lost') + budget'[r] >= Retries
    BY <1>0, <1>2, <1>3 DEF Spent
  <2> QED
    BY <1>1, <1>3, <2>1 DEF Spent, Retries
<1>4. ASSUME NEW r \in Callers, Broken(r)
      PROVE  Spent' /\ \A s \in Callers :
               GivenUp(s) => (outage /\ stage[s] = "conn") \/ Cardinality(gone') > Retries
  <2>1. Cardinality(Lost) + 1 <= Cardinality(Lost')
    BY <1>2, <1>4, BrokenLoses
  <2>2. \/ /\ budget[r] > 0 /\ budget' = [budget EXCEPT ![r] = @ - 1]
           /\ stage' = [stage EXCEPT ![r] = "conn"]
        \/ budget[r] <= 0 /\ stage' = [stage EXCEPT ![r] = "client"] /\ UNCHANGED budget
    BY <1>4 DEF Broken, TransactFail
  <2>3. Cardinality(Lost) + budget[r] >= Retries
    BY <1>4 DEF Broken, TransactFail, Spent
  <2>4. \A s \in Callers : stage'[s] \in Under => Cardinality(Lost') + budget'[s] >= Retries
    <3>1. ASSUME NEW s \in Callers \ {r}, stage'[s] \in Under
          PROVE  Cardinality(Lost') + budget'[s] >= Retries
      <4>1. stage'[s] = stage[s] /\ budget'[s] = budget[s]
        BY <1>0, <2>2
      <4> QED
        BY <1>0, <1>2, <3>1, <4>1 DEF Spent
    <3>2. ASSUME stage'[r] \in Under PROVE Cardinality(Lost') + budget'[r] >= Retries
      BY <1>0, <1>2, <2>1, <2>2, <2>3, <3>2
    <3> QED
      BY <3>1, <3>2
  <2>5. \A s \in Callers : GivenUp(s) => s = r /\ budget[r] = 0
    BY <1>0, <2>2
  <2>6. budget[r] = 0 => Cardinality(gone') > Retries
    <3>1. Cardinality(Lost') <= Cardinality(gone') /\ Cardinality(gone') \in Nat
      BY <1>2, FS_Subset, FS_CardinalityType DEF Lost
    <3> QED
      BY <1>0, <1>2, <2>1, <2>3, <3>1
  <2> QED
    BY <1>1, <2>4, <2>5, <2>6 DEF Spent, Retries
<1>5. ASSUME NEW r \in Callers, ClientRead(r)
      PROVE  \A s \in Callers : /\ ~GivenUp(s)
                                /\ stage'[s] \in Under =>
                                     budget'[s] = Retries \/ (stage[s] \in Under /\ budget'[s] = budget[s])
  <2>1. stage' = [stage EXCEPT ![r] = "conn"] /\ budget' = [budget EXCEPT ![r] = Retries]
    BY <1>5, Zenon DEF ClientRead
  <2>2. \A s \in Callers \ {r} : stage'[s] = stage[s] /\ budget'[s] = budget[s]
    BY <1>0, <2>1
  <2>3. stage'[r] = "conn" /\ budget'[r] = Retries
    BY <1>0, <2>1
  <2> QED
    BY <2>2, <2>3
<1>6. ASSUME NEW r \in Callers, Proceed(r), ~Broken(r)
      PROVE  \A s \in Callers : /\ GivenUp(s) => outage /\ stage[s] = "conn"
                                /\ stage'[s] \in Under => stage[s] \in Under /\ budget'[s] = budget[s]
  <2>1. UNCHANGED budget
    BY <1>6, Zenon DEF Proceed, ConnStep, ConnAnswer, ConnError, Write, ReadHeader, ReadBody, ClientWrite,
                proxyVars, handleVars
  <2>2. \/ UNCHANGED stage
        \/ stage[r] \in Under /\ \E p \in {"write", "header", "body", "reply"} :
             stage' = [stage EXCEPT ![r] = p]
        \/ outage /\ stage[r] = "conn" /\ stage' = [stage EXCEPT ![r] = "client"]
        \/ stage[r] = "reply" /\ stage' = [stage EXCEPT ![r] = "client"]
    BY <1>6 DEF Proceed, ConnStep, ConnAnswer, ConnError, Write, ReadHeader, ReadBody, ClientWrite,
                proxyVars, handleVars
  <2> QED
    BY <1>0, <2>1, <2>2
<1>7. ASSUME UNCHANGED <<stage, budget>>
      PROVE  \A s \in Callers : /\ ~GivenUp(s)
                                /\ stage'[s] \in Under => stage[s] \in Under /\ budget'[s] = budget[s]
  BY <1>7
<1>8. ASSUME \/ \E c \in Conns : ServerDrop(c) \/ Answer(c)
             \/ OutageBegins \/ OutageEnds \/ Housekeeping \/ UNCHANGED everything
      PROVE  UNCHANGED <<stage, budget>>
  BY <1>8 DEF ServerDrop, Answer, UpstreamAnswer, OutageBegins, OutageEnds, Close, Housekeeping,
              everything, allVars, proxyVars, handleVars
<1>9. CASE \E r \in Callers : Broken(r)
  BY <1>4, <1>9
<1>10. CASE ~\E r \in Callers : Broken(r)
  <2>1. ASSUME NEW r \in Callers, ClientRead(r) \/ Proceed(r)
        PROVE  \A s \in Callers :
                 /\ GivenUp(s) => outage /\ stage[s] = "conn"
                 /\ stage'[s] \in Under =>
                      budget'[s] = Retries \/ (stage[s] \in Under /\ budget'[s] = budget[s])
    BY <1>5, <1>6, <1>10, <2>1, Zenon
  <2>2. UNCHANGED <<stage, budget>> \/ \E r \in Callers : ClientRead(r) \/ Proceed(r)
    BY <1>8, Zenon DEF RestartNext
  <2>3. \A s \in Callers :
          /\ GivenUp(s) => outage /\ stage[s] = "conn"
          /\ stage'[s] \in Under =>
               budget'[s] = Retries \/ (stage[s] \in Under /\ budget'[s] = budget[s])
    BY <1>7, <2>1, <2>2, Zenon
  <2> QED
    BY <1>3, <2>3, Zenon
<1> QED
  BY <1>9, <1>10

\* While the upstream server restarts or drops connections, proxyUpstream gives a
\* request up only when Conn() fails during an outage or when more connections
\* have failed or been closed than it has retries: each retry is spent on a
\* connection that no request has lost before, for any number of handlers,
\* connections and retries.
THEOREM GivesUpOnlyOutnumbered == RestartSpec => GivesUpOutnumbered
<1>1. RestartInit => Spent
  <2> SUFFICES ASSUME RestartInit PROVE Spent
    OBVIOUS
  <2>1. Opened = {}
    BY DEF RestartInit, ProxyInit, Init, Opened
  <2> QED
    BY <2>1, FS_EmptySet DEF RestartInit, ProxyInit, Spent
<1>2. IInv /\ Handlers /\ Spent /\ [RestartNext]_everything
        => /\ Spent'
           /\ [\A r \in Callers :
                 stage[r] \notin {"client", "reply"} /\ stage'[r] = "client" =>
                   (outage /\ stage[r] = "conn") \/ Cardinality(gone') > Retries]_everything
  BY SpentStep
<1> QED
  BY <1>1, <1>2, RestartBothKept, PTL DEF RestartSpec, GivesUpOutnumbered
=============================================================================
