--------------------------- MODULE DNSProxyProofs ---------------------------
(***************************************************************************)
(* For any number of handlers, connections and requests and any budget of  *)
(* retries: the handlers use the pool as it is specified, what is read and *)
(* written keeps its type, and a request uses no more connections than it  *)
(* is allowed.  The last part says which connections must carry nothing;   *)
(* ResponseProofs rests on it.                                             *)
(***************************************************************************)
EXTENDS DNSProxy, ConnPoolProofs

-----------------------------------------------------------------------------
(* The pool below the handlers.                                            *)

\* What the handlers do with the pool, the pool allows: its invariant holds.
LEMMA PoolStep == ProxyNext => [Next]_vars
<1>1. ASSUME NEW r \in Callers,
             ClientRead(r) \/ ClientReadFail(r) \/ Write(r) \/ ReadHeader(r) \/ ClientWrite(r)
      PROVE UNCHANGED vars
  BY <1>1 DEF ClientRead, ClientReadFail, Write, ReadHeader, ClientWrite
<1>2. ASSUME NEW r \in Callers, ConnStep(r) \/ ConnAnswer(r) \/ ConnError(r) PROVE Next
  BY <1>2, Zenon DEF ConnStep, ConnAnswer, ConnError, Call, Next
<1>3. ASSUME NEW r \in Callers, ReadBody(r) \/ TransactFail(r) PROVE Next
  BY <1>3, Zenon DEF ReadBody, TransactFail, Next
<1>4. ASSUME NEW c \in Conns, UpstreamAnswer(c) PROVE UNCHANGED vars
  BY <1>4 DEF UpstreamAnswer
<1>5. ASSUME Background \/ Pass PROVE Next
  BY <1>5, Zenon DEF Next
<1> QED
  BY <1>1, <1>2, <1>3, <1>4, <1>5 DEF ProxyNext, Handling

\* The handlers of dns_proxy.go use the pool as its specification allows callers
\* to: all that is proved of PersistentConnPool holds below the proxy.
THEOREM RefinesPool == ProxySpec => Spec
<1>1. ProxyInit => Init
  BY DEF ProxyInit
<1>2. UNCHANGED allVars => UNCHANGED vars
  BY DEF allVars
<1>3. [ProxyNext]_allVars => [Next]_vars
  BY <1>2, PoolStep
<1> QED
  BY <1>1, <1>3, PTL DEF ProxySpec, Spec

\* What the handlers' state is made of, and where in the pool's Conn() each is:
\* it has a connection to use exactly while it exchanges messages.
Handlers ==
  /\ stage \in [Callers -> {"client", "conn", "write", "header", "body", "reply"}]
  /\ budget \in [Callers -> Nat] /\ tries \in [Callers -> Nat]
  /\ req = [r \in Callers |-> req[r]] /\ resp = [r \in Callers |-> resp[r]]
  /\ pending = [c \in Conns |-> pending[c]] /\ cut = [c \in Conns |-> cut[c]]
  /\ inbox = [c \in Conns |-> inbox[c]]
  /\ \A r \in Callers :
       /\ stage[r] \in {"write", "header", "body"} <=> pc[r] = "hold"
       /\ stage[r] \in {"client", "reply"} => pc[r] = "idle"

\* The default applies to a number of retries that is not positive.
LEMMA RetriesType == Retries \in Nat \ {0}
  BY ProxyAssumption DEF Retries

\* Every step keeps it.
LEMMA HandlersStep == IInv /\ Handlers /\ [ProxyNext]_allVars => Handlers'
<1> SUFFICES ASSUME IInv, Handlers, [ProxyNext]_allVars PROVE Handlers'
  OBVIOUS
<1>0. pc \in [Callers -> {"idle", "popped", "dial", "hold"}]
  BY DEF IInv, TypeOK
<1>1. ASSUME NEW r \in Callers, ClientRead(r) PROVE Handlers'
  <2>1. UNCHANGED pc
    BY <1>1 DEF ClientRead, vars, callVars
  <2>2. req' = [s \in Callers |-> req'[s]]
    BY <1>1, Zenon DEF ClientRead, Handlers
  <2> QED
    BY <1>0, <1>1, <2>1, <2>2, RetriesType DEF ClientRead, wireVars, Handlers
<1>2. ASSUME NEW r \in Callers, ClientReadFail(r) PROVE Handlers'
  BY <1>2 DEF ClientReadFail, vars, callVars, proxyVars, handleVars, wireVars, Handlers
<1>3. ASSUME NEW r \in Callers, ConnStep(r) PROVE Handlers'
  <2>1. stage[r] = "conn" /\ \E p \in {"popped", "dial"} : pc' = [pc EXCEPT ![r] = p]
    BY <1>3 DEF ConnStep, ConnPop, ConnPopEmpty, ConnStale
  <2>2. UNCHANGED proxyVars
    BY <1>3 DEF ConnStep
  <2> QED
    BY <1>0, <2>1, <2>2 DEF proxyVars, handleVars, wireVars, Handlers
<1>4. ASSUME NEW r \in Callers, ConnAnswer(r) PROVE Handlers'
  <2>1. pc' = [pc EXCEPT ![r] = "hold"]
    BY <1>4 DEF ConnAnswer, ConnReuse, ConnDial
  <2> QED
    BY <1>0, <1>4, <2>1 DEF ConnAnswer, wireVars, Handlers
<1>5. ASSUME NEW r \in Callers, ConnError(r) PROVE Handlers'
  <2>1. pc' = [pc EXCEPT ![r] = "idle"]
    BY <1>5 DEF ConnError, ConnDialFail
  <2> QED
    BY <1>0, <1>5, <2>1 DEF ConnError, wireVars, Handlers
<1>6. ASSUME NEW r \in Callers, Write(r) \/ ReadHeader(r) PROVE Handlers'
  <2>1. UNCHANGED pc
    BY <1>6 DEF Write, ReadHeader, vars, callVars
  <2>2. CASE Write(r)
    <3>1. pending' = [c \in Conns |-> pending'[c]] /\ cut' = [c \in Conns |-> cut'[c]]
      BY <2>2, Zenon DEF Write, Handlers
    <3>2. /\ stage[r] = "write" /\ stage' = [stage EXCEPT ![r] = "header"]
          /\ UNCHANGED <<req, budget, resp, tries, inbox>>
      BY <2>2, Zenon DEF Write
    <3> QED
      BY <1>0, <2>1, <3>1, <3>2, SMTT(30) DEF Handlers
  <2>3. CASE ReadHeader(r)
    BY <1>0, <2>1, <2>3, SMTT(30) DEF ReadHeader, wireVars, Handlers
  <2> QED
    BY <1>6, <2>2, <2>3
<1>7. ASSUME NEW r \in Callers, ReadBody(r) PROVE Handlers'
  <2>1. pc' = [pc EXCEPT ![r] = "idle"]
    BY <1>7 DEF ReadBody, Finish
  <2> QED
    BY <1>0, <1>7, <2>1, Zenon DEF ReadBody, Handlers
<1>8. ASSUME NEW r \in Callers, TransactFail(r) PROVE Handlers'
  <2>1. pc' = [pc EXCEPT ![r] = "idle"]
    BY <1>8 DEF TransactFail, Finish
  <2>2. budget' \in [Callers -> Nat]
    BY <1>8 DEF TransactFail, Handlers
  <2>3. \E s \in {"conn", "client"} : stage' = [stage EXCEPT ![r] = s]
    BY <1>8 DEF TransactFail
  <2> QED
    BY <1>0, <1>8, <2>1, <2>2, <2>3 DEF TransactFail, wireVars, Handlers
<1>9. ASSUME NEW r \in Callers, ClientWrite(r) PROVE Handlers'
  <2>1. UNCHANGED pc
    BY <1>9 DEF ClientWrite, vars, callVars
  <2> QED
    BY <1>0, <1>9, <2>1 DEF ClientWrite, wireVars, Handlers
<1>10. ASSUME NEW c \in Conns, UpstreamAnswer(c) PROVE Handlers'
  <2>1. UNCHANGED <<pc, handleVars>>
    BY <1>10 DEF UpstreamAnswer, vars, callVars
  <2> QED
    BY <1>10, <2>1, Zenon DEF UpstreamAnswer, handleVars, Handlers
<1>11. ASSUME Background \/ Pass, UNCHANGED proxyVars PROVE Handlers'
  <2>1. UNCHANGED pc
    BY <1>11 DEF Background, Fill, FillDial, FillDialFail, FillPush, RunClose, RunDestroy,
                 RunDying, Pass, callVars
  <2> QED
    BY <1>11, <2>1 DEF proxyVars, handleVars, wireVars, Handlers
<1>12. CASE UNCHANGED allVars
  BY <1>12 DEF allVars, vars, callVars, proxyVars, handleVars, wireVars, Handlers
<1> QED
  BY <1>1, <1>2, <1>3, <1>4, <1>5, <1>6, <1>7, <1>8, <1>9, <1>10, <1>11, <1>12
  DEF ProxyNext, Handling

\* The pool's invariant and the handlers' hold throughout.
LEMMA BothKept == ProxySpec => [](IInv /\ Handlers)
<1>1. ProxyInit => IInv /\ Handlers
  <2>1. ProxyInit => IInv
    BY InitInv DEF ProxyInit
  <2>2. ProxyInit => Handlers
    BY DEF ProxyInit, Init, Handlers
  <2> QED
    BY <2>1, <2>2
<1>2. IInv /\ [ProxyNext]_allVars => IInv'
  <2>1. [ProxyNext]_allVars => [Next]_vars
    BY PoolStep DEF allVars
  <2> QED
    BY <2>1, StepInv
<1> QED
  BY <1>1, <1>2, HandlersStep, PTL DEF ProxySpec

-----------------------------------------------------------------------------
(* What is read and written.                                               *)

\* A response as the upstream server sends it: behind one length header.
Answered == [id : Nat, part : Nat, headers : {1}]

\* The requests, and the messages on the connections. A handler that has seen
\* the header of a response finds the response there.
Messages ==
  /\ issued \in Nat
  /\ req \in [Callers -> Request]
  /\ resp \in [Callers -> Message]
  /\ pending \in [Conns -> SUBSET Message]
  /\ cut \in [Conns -> Nat]
  /\ inbox \in [Conns -> Seq(Answered)]
  /\ \A r \in Callers : stage[r] = "body" => inbox[hand[r]] # <<>>

\* A connection a handler exchanges messages on is its own.
LEMMA OwnConnection ==
  ASSUME IInv, Handlers, NEW r \in Callers, stage[r] \in {"write", "header", "body"}
  PROVE  /\ hand[r] \in Conns
         /\ \A s \in Callers \ {r} : stage[s] \in {"write", "header", "body"} => hand[s] # hand[r]
<1>1. \A s \in Callers : stage[s] \in {"write", "header", "body"} => hand[s] # NoConn
  BY DEF Handlers, IInv, Coupled
<1>2. hand[r] \in Conns
  BY <1>1 DEF IInv, TypeOK
<1> QED
  BY <1>1, <1>2 DEF IInv, Owned, Exclusive

\* Where a step changes no message, no handler gets to see a header, and none
\* that has seen one changes its connection.
LEMMA MessagesFrame ==
  ASSUME Messages, UNCHANGED <<issued, req, resp, wireVars>>,
         \A r \in Callers : stage'[r] = "body" => stage[r] = "body" /\ hand'[r] = hand[r]
  PROVE  Messages'
  BY DEF Messages, wireVars

\* What the upstream server makes of a request are messages, and the name of the
\* request it has in part.
LEMMA ArrivesType ==
  ASSUME NEW q \in Request, NEW d \in Nat, NEW a \in Arrives(q, d)
  PROVE  a.queries \subseteq Message /\ a.cut \in Nat
<1>1. q.id \in Nat /\ q.size \in Nat /\ q.headers \in Nat
  BY DEF Request
<1>2. Queries(q) \subseteq Message
  BY <1>1 DEF Queries, Message
<1>3. Spliced(d) \in Message
  BY DEF Spliced, Message
<1>4. CASE d = 0
  <2>1. a = [queries |-> Queries(q), cut |-> IF q.size % 2 = 1 THEN q.id ELSE 0]
    BY <1>4, Zenon DEF Arrives
  <2> QED
    BY <1>1, <1>2, <2>1
<1>5. CASE d # 0
  <2>1. a = [queries |-> {}, cut |-> d] \/ a \in [queries : {{Spliced(d)}}, cut : {0, q.id}]
    BY <1>5, Zenon DEF Arrives
  <2> QED
    BY <1>1, <1>3, <2>1
<1> QED
  BY <1>4, <1>5

\* Every step keeps it.
LEMMA MessagesStep == IInv /\ Handlers /\ Messages /\ [ProxyNext]_allVars => Messages'
<1> SUFFICES ASSUME IInv, Handlers, Messages, [ProxyNext]_allVars PROVE Messages'
  OBVIOUS
<1>0. /\ stage \in [Callers -> {"client", "conn", "write", "header", "body", "reply"}]
      /\ hand \in [Callers -> Conns \cup {NoConn}]
  BY DEF Handlers, IInv, TypeOK
<1>1. ASSUME NEW r \in Callers, ClientRead(r) PROVE Messages'
  <2>1. PICK q \in Received(r) : req' = [req EXCEPT ![r] =
               [id |-> issued', size |-> q.size, headers |-> AddHeader(r, q.headers)]]
    BY <1>1, Zenon DEF ClientRead
  <2>2. q.size \in Nat /\ AddHeader(r, q.headers) \in Nat
    <3>1. CASE r \in UDPHandlers
      BY <3>1 DEF Received, AddHeader
    <3>2. CASE r \notin UDPHandlers
      <4>1. q \in [size : ReadSizes, headers : {1}]
        BY <3>2, Zenon DEF Received
      <4>2. q.size \in ReadSizes /\ q.headers = 1
        BY <4>1
      <4>3. q.size \in Nat
        BY <4>2, ProxyAssumption
      <4>4. AddHeader(r, q.headers) = 1
        BY <3>2, <4>2, Zenon DEF AddHeader
      <4> QED
        BY <4>3, <4>4
    <3> QED
      BY <3>1, <3>2
  <2>3. issued' \in Nat
    BY <1>1 DEF ClientRead, Messages
  <2>4. req' \in [Callers -> Request]
    BY <2>1, <2>2, <2>3 DEF Messages, Request
  <2>5. UNCHANGED <<hand, resp, pending, cut, inbox>> /\ stage' = [stage EXCEPT ![r] = "conn"]
    BY <1>1 DEF ClientRead, vars, callVars, wireVars
  <2> QED
    BY <1>0, <2>3, <2>4, <2>5 DEF Messages
<1>2. ASSUME NEW r \in Callers, ConnStep(r) \/ ConnAnswer(r) \/ ConnError(r) PROVE Messages'
  <2>1. UNCHANGED <<issued, req, resp, wireVars>>
    BY <1>2 DEF ConnStep, ConnAnswer, ConnError, proxyVars, handleVars
  <2>2. stage[r] = "conn" /\ \E p \in {"conn", "write", "client"} : stage' = [stage EXCEPT ![r] = p]
    BY <1>0, <1>2 DEF ConnStep, ConnAnswer, ConnError, proxyVars, handleVars
  <2>3. \A s \in Callers \ {r} : hand'[s] = hand[s]
    BY <1>0, <1>2 DEF ConnStep, ConnAnswer, ConnError, ConnPop, ConnPopEmpty, ConnStale,
                      ConnReuse, ConnDial, ConnDialFail
  <2> QED
    BY <1>0, <2>1, <2>2, <2>3, MessagesFrame
<1>3. ASSUME NEW r \in Callers, Write(r) PROVE Messages'
  <2>1. hand[r] \in Conns
    BY <1>3, OwnConnection DEF Write
  <2>2. PICK a \in Arrives(req[r], cut[hand[r]]) :
          /\ pending' = [pending EXCEPT ![hand[r]] = @ \cup a.queries]
          /\ cut' = [cut EXCEPT ![hand[r]] = a.cut]
    BY <1>3, Zenon DEF Write
  <2>a. a.queries \subseteq Message /\ a.cut \in Nat
    BY <2>1, ArrivesType DEF Messages
  <2>3. pending' \in [Conns -> SUBSET Message] /\ cut' \in [Conns -> Nat]
    BY <2>1, <2>2, <2>a DEF Messages
  <2>4. UNCHANGED <<hand, issued, req, resp, inbox>> /\ stage' = [stage EXCEPT ![r] = "header"]
    BY <1>3 DEF Write, vars, callVars
  <2> QED
    BY <1>0, <2>3, <2>4 DEF Messages
<1>4. ASSUME NEW r \in Callers, ReadHeader(r) PROVE Messages'
  <2>1. /\ UNCHANGED <<hand, issued, req, resp, pending, cut, inbox>>
        /\ stage' = [stage EXCEPT ![r] = "body"] /\ inbox[hand[r]] # <<>>
    BY <1>4 DEF ReadHeader, vars, callVars, wireVars
  <2> QED
    BY <1>0, <2>1 DEF Messages
<1>5. ASSUME NEW r \in Callers, ReadBody(r) PROVE Messages'
  <2>1. hand[r] \in Conns /\ \A s \in Callers \ {r} : stage[s] = "body" => hand[s] # hand[r]
    BY <1>5, OwnConnection DEF ReadBody
  <2>2. PICK q \in Seq(Answered) : q = inbox[hand[r]] /\ q # <<>>
    BY <1>5, <2>1 DEF ReadBody, Messages
  <2>3. PICK m \in Answered : m = Head(q)
    BY <2>2
  <2>4. resp' = [resp EXCEPT ![r] = [m EXCEPT !.headers = DropHeader(r, @)]]
    BY <1>5, <2>2, <2>3, Zenon DEF ReadBody
  <2>5. [m EXCEPT !.headers = DropHeader(r, @)] \in Message
    BY DEF Answered, DropHeader, Message
  <2>6. resp' \in [Callers -> Message]
    BY <2>4, <2>5 DEF Messages
  <2>7. Tail(q) \in Seq(Answered) /\ inbox' = [inbox EXCEPT ![hand[r]] = Tail(q)]
    BY <1>5, <2>2 DEF ReadBody
  <2>8. inbox' \in [Conns -> Seq(Answered)] /\ \A c \in Conns \ {hand[r]} : inbox'[c] = inbox[c]
    BY <2>1, <2>7 DEF Messages
  <2>9. /\ UNCHANGED <<issued, req, pending, cut>> /\ hand' = [hand EXCEPT ![r] = NoConn]
        /\ stage' = [stage EXCEPT ![r] = "reply"]
    BY <1>5 DEF ReadBody, Finish
  <2>10. \A s \in Callers : stage'[s] = "body" => inbox'[hand'[s]] # <<>>
    <3>1. ASSUME NEW s \in Callers, stage'[s] = "body" PROVE inbox'[hand'[s]] # <<>>
      <4>1. s # r /\ stage[s] = "body" /\ hand'[s] = hand[s]
        BY <1>0, <2>9, <3>1
      <4>2. hand[s] \in Conns \ {hand[r]}
        BY <2>1, <4>1, OwnConnection
      <4> QED
        BY <2>8, <4>1, <4>2 DEF Messages
    <3> QED
      BY <3>1
  <2> QED
    BY <2>6, <2>8, <2>9, <2>10 DEF Messages
<1>6. ASSUME NEW r \in Callers, TransactFail(r) \/ ClientWrite(r) PROVE Messages'
  <2>1. UNCHANGED <<issued, req, resp, wireVars>>
    BY <1>6 DEF TransactFail, ClientWrite
  <2>2. \E p \in {"conn", "client"} : stage' = [stage EXCEPT ![r] = p]
    BY <1>6, Zenon DEF TransactFail, ClientWrite
  <2>3. \A s \in Callers \ {r} : hand'[s] = hand[s]
    BY <1>0, <1>6 DEF TransactFail, Finish, ClientWrite, vars, callVars
  <2> QED
    BY <1>0, <2>1, <2>2, <2>3, MessagesFrame
<1>7. ASSUME NEW c \in Conns, UpstreamAnswer(c) PROVE Messages'
  <2>1. PICK q \in pending[c] : /\ q.headers = 1
                                /\ pending' = [pending EXCEPT ![c] = @ \ {q}]
                                /\ inbox' = [inbox EXCEPT ![c] = Append(@, q)]
    BY <1>7, Zenon DEF UpstreamAnswer
  <2>2. q \in Answered
    BY <2>1 DEF Messages, Message, Answered
  <2>3. pending' \in [Conns -> SUBSET Message]
    BY <2>1 DEF Messages
  <2>4. PICK i \in Seq(Answered) : i = inbox[c]
    BY DEF Messages
  <2>5. Append(i, q) \in Seq(Answered) /\ Append(i, q) # <<>>
    <3>1. Append(i, q) \in Seq(Answered)
      BY <2>2
    <3>2. Len(i) \in Nat /\ Len(Append(i, q)) = Len(i) + 1
      BY <2>2
    <3> QED
      BY <3>1, <3>2
  <2>6. inbox' = [inbox EXCEPT ![c] = Append(i, q)]
    BY <2>1, <2>4, Zenon
  <2>7. inbox' \in [Conns -> Seq(Answered)]
    BY <2>5, <2>6 DEF Messages
  <2>8. UNCHANGED <<hand, stage, issued, req, resp, cut>>
    BY <1>7 DEF UpstreamAnswer, vars, callVars, handleVars
  <2>9. \A s \in Callers : stage'[s] = "body" => inbox'[hand'[s]] # <<>>
    <3>1. ASSUME NEW s \in Callers, stage[s] = "body" PROVE inbox'[hand[s]] # <<>>
      <4>1. hand[s] \in Conns /\ inbox[hand[s]] # <<>>
        BY <3>1, OwnConnection DEF Messages
      <4> QED
        BY <2>5, <2>6, <4>1 DEF Messages
    <3> QED
      BY <2>8, <3>1
  <2> QED
    BY <2>3, <2>7, <2>8, <2>9 DEF Messages
<1>8. ASSUME Background \/ Pass, UNCHANGED proxyVars PROVE Messages'
  <2>1. UNCHANGED hand
    BY <1>8 DEF Background, Fill, FillDial, FillDialFail, FillPush, RunClose, RunDestroy,
                RunDying, Pass, callVars
  <2> QED
    BY <1>8, <2>1, MessagesFrame DEF proxyVars, handleVars
<1>9. CASE UNCHANGED <<vars, proxyVars>>
  BY <1>9, MessagesFrame DEF vars, callVars, proxyVars, handleVars
<1> QED
  BY <1>1, <1>2, <1>3, <1>4, <1>5, <1>6, <1>7, <1>8, <1>9
  DEF ProxyNext, Handling, ClientReadFail, allVars

\* Every variable of the handlers and of the pool under them keeps its type. In
\* particular proxyUpstream takes the length header off a response only where
\* there is one, and reads a response's body only where its header was.
THEOREM TypesKept == ProxySpec => []ProxyTypeOK
<1>1. ProxyInit => Messages
  <2> SUFFICES ASSUME ProxyInit PROVE Messages
    OBVIOUS
  <2>1. NoRequest \in Request /\ NoMessage \in Message /\ <<>> \in Seq(Answered)
    BY DEF NoRequest, Request, NoMessage, Message
  <2> QED
    BY <2>1 DEF ProxyInit, Messages
<1>2. IInv /\ Handlers /\ Messages => ProxyTypeOK
  <2> SUFFICES ASSUME IInv, Handlers, Messages PROVE ProxyTypeOK
    OBVIOUS
  <2>1. Answered \subseteq Message
    BY DEF Answered, Message
  <2>2. inbox \in [Conns -> Seq(Message)]
    <3>1. \A q \in Seq(Answered) : q \in Seq(Message)
      BY <2>1
    <3> QED
      BY <3>1 DEF Messages
  <2> QED
    BY <2>2 DEF IInv, Handlers, Messages, ProxyTypeOK
<1> QED
  BY <1>1, <1>2, BothKept, MessagesStep, PTL DEF ProxySpec

-----------------------------------------------------------------------------
(* Retries.                                                                *)

\* RetryBound, and the count while Upstream.Conn() is under way.
Counted ==
  /\ RetryBound
  /\ \A r \in Callers : stage[r] = "conn" => tries[r] + budget[r] = Retries

\* The steps that change neither stage, budget nor tries, or only go from one
\* stage of the exchange to the next, keep the count.
LEMMA CountFrame ==
  ASSUME Handlers, Counted, UNCHANGED <<budget, tries>>, NEW r \in Callers,
         NEW s \in {"client", "header", "body", "reply"}, stage' = [stage EXCEPT ![r] = s],
         s \in {"header", "body"} => stage[r] \in {"write", "header"}
  PROVE  Counted'
  BY DEF Handlers, Counted, RetryBound

\* Every step keeps the count.
LEMMA CountedStep == Handlers /\ Counted /\ [ProxyNext]_allVars => Counted'
<1> SUFFICES ASSUME Handlers, Counted, [ProxyNext]_allVars PROVE Counted'
  OBVIOUS
<1> USE RetriesType
<1>1. ASSUME NEW r \in Callers, ClientRead(r) PROVE Counted'
  BY <1>1 DEF ClientRead, Handlers, Counted, RetryBound
<1>2. ASSUME NEW r \in Callers, ConnAnswer(r) PROVE Counted'
  BY <1>2 DEF ConnAnswer, Handlers, Counted, RetryBound
<1>3. ASSUME NEW r \in Callers,
             ConnError(r) \/ Write(r) \/ ReadHeader(r) \/ ReadBody(r) \/ ClientWrite(r)
      PROVE Counted'
  BY <1>3, CountFrame, Zenon DEF ConnError, Write, ReadHeader, ReadBody, ClientWrite
<1>4. ASSUME NEW r \in Callers, TransactFail(r) PROVE Counted'
  <2>1. CASE budget[r] > 0
    BY <1>4, <2>1, SMTT(30) DEF TransactFail, Handlers, Counted, RetryBound
  <2>2. CASE budget[r] <= 0
    BY <1>4, <2>2, CountFrame DEF TransactFail, Handlers
  <2> QED
    BY <2>1, <2>2 DEF Handlers
<1>5. ASSUME UNCHANGED handleVars PROVE Counted'
  BY <1>5 DEF handleVars, Counted, RetryBound
<1>6. ASSUME NEW r \in Callers, ClientReadFail(r) \/ ConnStep(r) PROVE UNCHANGED handleVars
  BY <1>6 DEF ClientReadFail, ConnStep, proxyVars
<1>7. ASSUME NEW c \in Conns, UpstreamAnswer(c) PROVE UNCHANGED handleVars
  BY <1>7 DEF UpstreamAnswer
<1>8. (UNCHANGED proxyVars) \/ (UNCHANGED allVars) => UNCHANGED handleVars
  BY DEF allVars, proxyVars
<1> QED
  BY <1>1, <1>2, <1>3, <1>4, <1>5, <1>6, <1>7, <1>8 DEF ProxyNext, Handling

\* proxyUpstream uses at most one connection more than MaxUpstreamRetries (or
\* the default of 16) for a request, however its exchanges fail, and counts them
\* down exactly.
THEOREM RetriesBounded == ProxySpec => []RetryBound
<1>1. ProxyInit => Counted
  BY RetriesType DEF ProxyInit, Counted, RetryBound
<1>2. Counted => RetryBound
  BY DEF Counted
<1> QED
  BY <1>1, <1>2, BothKept, CountedStep, PTL DEF ProxySpec

-----------------------------------------------------------------------------
(* What is on the wire.                                                    *)

\* Connections on their way back to the pool.
Returning == {k.conn : k \in {j \in closers : ~j.destroyed}}

\* Connections of handlers that have written nothing on them.
Unused == {hand[r] : r \in {s \in Callers : stage[s] \in {"conn", "write"}}} \ {NoConn}

\* The connections that must be quiet.
Clean == Queued \cup Filling \cup Fresh \cup Returning \cup Unused

\* A connection a handler has is with no other, nor with the pool.
LEMMA HeldApart ==
  ASSUME IInv, NEW r \in Callers, hand[r] # NoConn
  PROVE  /\ hand[r] \in Conns /\ hand[r] \notin Queued \cup Filling \cup Fresh \cup Returning
         /\ \A s \in Callers \ {r} : hand[s] # hand[r]
<1>1. hand[r] \in Conns /\ hand[r] \in Held
  BY DEF IInv, TypeOK, Held
<1>2. hand[r] \notin Queued \cup Filling \cup Closing /\ hand[r] \in Open
  BY <1>1 DEF IInv, Owned, Exclusive, UsableIsOpen
<1>3. hand[r] \notin Fresh
  BY <1>2 DEF Open, Fresh
<1>4. hand[r] \notin Returning
  BY <1>2 DEF Returning, Closing
<1> QED
  BY <1>1, <1>2, <1>3, <1>4 DEF IInv, Owned, Exclusive

\* One in use need not be quiet, and is not on its way back.
LEMMA UsedIsNotClean ==
  ASSUME IInv, Handlers, NEW r \in Callers, stage[r] \in {"header", "body"}
  PROVE  hand[r] \in Conns /\ hand[r] \notin Clean
<1>1. hand[r] # NoConn
  BY DEF Handlers, IInv, Coupled
<1> QED
  BY <1>1, HeldApart DEF Clean, Unused

\* The pool's own steps bring no connection among the clean ones that was not.
LEMMA BackgroundClean ==
  ASSUME IInv, Background \/ Pass, UNCHANGED stage
  PROVE  Clean' \subseteq Clean
<1> USE DEF Clean, Conns
<1>0. UNCHANGED callVars
  BY DEF Background, Fill, FillDial, FillDialFail, FillPush, RunClose, RunDestroy, RunDying, Pass
<1>1. Unused' = Unused
  BY <1>0 DEF Unused, callVars
<1>2. CASE FillDial
  <2>1. PICK c \in Conns : DialOk(c) /\ filling' = c
    BY <1>2 DEF FillDial
  <2>2. c \in Fresh /\ Fresh' \subseteq Fresh /\ Filling' \subseteq {c}
    BY <2>1 DEF DialOk, Fresh, Filling, IInv, TypeOK
  <2>3. Queued' = Queued /\ Returning' = Returning
    BY <1>2 DEF FillDial, Queued, Returning
  <2> QED
    BY <1>1, <2>2, <2>3
<1>3. CASE FillDialFail
  <2>1. Fresh' \subseteq Fresh
    BY <1>3 DEF FillDialFail, DialFail, Fresh, IInv, TypeOK
  <2>2. Queued' = Queued /\ Returning' = Returning /\ Filling' = Filling
    BY <1>3 DEF FillDialFail, Queued, Returning, Filling
  <2> QED
    BY <1>1, <2>1, <2>2
<1>4. CASE FillPush
  <2>1. Queued' \subseteq Queued \cup {filling}
    BY <1>4 DEF FillPush, PutBack, Insert, Refuse, Queued
  <2>2. Fresh' = Fresh /\ Returning' = Returning /\ Filling' = {} /\ filling \in Filling
    BY <1>4 DEF FillPush, Fresh, Returning, Filling
  <2> QED
    BY <1>1, <2>1, <2>2
<1>5. ASSUME NEW k \in closers, RunClose(k) PROVE Clean' \subseteq Clean
  <2>1. Queued' \subseteq Queued \cup {k.conn}
    BY <1>5, SMTT(30) DEF RunClose, PutBack, Insert, Refuse, Queued
  <2>2. Fresh' \subseteq Fresh
    BY <1>5 DEF RunClose, CloseSocket, Fresh, IInv, TypeOK
  <2>3. Returning' \subseteq Returning /\ k.conn \in Returning /\ Filling' = Filling
    BY <1>5 DEF RunClose, Returning, Filling, fillVars
  <2> QED
    BY <1>1, <2>1, <2>2, <2>3
<1>6. ASSUME NEW k \in closers, RunDestroy(k) PROVE Clean' \subseteq Clean
  <2>1. Fresh' \subseteq Fresh
    BY <1>6 DEF RunDestroy, CloseSocket, Fresh, IInv, TypeOK
  <2>2. Returning' \subseteq Returning /\ Queued' = Queued /\ Filling' = Filling
    BY <1>6 DEF RunDestroy, Returning, Queued, Filling, fillVars
  <2> QED
    BY <1>1, <2>1, <2>2
<1>7. ASSUME NEW c \in dying, RunDying(c) PROVE Clean' \subseteq Clean
  <2>1. Fresh' \subseteq Fresh
    BY <1>7 DEF RunDying, CloseSocket, Fresh, IInv, TypeOK
  <2>2. Returning' = Returning /\ Queued' = Queued /\ Filling' = Filling
    BY <1>7 DEF RunDying, Returning, Queued, Filling, fillVars
  <2> QED
    BY <1>1, <2>1, <2>2
<1>8. CASE Pass
  BY <1>1, <1>8 DEF Pass, Fresh, Returning, Queued, Filling, fillVars
<1> QED
  BY <1>2, <1>3, <1>4, <1>5, <1>6, <1>7, <1>8 DEF Background, Fill

\* Nor do a handler's, up to the response: one popped or dialled was clean, and
\* one that is written to or destroyed is clean no more.
LEMMA HandlerClean ==
  ASSUME IInv, Handlers, NEW r \in Callers,
         \/ ClientRead(r) \/ ConnStep(r) \/ ConnAnswer(r) \/ ConnError(r)
         \/ Write(r) \/ ReadHeader(r) \/ TransactFail(r) \/ ClientWrite(r)
  PROVE  Clean' \subseteq Clean
<1> USE DEF Clean, Conns
<1>0. /\ hand \in [Callers -> Conns \cup {NoConn}] /\ sock \in [Conns -> {"fresh", "open", "closed"}]
      /\ stage \in [Callers -> {"client", "conn", "write", "header", "body", "reply"}]
      /\ \A s \in Callers : hand[s] # NoConn <=> pc[s] \in {"popped", "hold"}
      /\ \A s \in Callers : stage[s] \in {"client", "reply"} => hand[s] = NoConn
  BY DEF IInv, TypeOK, Coupled, Handlers
<1> DEFINE Pool == Queued \cup Filling \cup Fresh \cup Returning
<1>1. ASSUME UNCHANGED <<store, filling, sock, closers>> PROVE Pool' = Pool
  BY <1>1 DEF Queued, Filling, Fresh, Returning
<1>2. ASSUME UNCHANGED vars,
             \A s \in Callers : stage'[s] \in {"conn", "write"} /\ hand[s] # NoConn
                                  => stage[s] \in {"conn", "write"}
      PROVE Clean' \subseteq Clean
  <2>1. Pool' = Pool /\ UNCHANGED hand
    BY <1>1, <1>2 DEF vars, callVars, fillVars
  <2>2. Unused' \subseteq Unused
    BY <1>2, <2>1 DEF Unused
  <2> QED
    BY <2>1, <2>2
<1>u. ASSUME \A s \in Callers : stage'[s] \in {"conn", "write"} /\ hand'[s] # NoConn
                                  => stage[s] \in {"conn", "write"} /\ hand'[s] = hand[s]
      PROVE Unused' \subseteq Unused
  BY <1>u, Zenon DEF Unused
<1>3. CASE ClientRead(r)
  <2>1. UNCHANGED vars /\ stage' = [stage EXCEPT ![r] = "conn"] /\ hand[r] = NoConn
    BY <1>0, <1>3, Zenon DEF ClientRead
  <2> QED
    BY <1>0, <1>2, <2>1
<1>4. CASE Write(r) \/ ReadHeader(r) \/ ClientWrite(r)
  <2>1. UNCHANGED vars
    BY <1>4, Zenon DEF Write, ReadHeader, ClientWrite
  <2>2. PICK p \in {"header", "body", "client"} : stage' = [stage EXCEPT ![r] = p]
    BY <1>4, Zenon DEF Write, ReadHeader, ClientWrite
  <2>3. \A s \in Callers : stage'[s] \in {"conn", "write"} => stage[s] \in {"conn", "write"}
    BY <1>0, <2>2
  <2> QED
    BY <1>2, <2>1, <2>3, Zenon
<1>5. CASE ConnStep(r)
  <2>0. UNCHANGED stage /\ stage[r] = "conn"
    BY <1>5 DEF ConnStep, proxyVars, handleVars
  <2>1. CASE ConnPop(r)
    <3>1. PICK x \in store : Pop(x) /\ hand' = [hand EXCEPT ![r] = x.value]
      BY <2>1, Zenon DEF ConnPop
    <3>2. Queued' \subseteq Queued /\ x.value \in Queued
      BY <3>1 DEF Pop, Queued
    <3>3. Filling' = Filling /\ Fresh' = Fresh /\ Returning' = Returning
      BY <2>1 DEF ConnPop, Filling, Fresh, Returning, fillVars
    <3>4. Unused' \subseteq Unused \cup {x.value}
      BY <1>0, <2>0, <3>1, SMTT(30) DEF Unused
    <3> QED
      BY <3>2, <3>3, <3>4
  <2>2. CASE ConnPopEmpty(r)
    <3>1. Pool' = Pool /\ Unused' = Unused
      BY <1>1, <2>0, <2>2, Zenon DEF ConnPopEmpty, fillVars, Unused
    <3> QED
      BY <3>1
  <2>3. CASE ConnStale(r)
    <3>1. Pool' = Pool
      BY <1>1, <2>3 DEF ConnStale, fillVars
    <3>2. Unused' \subseteq Unused
      <4>1. hand' = [hand EXCEPT ![r] = NoConn]
        BY <2>3, Zenon DEF ConnStale
      <4> QED
        BY <1>0, <1>u, <2>0, <4>1, SMTT(30)
    <3> QED
      BY <3>1, <3>2
  <2> QED
    BY <1>5, <2>1, <2>2, <2>3 DEF ConnStep
<1>6. CASE ConnAnswer(r)
  <2>0. stage[r] = "conn" /\ stage' = [stage EXCEPT ![r] = "write"]
    BY <1>6 DEF ConnAnswer
  <2>1. CASE ConnReuse(r)
    <3>1. Pool' = Pool
      BY <1>1, <2>1 DEF ConnReuse, fillVars
    <3>2. /\ UNCHANGED hand
          /\ \A s \in Callers : stage'[s] \in {"conn", "write"} => stage[s] \in {"conn", "write"}
      BY <1>0, <2>0, <2>1 DEF ConnReuse
    <3>3. Unused' \subseteq Unused
      BY <3>2, Zenon DEF Unused
    <3> QED
      BY <3>1, <3>3
  <2>2. CASE ConnDial(r)
    <3>1. PICK c \in Conns : DialOk(c) /\ hand' = [hand EXCEPT ![r] = c]
      BY <2>2, Zenon DEF ConnDial
    <3>2. c \in Fresh /\ Fresh' \subseteq Fresh
      BY <1>0, <3>1 DEF DialOk, Fresh
    <3>3. Queued' = Queued /\ Filling' = Filling /\ Returning' = Returning
      BY <2>2, Zenon DEF ConnDial, Queued, Filling, Returning, fillVars
    <3>4. Unused' \subseteq Unused \cup {c}
      BY <1>0, <2>0, <3>1, Zenon DEF Unused
    <3> QED
      BY <3>2, <3>3, <3>4
  <2> QED
    BY <1>6, <2>1, <2>2 DEF ConnAnswer
<1>7. CASE ConnError(r)
  <2>1. Fresh' \subseteq Fresh
    BY <1>0, <1>7 DEF ConnError, ConnDialFail, DialFail, Fresh
  <2>2. Queued' = Queued /\ Filling' = Filling /\ Returning' = Returning
    BY <1>7, Zenon DEF ConnError, ConnDialFail, Queued, Filling, Returning, fillVars
  <2>3. Unused' \subseteq Unused
    <3>1. UNCHANGED hand /\ stage' = [stage EXCEPT ![r] = "client"]
      BY <1>7, Zenon DEF ConnError, ConnDialFail
    <3> QED
      BY <1>0, <1>u, <3>1, SMTT(30)
  <2> QED
    BY <2>1, <2>2, <2>3
<1>8. CASE TransactFail(r)
  <2>1. closers' = closers \cup {[conn |-> hand[r], destroyed |-> TRUE]}
    BY <1>8 DEF TransactFail, Finish
  <2>2. Returning' = Returning
    <3>1. {k \in closers' : ~k.destroyed} = {k \in closers : ~k.destroyed}
      BY <2>1
    <3> QED
      BY <3>1 DEF Returning
  <2>3. Fresh' = Fresh /\ Queued' = Queued /\ Filling' = Filling
    BY <1>8 DEF TransactFail, Finish, Fresh, Queued, Filling, fillVars
  <2>4. hand' = [hand EXCEPT ![r] = NoConn] /\ \E p \in {"conn", "client"} : stage' = [stage EXCEPT ![r] = p]
    BY <1>8 DEF TransactFail, Finish
  <2>5. Unused' \subseteq Unused
    <3>1. stage[r] \in {"write", "header", "body"}
      BY <1>8 DEF TransactFail
    <3> QED
      BY <1>0, <1>u, <2>4, <3>1, SMTT(30)
  <2> QED
    BY <2>2, <2>3, <2>5
<1> QED
  BY <1>3, <1>4, <1>5, <1>6, <1>7, <1>8
=============================================================================
