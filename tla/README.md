# A TLA+ model of dotproxy

dotproxy is a DNS-over-TLS proxy: it accepts DNS requests over UDP and TCP and
exchanges each with an upstream server over a pooled TLS connection. This
directory holds TLA+ specifications of its parts, from the heap of idle connections
to the process as a whole, TLC configurations that check them on small instances,
and TLAPS proofs of the safety properties for instances of any size. Every
definition is translated from the Go source; `PROJECT.json` maps each to its lines.

## The system

| Part | Source | State | Operations | Model |
|-|-|-|-|-|
| MRU queue | `internal/data/mru.go`, `priority.go` | a heap of items under a mutex | Push, Pop, Size, Empty | `MRUQueue`, `HeapQueue` |
| Connection pool | `internal/network/persistent.go` | the queue, one `PersistentConn` per use | filling goroutine, Conn, put, Close, Destroy | `ConnPool` |
| TLS client | `internal/network/client.go` | pool, success and failure counts | dialer, Conn, Stats | dialer in `ConnPool`, `Deadlines`; counts in `Balancing` |
| DNS proxy handler | `internal/protocol/dns_proxy.go` | per request: bytes, retry budget | Handle, clientRead, proxyUpstream, upstreamTransact, clientWrite, ConsumeError | `DNSProxy`, `ProxyService`, `Restart`; ConsumeError in `Daemon` |
| Servers | `internal/network/server.go` | listeners, workers | UDP and TCP ListenAndServe | `Daemon`; the UDP socket in `Deadlines` |
| Connection wrappers | `internal/network/conn.go` | deadlines, remote address | Read, Write | `Deadlines` |
| Load balancing | `internal/network/sharding.go` | per policy: index, errors, expiries | Conn of five policies | `Availability`, `Balancing` |
| Configuration | `internal/meta/config.go` | none | ParseConfig, validate | `Config`, `Daemon` |
| Metrics | `internal/metrics/hook.go` | a sequence number | Emit... | lifecycle events in `ConnPool`, `Daemon`; sequence number in `Daemon` |
| Logging | `internal/log` | a level | ParseLevel, Enables, log | `Config`, `Daemon` |
| main | `cmd/dotproxy` | none | wiring | `Daemon` |

How they interact: `main` makes one TLS client, with its pool, per upstream
server, and one load-balancing client over them. The servers run one handler per
UDP worker or TCP client. A handler asks the load-balancing client for a
connection, which asks a TLS client, which pops the pool's queue or dials. When
the exchange is over the handler starts a goroutine that puts the connection back
or, after an error, closes it.

What makes it hard to test: connections pass between the queue, requests, and
goroutines that nobody waits for; the pool is filled in the background while it
is in use; upstream servers close idle connections at any time, so exchanges fail
and are retried as a matter of course; times are kept in whole seconds; the
load balancer's state is read and written by all requests at once.

## Modules

**`MRUQueue`** is what the queue promises the pool. Each method runs under the
mutex, so each is one step. `store` is a set of items tagged with the Unix second
of their push; `Insert`, `Refuse` are the two answers of Push, and `Pop` takes any
item with the latest tag. A set suffices because no value is queued twice, which
`ConnPool!Exclusive` establishes. `now` is the wall clock in ticks, `Second` of
them to a second, so that cutting a time to the second loses something. It may be
set back (`SetBack`): the queue does not depend on it. The pool's specification
lets it only move forward.

**`HeapQueue`** is the queue as implemented: the slice that `container/heap` keeps
in order (`Up`, `Down`, external), through `Less` and `Swap` of `priority.go`,
which also keep each item's index. `Up` and `Down` are recursive functions of the
position at which the loop is; the slices they apply to have at least as many items
as that takes (`HeapsOf`), and so every turn of the loop stays in the slice. Its
property `ImplementsQueue` is that it refines `MRUQueue!QSpec`, with `store` the
items in the slice.

**`ConnPool`** extends `MRUQueue`. The actors are the filling goroutine
(`FillDial`, `FillDialFail`, `FillPush`), the callers of Conn() (`ConnPop`,
`ConnPopEmpty`, `ConnReuse`, `ConnStale`, `ConnDial`, `ConnDialFail`), the
goroutines started by `go conn.Close()` and `go conn.Destroy()` on a
`PersistentConn` (`RunClose`, which is put(), and `RunDestroy`) and those that
close a bare connection (`RunDying`). `Finish` is the statement that starts a
closer. A step ends where another goroutine can next see or change shared state:
after a queue operation, a dial or a close. The variables `sock`, `hand`,
`filling`, `closers`, `dying` say where each connection is; `cxOpen` and `cxClose`
count lifecycle events; `idleSince` and `dropped` are history. A dial may fail
before the connection is established or in the TLS handshake, which leaves a
half-open connection to a closing goroutine. A connection is dialled once: the
set `Values` is the supply of connections.

**`DNSProxy`** extends `ConnPool`: each caller is a handler. `ClientRead`,
`ConnStep`, `ConnAnswer`, `ConnError`, `Write`, `ReadHeader`, `ReadBody`,
`TransactFail`, `ClientWrite` are the points of Handle at which it touches the
network or the pool. A connection carries `pending`, the queries the upstream has
not answered, and `inbox`, the responses not read. The upstream answers complete
queries in any order, at any time or never; any read or write can fail, which
covers timeouts, closed connections and short reads, since the handler treats all
of them alike. A message keeps the request it belongs to and how many length
headers it has; contents are abstracted. `ReadSizes` says what one TCP read may
return, in halves of a query: 1 is less than a query, 2 a whole one, 3 one and the
beginning of the next, 4 two that a client sends at once. What is read is written
upstream as it is. `cut` is the request whose last query the upstream has only in
part: it waits for the rest, and takes what is written on that connection next for
it (`Arrives`, external), so that a query can come about that no client sent
(`Spliced`).

**`ProxyService`** is the abstract specification of the handler: a request is
read, then answered by the response to it or given up, then the handler is free
again. `DNSProxy!ImplementsService` is that the proxy refines it, fairness
included; it is checked in `Restart`, which says when exchanges fail.

**`Restart`** extends `DNSProxy` with the upstream server's end of the connections
and its faults: an outage begins, in which the server may close all connections
at once, and ends; or the server drops one idle connection. While there is an
outage dials and exchanges may fail or succeed; otherwise only exchanges over
closed connections fail. `gone` is the connections that are closed at the other
end or have failed. The pool is the whole pool: it is filled in advance, has any
capacity, refuses what is too much, and drops what is stale (`Housekeeping`).

**`Availability`** is `AvailabilityShardedClient`: concurrent calls that scan the
clients one read lock at a time, choose, ask, and on failure set the backoff
timer and start again. Time passes while a call selects (up to `MaxSelect`) and
while it asks (up to `MaxDial`), so a client may be available again, or left out,
by the time a call gets to it. Time is kept as ticks since each client's last error,
which is all the code looks at; beyond `Longest` further ticks change nothing,
so the run needs no bound on time. An expiry is a signed `Duration` that wraps
around when it is doubled too often. `healthy` is chosen at the start: the clients
of `Healthy` never fail, or any may. `overtaken` is history: the clients that have
failed for another call since this one found them eligible.

**`Balancing`** has the other four policies. `RoundRobin` reads the index, asks, and
in a deferred function reads it again and writes it, all without a lock
(`RoundRobinConn`, `ReadIndex`, `StoreIndex`). `HistoricalConnections` reads the
statistics of the candidate and of the best client so far in two steps
(`ReadCandidate`, `Compare`); these count connections only after a goroutine has
run (`late`, `Count`). `Failover` asks one client after the other (`Fail`).
`failed`, `peak`, `lastAsked` and `overlap` are history. `LoadBalanced` bounds how
far one client gets ahead of another by the calls at once plus the connections
provided and not yet counted (`peak`), times `Hops`: the loop compares statistics
read at different times, so a client may be preferred to one that was preferred to
a third on older counts, and the errors add up. Without that factor the bound is
right for few clients and false for many.

**`Deadlines`** is about who sets which deadline on which socket. UDP workers share
one socket and make a `UDPConn` for each request; a TLS connection gets a deadline
for its handshake and then one for each read and write, if a timeout is
configured. `left` is the ticks until each deadline, which a timeout of 0 leaves
as it is; `opts` is any member of `Options`. A TLS connection is read and written
in any order, closed, and dialled anew, which covers the handler's use of it.

**`Config`** is pure: what a configuration file can hold (`Configs`), what `validate`
makes of it, and how names of policies and levels are parsed. A text is a word and
whether it has capitals, which is all these comparisons look at. A sample rate is
below, within or above its range, or not a number, which `validate` accepts.

**`Daemon`** extends `Config` with the process. `ParseConfig`, `ConfigureMetrics`,
`ConfigureUpstreams`, `ConfigureUDP`, `ConfigureTCP` are the stages of `main`;
`Listen` is the start of a listener's goroutine, which may end the process at any
later time; `Receive`, `Accept`, `AcceptFail`, `Processed`, `ConsumeError`, `Close`
are the servers' loops. How Handle comes to its result is `DNSProxy`'s. Each
report is a goroutine (`emitting`) that runs when it likes (`Count`); `EmitProcess`
then adds to the sequence number in a further step (`AddSequence`). `main` is
"refused" when the process ended with an error message, "fault" when it would
dereference nil or take a client from an empty list, "dead" when a listener could
not be bound.

`MC...` modules add symmetry sets and small sets of inputs for TLC; `...Proofs`
modules hold theorems. A definition whose comment begins with *Mutant of* is a
plausible bug, put in place of the definition it names to see that a property
notices.

## Runs

| Run | Checks | Result |
|-|-|-|
| `heap_refines` | heap order, item indices, refinement of `MRUQueue`, with a clock that is set back | holds |
| `pool_safety` | types; one owner per connection; nothing in use is closed; capacity; only the filling goroutine leaks, at most Capacity connections; events in order; no reuse past StaleTimeout | holds |
| `pool_leak` | no open connection is forgotten | violated |
| `proxy_safety` | types; responses answer their own request, framed for the transport; pooled connections carry nothing over; retry budget | holds |
| `proxy_pipelined` | responses answer their own request, when a TCP read may hold more than one query | violated |
| `restart_answers` | refinement of `ProxyService`, liveness included; a request is given up only when dead connections outnumber the retries or none can be had, and answered otherwise | holds |
| `availability_calls` | types; bound of the backoff; no call fails while a client is healthy; a client that is left out serves only calls that found it eligible before it failed; Conn() returns | holds |
| `balancing_safety` | types, the round robin's index in range; rotation; bound of the imbalance under lagging statistics; failover in order | holds |
| `balancing_starved` | a healthy client gets a share when another has failed | violated |
| `deadlines_safety` | types; no read or write is cut short; TLS operations end in time; UDPConn is used as it demands | holds |
| `deadlines_handshake` | no read or write is cut short, for all combinations of timeouts | violated |
| `daemon_serves` | types; faults only for an empty file; listeners come up or the process ends; metrics add up at every moment and settle | holds |

What the violated ones show:

- `pool_leak`: if callers dial and return connections before the filling
  goroutine has finished, its Push is refused, and the connection it holds is
  dropped without being closed. `LeaksOnlyByFilling` bounds the damage.
- `proxy_pipelined`: two queries in one read are both written upstream, one
  response is read, and the other stays on a connection that returns to the pool.
  One query and part of the next also leave something behind: the part is on the
  connection, and the next request on it is taken for the rest. When a read holds
  one query or part of one, neither can happen (`proxy_safety`).
- `deadlines_handshake`: the handshake's deadline is never cleared. With
  `handshake_timeout` set and `read_timeout` or `write_timeout` not, a pooled
  connection is of no use once the handshake timeout has passed. When all three
  are set, as in `config.example.yaml`, this cannot happen (`deadlines_safety`).
- `balancing_starved`: only successes count, so `HistoricalConnections` asks a client
  that always fails for every request.

Three more things the models show and no run is needed for. Priorities are whole
seconds, so Pop need not take the connection returned last (`MRUQueue!Pop`). put()
closes a connection the pool refuses without reporting cx_close (`RunClose`). An
empty configuration file leaves a nil pointer that `validate` dereferences
(`ParseConfig`; `NoFault` says that nothing else does).

### Bounds

- `heap_refines`: six of seven values queued and four seconds. Three levels of the
  heap, with ties, and with new items both above and below old ones since the
  clock is set back; values are symmetric.
- `pool_safety`: three connections, two callers, capacity 2. Overflow needs one
  connection more than the capacity, races on ownership need two actors. A second
  is two ticks and the timeout three, so that rounding can fall on either side.
  Connections and callers are symmetric.
- `pool_leak`: capacity 1 is enough.
- `proxy_safety`: a UDP and a TCP handler, two requests, three connections,
  capacity 1, one retry: a request can take over the connection of the other, can
  exhaust its retries, and can find a stale connection; a read holds a query or
  half of one.
- `restart_answers`: one UDP handler, two requests, one retry, one fault (an outage
  with or without closed connections, or a dropped one), capacity 1, and five
  connections, which is as many as two requests and the filling can use. No
  connection becomes stale and the clock stands still.
  Connections are dialled in the order of their numbers, which replaces symmetry,
  unsound for liveness. Larger instances take too long for a regular run and have
  been checked once without a violation: two handlers with capacity 0 and four
  connections; one handler with a clock and a stale timeout of a tick each.
- `availability_calls`: two clients, two callers, no symmetry, since it checks
  liveness. Selecting and asking take at most a tick each, so a call is through with
  both clients in four, which is FailedClientExpiry, and selecting takes no longer
  than FirstExpiry. With longer calls `Returns` is false: each failure comes so late
  that the timer is reset, or the client available again before it is looked at, and
  Conn() calls itself without end while all clients fail. It also takes few enough
  callers that no expiry wraps around. `MaxDuration` 31 holds every expiry of this
  instance and nothing twice as long; with 7, `BackoffBound` is violated.
- `balancing_safety`: three clients, two callers, five connections provided: enough
  for the bound of `LoadBalanced` to be reached where `Hops` is 1; where it is more, the
  bound is not reached here and rests on the proof. Callers are symmetric.
  `Rotates` is about calls that do not overlap; that overlapping ones keep the index
  in range is in `TypeOK`.
  `balancing_starved` never reaches its bound.
- `daemon_serves`: each block of the file absent, wrong in each way validate looks
  for, or right; two workers and two TCP connections; three requests or failed
  accepts, since two reports can race and a third follow.

- `deadlines_*`: two workers, so that one can move the other's deadline, one TLS
  connection, one client address (the property does not tell addresses apart),
  timeouts from 0 to 2 ticks. Waits are counted up to 3, one more than any timeout.
  Workers are symmetric.

Deadlock is checked except in `restart_answers`, `balancing_safety` and
`daemon_serves`: the first two stop at their bounds, the last when the process ends
or clients are done.

### Fairness

The Go scheduler runs goroutines that can run, and dials, handshakes, reads and
writes return. The latter holds when the timeouts of `upstream.servers[]` and of the
listeners are configured; their default is none. So weak fairness is assumed of
each handler once it has a request (`Proceed`), of each call of Conn() (`Step`), and
of all the process does by itself (`Progress`). `restart_answers` also assumes that
a server that is up answers (`Answer`); that an outage ends is not assumed.
`balancing_starved` assumes that requests keep coming. Nothing is assumed of
clients otherwise, nor of the closing goroutines.

## Proofs

| Module | Theorems | For any |
|-|-|-|
| `ConnPoolProofs` | `TypeOK`, `Exclusive`, `UsableIsOpen`, `CapacityBound`, `LeaksOnlyByFilling`, `EventsHonest`, `NeverReusesStale` | connections, callers, capacity, stale timeout, clock granularity |
| `HeapQueueProofs` | `HeapTypes` (`HeapTypeOK`), `HeapStaysOrdered` (`HeapOrdered`), `HeapRefinesQueue` (`ImplementsQueue`) | values, capacity, clock granularity |
| `DNSProxyProofs` | `TypesKept` (`ProxyTypeOK`), `RefinesPool`, `RetriesBounded` (`RetryBound`) | the above, handlers, requests, retries |
| `ResponseProofs` | `AnswersTheRequest` (`OwnResponse`), `ReturnedQuiet` (`PooledIsQuiet`), `RefinesService` (safety part of `ImplementsService`) | the same, when a client read holds one query or part of one |
| | `RestartRefinesService` (the same, of `Restart`) | the same (any capacity and filling, stale timeout, clock), outages and dropped connections |
| | `GivesUpOnlyOutnumbered` (`GivesUpOutnumbered`) | the same, whatever a client read holds |
| `AvailabilityProofs` | `TypeCorrect` (`TypeOK`), `BoundedBackoff` (`BackoffBound`), `ReachesHealthy` (`FailsOver`), `LeftOut` (`LeftOutOnlyInFlight`) | clients, callers, expiries, durations of calls; `BoundedBackoff` when a `Duration` can hold the bound |
| `BalancingProofs` | `TypesKept` (`TypeOK`), `LoadKeptTogether` (`LoadBalanced`), `Failover` (`FailsOverInOrder`), `RoundRobin` (`Rotates`) | clients, callers |
| `DeadlinesProofs` | `TypesKept` (`TypeOK`), `UDPConnUse` (`NoMisuse`), `WithinTimeout` (`InBounds`), `NoneCutShort` (`NotCutShort`) | workers, connections, timeouts; the last when `NoLeftover` |
| `DaemonProofs` | `TypesKept` (`TypeOK`), `NeverFaults` (`NoFault`), `MetricsAddUp` (`Ledger`) | configuration files, workers, connections, requests |

The assumptions are those the specifications make of their constants
(`QueueAssumption`, `PoolAssumption`, ...), and three more that the theorems state
because the properties are false without them: a read holds one query or part of
one, `ReadSizes \subseteq {1, 2}`, in `ResponseProofs` (`proxy_pipelined`); a
handshake timeout comes with a read and a write timeout in `NoneCutShort`
(`deadlines_handshake`); and FailedClientExpiry doubled once per caller is a
`Duration` in `BoundedBackoff`. The last is so for up to 28 callers, since 30 s can be
doubled 28 times in an int64 of nanoseconds. `config.example.yaml` has 64 UDP workers:
29 that fail on one client at once can make its expiry negative, and some more make it
0, and then it is not left out at all. `DaemonAssumption` says of
a configuration file what its types say, and that max_concurrent_connections is at
most `DefaultWorkers`, the constant that bounds the number of UDP workers.

Each proof has one step per action; lemmas `...Step` show that every step keeps
a part of the inductive invariant, and the theorems follow with PTL.

**The pool.** The invariant `IInv` adds to the properties what they need of each other:

- `Coupled`: a caller has a connection exactly when its pc says so. `TypeOK` is not
  inductive without it (`Finish` would close "no connection").
- `Owned`: the places a connection can be in are disjoint, all that is in them is
  open, and all that is open is in one of them. Each action moves one connection
  from one place to another; the proof of `OwnedStep` states the change of each
  place and then leaves the rest to set reasoning.
- `Rounds`: connections forgotten plus rounds left are at most Capacity.
- `Events`: `EventsHonest` also for connections being closed, and no event for
  those not yet dialled.
- `Tagged`: an item's second, and the one a caller got from Pop, began no later
  than the push. `FreshReuse` follows: time measured from the second is at least
  the time idle.

TLC confirms `IInv` on the instance of `pool_safety` as well.

**The heap.** The library's induction theorems take an operator as a parameter,
which the provers cannot instantiate; its `WFMin`, that a set has an element minimal
in a well-founded relation, takes none. From it follow `LeastNat` and, by the least
counterexample, induction on a number. That the recursive definitions of `Up` and
`Down` mean anything is proved first: `IteratesAll` says that a loop in which a
rank decreases is a function, `IteratesBelow` builds it rank by rank,
and `IteratesOnce` is that the pieces agree. `UpEquation` and `DownEquation` apply
it, the rank being the position and the places left. Then one turn of each loop
moves the place that is out of order to the parent or the child (`SortedAbove`,
`SortedUnder`; `UpTurn`, `DownTurn`), and by induction the result is a heap with
the same items, each knowing its position (`UpSorts`, `DownSorts`, `Rearranges`).
`HeapInv` adds to the invariants that no value is in the slice twice (`Distinct`).
The refinement needs it: Pop removes one item, and the set has one entry less
only if there is no other like it; and `Full` counts entries where the code counts
places (`EntriesCounted`). That Pop takes a latest item is an induction along
the parents (`FirstIsLatest`).

**The handlers.** Every step of a handler is a step of the pool or leaves it alone
(`PoolStep`), so `ProxySpec` implies `Spec` and `IInv` holds below the handlers.
`Handlers` couples a handler's stage to where its call of Conn() is; `Counted` adds
to `RetryBound` the count while Conn() is under way. For the responses,
`Clean` is the connections that must carry nothing: those not yet dialled, in the
pool, on their way to it, and those of handlers that have not written. No step
brings another one among them except the end of an exchange (`BackgroundClean`,
`HandlerClean`). `Wire` says that these are quiet, and that a connection in an
exchange carries the handler's own query or the response to it and nothing else
(`Exchange`); part of a query is never answered, so its exchange fails and the
connection is closed. That a connection has one owner (`Exclusive`) is what keeps one
handler's step from disturbing another's exchange. `RefinesService` needs
besides that requests are numbered apart (`Numbered`). The types need `Messages`,
that a handler which has read the header of a response finds the response on its
connection: only the owner takes messages from it.

**Restarts.** No bound on the capacity is used. A step of `Restart` is a step of a handler, of the pool or of the
server, whose closing of connections only takes messages away; so the
invariants above hold under faults, and with them the refinement. `Spent` gives
`GivesUpOutnumbered`: a request that has used some of its retries has left as many
connections that failed and nobody will be given again (`Lost`). A retry adds one,
since a handler's connection is its own and failing puts it among the lost; nothing
takes one away, since a connection is dialled once.

**Load balancing.** `FailsOver` rests on `Spared`: a healthy client has never
failed, and every scan that has passed it has it among its candidates.
`LeftOutOnlyInFlight` rests on `InFlight`: a client that a call found eligible, while it
goes on selecting or asks it, is available or has failed since for another call. A
failure adds the client to `overtaken` of all calls within `Reach` of it, and time
passing makes no client unavailable. `BackoffBound` rests on `Backed`: while
failures follow each other in time, the expiry of a client is FailedClientExpiry
doubled at most once for each call that can no longer fail on it (`Reach` has those
that can); a call that fails leaves `Reach`, and none enters it while the client is
left out. `TypeOK` of `Balancing`, which has the range of the
round robin's index and of all choices, needs `InLoop`, that the loop of
HistoricalConnections has not passed its end while it compares. `InTurn` is that
exactly the clients before the one being asked have failed a call of Failover;
`InRotation` is that the index is that of the client asked last until it is
advanced. `LoadBalanced` rests on `Balanced`, which counts with what c has provided
the calls bound for it: those that hold it as their best candidate and have looked at
d (`Holding`), and those about to compare it on statistics they read when these were
below r (`Drawn`). It is stated for every r from what d, or a client preferred to d,
can have reached on, since when a call is about to compare it is not known with which
count it will.

**Deadlines.** `Fresh` couples a UDPConn's remote to the worker's place in its
request. `Exact` gives `InBounds`: time waited and time left add up to the timeout.
`Late` gives `NotCutShort`: the deadline of a shared socket is never before that of
any who wait on it, since others can only move it ahead.

**The process.** `Wired` is what `main` has made sure of by each of its stages, from
what `validate` accepts (`Accepted`). `Books` has the types of what is counted and
what has not happened yet. `AddsUp` is the ledger of a process that reports: the
events, reported or about to be, and the connections and requests under way.

Only model-checked: liveness (`Returns`, `AnsweredInTheEnd`, `ComesUp`, `Settles`, the
fairness part of `ImplementsService`), which needs fairness and ENABLED, beyond the
prover. Every invariant and every safety property of a passing run is a theorem.

## Not modelled

Message contents, the wording of logs, YAML and command-line flags are data without
state. I/O metrics, sizes and latencies are reported and forgotten; upstream
cx_error events likewise. FailedConnections and the aggregate Stats() of sharded
clients have no reader. The Sentry client and the statsd client are external. A UDP
read may outlast its own timeout, because another worker's read moves the deadline
they share; `Deadlines` has this behaviour and states no property about it.
`PriorityQueue.update` has no caller. `Size` and `Empty` read only.

That stale connections look fresh to Conn() after the wall clock is set back is known
and not modelled: `NeverReusesStale` is about a clock that moves forward.

## Plan

1. Compose: several upstream servers behind a policy under `DNSProxy`; the pool with
   a clock that can be set back.
2. Prove: that the capacity in `MRUQueue` and the `Exclusive` use of the pool carry over
   to the pool with the heap in place of the set.
