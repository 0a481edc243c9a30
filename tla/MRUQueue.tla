------------------------------ MODULE MRUQueue ------------------------------
(***************************************************************************)
(* What internal/data's MRUQueue promises its only user, the connection    *)
(* pool: a bounded collection of values, each tagged with the Unix second  *)
(* at which it was pushed, from which Pop takes a value with the latest    *)
(* tag.  Every method holds the queue's mutex from its first statement to  *)
(* its return, so each of them is one step.                                *)
(*                                                                         *)
(* The queue is a set of items: no value is in it twice, which the pool    *)
(* guarantees (ConnPool!Exclusive) and without which a set would not do.   *)
(* HeapQueue is the container/heap implementation, shown to refine QSpec.  *)
(***************************************************************************)
EXTENDS Integers, FiniteSets

CONSTANTS
  Values,    \* what is queued (the pool queues connections)
  Capacity,  \* NewMRUQueue's capacity; non-positive disables the limit
  Second,    \* clock ticks in one second
  MaxTime    \* bound: the clock stops at this tick

ASSUME QueueAssumption ==
  /\ Capacity \in Int
  /\ Second \in Nat \ {0}
  /\ MaxTime \in Nat

VARIABLES
  store,     \* the items queued
  now        \* the wall clock, in ticks

Item == [value : Values, priority : Nat]

\* time.Now().Unix(): the clock cut down to whole seconds.
Unix(t) == t \div Second

\* time.Since(time.Unix(sec, 0)): the ticks since the start of second sec.
SinceUnix(sec) == now - sec * Second

Queued == {x.value : x \in store}

-----------------------------------------------------------------------------

\* Mutant of Full: the limit is noticed one item late.
FullTooLate == Capacity > 0 /\ Cardinality(store) > Capacity

Full == Capacity > 0 /\ Cardinality(store) = Capacity

\* Push answers true: there was room, and the value is tagged with the second.
Insert(v) ==
  /\ ~Full
  /\ store' = store \cup {[value |-> v, priority |-> Unix(now)]}

\* Push answers false: the queue is at its capacity and stays as it is.
Refuse(v) ==
  /\ Full
  /\ UNCHANGED store

MostRecent == {x \in store : \A y \in store : y.priority <= x.priority}

\* Pop answers item x.
Pop(x) ==
  /\ x \in MostRecent
  /\ store' = store \ {x}

Tick ==
  /\ now < MaxTime
  /\ now' = now + 1

\* The wall clock is set back. The queue does not mind; that time passes between
\* two looks at it is ConnPool's assumption.
SetBack == now' \in 0..now - 1

-----------------------------------------------------------------------------

QInit ==
  /\ store = {}
  /\ now = 0

QNext ==
  \/ \E v \in Values \ Queued : (Insert(v) \/ Refuse(v)) /\ UNCHANGED now
  \/ \E x \in store : Pop(x) /\ UNCHANGED now
  \/ (Tick \/ SetBack) /\ UNCHANGED store

QSpec == QInit /\ [][QNext]_<<store, now>>
=============================================================================
