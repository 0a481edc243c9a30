----------------------------- MODULE HeapQueue -----------------------------
(***************************************************************************)
(* MRUQueue as internal/data implements it: a PriorityQueue (priority.go), *)
(* which is a max-heap in a slice kept by container/heap, under a mutex    *)
(* that makes each method one step.  Positions here start at 1, in Go at   *)
(* 0: the parent of j is j \div 2 here and (j-1)/2 there.                  *)
(***************************************************************************)
EXTENDS Integers, Sequences

CONSTANTS
  Values,    \* what is queued
  Capacity,  \* NewMRUQueue's capacity; non-positive disables the limit
  Second,    \* clock ticks in one second
  MaxTime    \* bound: the clock stops at this tick

ASSUME HeapAssumption ==
  /\ Capacity \in Int
  /\ Second \in Nat \ {0}
  /\ MaxTime \in Nat

VARIABLES
  heap,      \* the slice of items
  now        \* the wall clock, in ticks

heapVars == <<heap, now>>

HeapItem == [value : Values, priority : Nat, index : Int]

Queued == {heap[i].value : i \in DOMAIN heap}

-----------------------------------------------------------------------------
(* heap.Interface.                                                         *)

\* Mutant of Less: a min-heap.
LessOldest(h, i, j) == h[i].priority < h[j].priority

Less(h, i, j) == h[i].priority > h[j].priority

\* Mutant of Swap: the items keep the index they had.
SwapNoIndex(h, i, j) == [h EXCEPT ![i] = h[j], ![j] = h[i]]

Swap(h, i, j) ==
  LET a == h[i]  b == h[j] IN
    [h EXCEPT ![i] = [b EXCEPT !.index = i], ![j] = [a EXCEPT !.index = j]]

-----------------------------------------------------------------------------
(* container/heap: up and down swap an item with its parent, or with the   *)
(* first of its children, until the order is right again.                  *)

\* The slices that have so many items.
HeapsOf(n) == {h \in Seq(HeapItem) : n <= Len(h)}

\* Up[j][h] is slice h after up(h, j).
Up[j \in Nat] ==
  [h \in HeapsOf(j) |->
     LET i == j \div 2 IN
       IF i = 0 \/ ~Less(h, j, i) THEN h ELSE Up[i][Swap(h, i, j)]]

\* Mutant of FirstChild: the second child is never looked at.
FirstChildOnly(h, i, n) == 2 * i

FirstChild(h, i, n) ==
  IF 2 * i + 1 <= n /\ Less(h, 2 * i + 1, 2 * i) THEN 2 * i + 1 ELSE 2 * i

\* Down(n)[i][h] is slice h after down(h, i, n).
Down(n) ==
  LET down[i \in Nat \ {0}] ==
        [h \in HeapsOf(n) |->
           LET j == FirstChild(h, i, n) IN
             IF 2 * i > n \/ ~Less(h, j, i) THEN h ELSE down[j][Swap(h, i, j)]]
  IN  down

HeapPush(h, x) ==
  LET n == Len(h) + 1 IN Up[n][Append(h, [x EXCEPT !.index = n])]

\* The heap with its first item last, in order but for that one.
HeapPop(h) ==
  LET n == Len(h) IN Down(n - 1)[1][Swap(h, 1, n)]

-----------------------------------------------------------------------------
(* The queue's methods.                                                    *)

Push(v) ==
  /\ ~(Capacity > 0 /\ Len(heap) = Capacity)
  /\ heap' = HeapPush(heap, [value |-> v, priority |-> now \div Second, index |-> 0])
  /\ UNCHANGED now

\* Push answers false.
PushRefused(v) ==
  /\ Capacity > 0 /\ Len(heap) = Capacity
  /\ UNCHANGED heapVars

Pop ==
  /\ heap # <<>>
  /\ heap' = SubSeq(HeapPop(heap), 1, Len(heap) - 1)
  /\ UNCHANGED now

\* Pop answers false.
PopEmpty ==
  /\ heap = <<>>
  /\ UNCHANGED heapVars

PassTime ==
  /\ now < MaxTime
  /\ now' = now + 1
  /\ UNCHANGED heap

\* The wall clock is set back: values pushed from now on are older than those
\* in the queue.
SetBack ==
  /\ now' \in 0..now - 1
  /\ UNCHANGED heap

HeapInit ==
  /\ heap = <<>>
  /\ now = 0

\* A value is pushed only while it is not queued (ConnPool!Exclusive).
HeapNext ==
  \/ \E v \in Values \ Queued : Push(v) \/ PushRefused(v)
  \/ Pop \/ PopEmpty
  \/ PassTime \/ SetBack

HeapSpec == HeapInit /\ [][HeapNext]_heapVars

-----------------------------------------------------------------------------
(* Properties.                                                             *)

\* The slice holds items, each knowing its own position (Item.index, which
\* heap.Fix relies on) through every Swap of up and down.
HeapTypeOK ==
  /\ heap \in Seq(HeapItem)
  /\ \A i \in DOMAIN heap : heap[i].index = i
  /\ now \in 0..MaxTime

\* No item is older than an item below it: what Pop relies on to find the
\* latest one first.
HeapOrdered ==
  \A i \in DOMAIN heap : i > 1 => heap[i].priority <= heap[i \div 2].priority

Queue == INSTANCE MRUQueue WITH
  store <- {[value |-> heap[i].value, priority |-> heap[i].priority] : i \in DOMAIN heap}

\* The heap behaves as the queue the pool is specified with: Push adds the
\* value unless the queue is full, and Pop takes one of the latest second.
ImplementsQueue == Queue!QSpec
=============================================================================
