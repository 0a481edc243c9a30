-------------------------- MODULE HeapQueueProofs --------------------------
(***************************************************************************)
(* Proofs about HeapQueue, for every set of values and every capacity: the *)
(* slice stays a heap whose items know their positions, and the heap       *)
(* implements the queue of MRUQueue.  What up and down return is proved by *)
(* induction on where they are in the slice.                               *)
(***************************************************************************)
EXTENDS HeapQueue, FiniteSetTheorems, WellFoundedInduction, TLAPS

-----------------------------------------------------------------------------
(* Induction, and functions defined by recursion.                          *)

\* A set of naturals has a least one.
LEMMA LeastNat ==
  ASSUME NEW T, T \subseteq Nat, T # {}
  PROVE  \E n \in T : \A m \in T : n <= m
<1> DEFINE R == OpToRel(<, Nat)
<1>1. IsWellFoundedOn(R, Nat)
  BY NatLessThanWellFounded
<1>2. PICK n \in T : \A m \in T : <<m, n>> \notin R
  BY <1>1, WFMin, Zenon
<1>3. \A m \in T : ~(m < n)
  BY <1>2 DEF OpToRel
<1> QED
  BY <1>3

\* A set that has 0 and the successor of each natural in it has every natural.
LEMMA NatInduct ==
  ASSUME NEW S, 0 \in S, \A n \in Nat : n \in S => n + 1 \in S
  PROVE  Nat \subseteq S
<1> SUFFICES ASSUME ~(Nat \subseteq S) PROVE FALSE
  OBVIOUS
<1> DEFINE T == Nat \ S
<1>1. T \subseteq Nat /\ T # {}
  OBVIOUS
<1>2. PICK n \in T : \A m \in T : n <= m
  BY <1>1, LeastNat, Zenon
<1>3. n \in Nat /\ n # 0
  BY <1>2
<1>4. n - 1 \in Nat /\ n - 1 \notin T
  BY <1>2, <1>3
<1> QED
  BY <1>2, <1>3, <1>4

\* The loops of up and down: each step goes to an element of lower rank, until
\* a test says stop.
Iterates(f, X, stop, out, step) ==
  f = [x \in X |-> IF x \in stop THEN out[x] ELSE f[step[x]]]

Below(X, rank, n) == {x \in X : rank[x] < n}

\* What makes such a loop end.
Ends(X, stop, step, rank) ==
  \A x \in X : /\ rank[x] \in Nat
               /\ x \notin stop => step[x] \in X /\ rank[step[x]] < rank[x]

\* A function that does as the loop does exists below every rank ...
LEMMA IteratesBelow ==
  ASSUME NEW X, NEW stop, NEW out, NEW step, NEW rank, Ends(X, stop, step, rank),
         NEW n \in Nat
  PROVE  \E g : Iterates(g, Below(X, rank, n), stop, out, step)
<1> DEFINE S == {m \in Nat : \E g : Iterates(g, Below(X, rank, m), stop, out, step)}
<1>1. 0 \in S
  <2> DEFINE g == [x \in {} |-> x]
  <2>1. Below(X, rank, 0) = {}
    BY SMT DEF Ends, Below
  <2>2. g = [x \in {} |-> IF x \in stop THEN out[x] ELSE g[step[x]]]
    OBVIOUS
  <2> QED
    BY <2>1, <2>2 DEF Iterates
<1>2. ASSUME NEW m \in Nat, m \in S
      PROVE  m + 1 \in S
  <2>1. PICK g : Iterates(g, Below(X, rank, m), stop, out, step)
    BY <1>2
  <2> DEFINE A == Below(X, rank, m)
             B == Below(X, rank, m + 1)
             k == [x \in B |-> IF x \in stop THEN out[x] ELSE g[step[x]]]
  <2>2. \A x \in A : k[x] = g[x]
    <3>1. A \subseteq B
      BY SMT DEF Below, Ends
    <3>2. \A x \in A : g[x] = IF x \in stop THEN out[x] ELSE g[step[x]]
      BY <2>1, Zenon DEF Iterates
    <3> QED
      BY <3>1, <3>2, Zenon
  <2>3. \A x \in B : x \notin stop => step[x] \in A
    BY SMT DEF Below, Ends
  <2>4. \A x \in B : (IF x \in stop THEN out[x] ELSE g[step[x]])
                   = (IF x \in stop THEN out[x] ELSE k[step[x]])
    <3> HIDE DEF k, A, B
    <3> QED
      BY <2>2, <2>3
  <2>5. k = [x \in B |-> IF x \in stop THEN out[x] ELSE k[step[x]]]
    BY <2>4, Zenon
  <2>6. Iterates(k, B, stop, out, step)
    BY <2>5, Zenon DEF Iterates
  <2>7. m + 1 \in Nat
    OBVIOUS
  <2> HIDE DEF k
  <2> QED
    BY <2>6, <2>7, Zenon
<1> QED
  <2> HIDE DEF S
  <2>1. n \in S
    BY <1>1, <1>2, NatInduct
  <2> QED
    BY <2>1 DEF S

\* ... two of them agree where both are defined ...
LEMMA IteratesOnce ==
  ASSUME NEW X, NEW stop, NEW out, NEW step, NEW rank, Ends(X, stop, step, rank),
         NEW m \in Nat, NEW n \in Nat, NEW g, NEW k,
         Iterates(g, Below(X, rank, m), stop, out, step),
         Iterates(k, Below(X, rank, n), stop, out, step)
  PROVE  \A x \in Below(X, rank, m) \cap Below(X, rank, n) : g[x] = k[x]
<1> DEFINE A == Below(X, rank, m)
           B == Below(X, rank, n)
           D == {x \in A \cap B : g[x] # k[x]}
           T == {rank[x] : x \in D}
<1> SUFFICES ASSUME D # {} PROVE FALSE
  BY Zenon
<1>1. T \subseteq Nat /\ T # {}
  BY Zenon DEF Below, Ends
<1>2. PICK r \in T : \A s \in T : r <= s
  BY <1>1, LeastNat, Zenon
<1>3. PICK x \in D : r = rank[x]
  BY <1>2, Zenon
<1>4. /\ g[x] = IF x \in stop THEN out[x] ELSE g[step[x]]
      /\ k[x] = IF x \in stop THEN out[x] ELSE k[step[x]]
  BY <1>3, Zenon DEF Iterates
<1>5. x \notin stop /\ g[step[x]] # k[step[x]]
  BY <1>3, <1>4
<1>6. step[x] \in A \cap B /\ rank[step[x]] < rank[x] /\ rank[step[x]] \in Nat
                            /\ rank[x] \in Nat
  BY <1>3, <1>5, SMT DEF Below, Ends
<1>7. rank[step[x]] \in T
  BY <1>5, <1>6, Zenon
<1>8. rank[x] <= rank[step[x]]
  BY <1>2, <1>3, <1>7, Zenon
<1> QED
  BY <1>6, <1>8

\* ... so there is one on the whole set.
LEMMA IteratesAll ==
  ASSUME NEW X, NEW stop, NEW out, NEW step, NEW rank, Ends(X, stop, step, rank)
  PROVE  \E f : Iterates(f, X, stop, out, step)
<1> DEFINE G(n) == CHOOSE g : Iterates(g, Below(X, rank, n), stop, out, step)
           f == [x \in X |-> G(rank[x] + 1)[x]]
<1>1. \A n \in Nat : Iterates(G(n), Below(X, rank, n), stop, out, step)
  BY IteratesBelow, Zenon
<1>2. \A x \in X : rank[x] + 1 \in Nat /\ x \in Below(X, rank, rank[x] + 1)
  BY SMT DEF Ends, Below
<1>3. ASSUME NEW x \in X
      PROVE  f[x] = IF x \in stop THEN out[x] ELSE f[step[x]]
  <2>1. Iterates(G(rank[x] + 1), Below(X, rank, rank[x] + 1), stop, out, step)
    BY <1>1, <1>2, Zenon
  <2>2. f[x] = IF x \in stop THEN out[x] ELSE G(rank[x] + 1)[step[x]]
    BY <2>1, <1>2, Zenon DEF Iterates
  <2>3. CASE x \in stop
    BY <2>2, <2>3, Zenon
  <2>4. CASE x \notin stop
    <3>1. step[x] \in X /\ step[x] \in Below(X, rank, rank[x] + 1)
      BY <2>4, SMT DEF Ends, Below
    <3>2. /\ rank[step[x]] + 1 \in Nat
          /\ step[x] \in Below(X, rank, rank[step[x]] + 1)
          /\ Iterates(G(rank[step[x]] + 1), Below(X, rank, rank[step[x]] + 1), stop, out, step)
      BY <1>1, <1>2, <3>1, Zenon
    <3>3. G(rank[x] + 1)[step[x]] = G(rank[step[x]] + 1)[step[x]]
      <4> HIDE DEF G, f
      <4>1. \A y \in Below(X, rank, rank[x] + 1) \cap Below(X, rank, rank[step[x]] + 1) :
               G(rank[x] + 1)[y] = G(rank[step[x]] + 1)[y]
        BY <1>2, <2>1, <3>2, IteratesOnce
      <4> QED
        BY <3>1, <3>2, <4>1, Zenon
    <3>4. f[step[x]] = G(rank[step[x]] + 1)[step[x]]
      BY <3>1, Zenon
    <3> QED
      BY <2>2, <2>4, <3>3, <3>4, Zenon
  <2> QED
    BY <2>3, <2>4
<1>4. f = [x \in X |-> IF x \in stop THEN out[x] ELSE f[step[x]]]
  <2> DEFINE e == [x \in X |-> IF x \in stop THEN out[x] ELSE f[step[x]]]
  <2>1. \A x \in X : f[x] = e[x]
    BY <1>3, Zenon
  <2> QED
    BY <2>1, Zenon
<1> QED
  BY <1>4, Zenon DEF Iterates
-----------------------------------------------------------------------------
(* Swap, and the equations of up and down.                                 *)

\* Halving a position gives its parent.
LEMMA Halves ==
  \A k \in Nat : /\ k \div 2 \in Nat
                 /\ 2 * (k \div 2) <= k /\ k <= 2 * (k \div 2) + 1
                 /\ k > 0 => k \div 2 < k
                 /\ k > 1 => k \div 2 > 0
OBVIOUS

\* What a slice of items has in its places.
LEMMA ItemFields ==
  ASSUME NEW h \in Seq(HeapItem)
  PROVE  /\ Len(h) \in Nat /\ DOMAIN h = 1..Len(h)
         /\ \A k \in 1..Len(h) :
              /\ h[k] \in HeapItem
              /\ h[k].value \in Values /\ h[k].priority \in Nat
              /\ h[k] = [value |-> h[k].value, priority |-> h[k].priority,
                         index |-> h[k].index]
<1>1. Len(h) \in Nat /\ DOMAIN h = 1..Len(h) /\ \A k \in 1..Len(h) : h[k] \in HeapItem
  OBVIOUS
<1>2. \A a \in HeapItem : /\ a.value \in Values /\ a.priority \in Nat
                          /\ a = [value |-> a.value, priority |-> a.priority,
                                  index |-> a.index]
  BY DEF HeapItem
<1> QED
  BY <1>1, <1>2, Zenon

\* The place whose item Swap(h, i, j) puts in place k.
Other(k, i, j) == IF k = j THEN i ELSE IF k = i THEN j ELSE k

Exchanges(g, h, i, j) ==
  /\ g \in Seq(HeapItem)
  /\ Len(g) = Len(h)
  /\ \A k \in 1..Len(h) : /\ g[k].value = h[Other(k, i, j)].value
                          /\ g[k].priority = h[Other(k, i, j)].priority
                          /\ k \in {i, j} => g[k].index = k
                          /\ k \notin {i, j} => g[k] = h[k]

\* Swap exchanges two items and tells each its new position (priority.go, Swap).
LEMMA SwapItems ==
  ASSUME NEW h \in Seq(HeapItem), NEW i \in 1..Len(h), NEW j \in 1..Len(h)
  PROVE  Exchanges(Swap(h, i, j), h, i, j)
<1> DEFINE g == Swap(h, i, j)
<1>1. h \in [1..Len(h) -> HeapItem] /\ Len(h) \in Nat
  OBVIOUS
<1>2. /\ [h[i] EXCEPT !.index = j] \in HeapItem
      /\ [h[j] EXCEPT !.index = i] \in HeapItem
  <2>1. h[i] \in HeapItem /\ h[j] \in HeapItem /\ i \in Int /\ j \in Int
    OBVIOUS
  <2> QED
    BY <2>1 DEF HeapItem
<1>3. g \in [1..Len(h) -> HeapItem]
  BY <1>1, <1>2 DEF Swap
<1>4. g \in Seq(HeapItem) /\ Len(g) = Len(h)
  BY <1>1, <1>3
<1>5. \A k \in 1..Len(h) :
         g[k] = IF k = j THEN [h[i] EXCEPT !.index = j]
                ELSE IF k = i THEN [h[j] EXCEPT !.index = i] ELSE h[k]
  BY <1>1 DEF Swap
<1> HIDE DEF g
<1>6. \A k \in 1..Len(h) :
         h[k] = [value |-> h[k].value, priority |-> h[k].priority, index |-> h[k].index]
  BY ItemFields, Zenon
<1>7. \A k \in 1..Len(h) :
         /\ g[k].value = h[Other(k, i, j)].value
         /\ g[k].priority = h[Other(k, i, j)].priority
         /\ k \in {i, j} => g[k].index = k
         /\ k \notin {i, j} => g[k] = h[k]
  <2> SUFFICES ASSUME NEW k \in 1..Len(h)
               PROVE  /\ g[k].value = h[Other(k, i, j)].value
                      /\ g[k].priority = h[Other(k, i, j)].priority
                      /\ k \in {i, j} => g[k].index = k
                      /\ k \notin {i, j} => g[k] = h[k]
    BY Zenon
  <2>1. CASE k = j
    <3>1. g[k] = [h[i] EXCEPT !.index = j] /\ Other(k, i, j) = i
      BY <1>5, <2>1 DEF Other
    <3> QED
      BY <1>6, <2>1, <3>1
  <2>2. CASE k # j /\ k = i
    <3>1. g[k] = [h[j] EXCEPT !.index = i] /\ Other(k, i, j) = j
      BY <1>5, <2>2 DEF Other
    <3> QED
      BY <1>6, <2>2, <3>1
  <2>3. CASE k # j /\ k # i
    BY <1>5, <2>3 DEF Other
  <2> QED
    BY <2>1, <2>2, <2>3
<1> QED
  BY <1>4, <1>7, Zenon DEF g, Exchanges

\* The equation of up: it swaps the item with its parent while it is the later
\* one.
LEMMA UpEquation ==
  ASSUME NEW j \in Nat, NEW h \in HeapsOf(j)
  PROVE  Up[j][h] = IF j \div 2 = 0 \/ ~Less(h, j, j \div 2) THEN h
                    ELSE Up[j \div 2][Swap(h, j \div 2, j)]
<1> DEFINE Done(y, k) == k \div 2 = 0 \/ ~Less(y, k, k \div 2)
           X == {x \in Seq(HeapItem) \X Nat : x[2] <= Len(x[1])}
           stop == {x \in X : Done(x[1], x[2])}
           out == [x \in X |-> x[1]]
           step == [x \in X |-> <<Swap(x[1], x[2] \div 2, x[2]), x[2] \div 2>>]
           rank == [x \in X |-> x[2]]
           Body(f) == [k \in Nat |-> [y \in HeapsOf(k) |->
                         IF Done(y, k) THEN y ELSE f[k \div 2][Swap(y, k \div 2, k)]]]
<1>1. ASSUME NEW y, NEW k
      PROVE  <<y, k>> \in X <=> k \in Nat /\ y \in HeapsOf(k)
  BY DEF HeapsOf
<1>2. ASSUME NEW k \in Nat, NEW y \in HeapsOf(k), ~Done(y, k)
      PROVE  k \div 2 \in Nat /\ k \div 2 < k /\ Swap(y, k \div 2, k) \in HeapsOf(k \div 2)
  <2>1. y \in Seq(HeapItem) /\ k <= Len(y) /\ k \div 2 # 0
    BY <1>2 DEF HeapsOf
  <2>2. k \in 1..Len(y) /\ k \div 2 \in 1..Len(y) /\ k \div 2 < k
    BY <2>1, Halves
  <2>3. Swap(y, k \div 2, k) \in Seq(HeapItem) /\ Len(Swap(y, k \div 2, k)) = Len(y)
    BY <2>1, <2>2, SwapItems, Zenon DEF Exchanges
  <2> QED
    BY <2>2, <2>3 DEF HeapsOf
<1>3. Ends(X, stop, step, rank)
  <2> SUFFICES ASSUME NEW x \in X
               PROVE  /\ rank[x] \in Nat
                      /\ x \notin stop => step[x] \in X /\ rank[step[x]] < rank[x]
    BY DEF Ends
  <2>1. PICK y, k : x = <<y, k>>
    OBVIOUS
  <2>2. k \in Nat /\ y \in HeapsOf(k) /\ rank[x] = k
        /\ step[x] = <<Swap(y, k \div 2, k), k \div 2>>
    BY <1>1, <2>1
  <2>3. x \notin stop => ~Done(y, k)
    BY <2>1
  <2>4. x \notin stop => step[x] \in X /\ k \div 2 < k
    <3> HIDE DEF X, stop, step, rank, Done
    <3> QED
      BY <1>1, <1>2, <2>2, <2>3
  <2>5. step[x] \in X => rank[step[x]] = k \div 2
    BY <2>2
  <2> QED
    BY <2>2, <2>4, <2>5, Zenon
<1>4. PICK f : Iterates(f, X, stop, out, step)
  <2> HIDE DEF X, stop, out, step, rank
  <2> QED
    BY <1>3, IteratesAll
<1> DEFINE u == [k \in Nat |-> [y \in HeapsOf(k) |-> f[<<y, k>>]]]
<1>5. ASSUME NEW k \in Nat, NEW y \in HeapsOf(k)
      PROVE  u[k][y] = IF Done(y, k) THEN y ELSE u[k \div 2][Swap(y, k \div 2, k)]
  <2> DEFINE x == <<y, k>>
  <2>1. x \in X
    BY <1>1, <1>5
  <2>2. f[x] = IF x \in stop THEN out[x] ELSE f[step[x]]
    <3> HIDE DEF X, stop, out, step, x
    <3> QED
      BY <1>4, <2>1, Zenon DEF Iterates
  <2>3. /\ (x \in stop) <=> Done(y, k)
        /\ out[x] = y
        /\ step[x] = <<Swap(y, k \div 2, k), k \div 2>>
    BY <2>1
  <2>4. ~Done(y, k) => u[k \div 2][Swap(y, k \div 2, k)] = f[<<Swap(y, k \div 2, k), k \div 2>>]
    BY <1>2, Zenon
  <2>5. u[k][y] = f[x]
    BY Zenon
  <2> HIDE DEF u, x, Done, out, step, stop
  <2> QED
    BY <2>2, <2>3, <2>4, <2>5, Zenon
<1>6. u = Body(u)
  <2>1. \A k \in Nat : u[k] = Body(u)[k]
    <3> SUFFICES ASSUME NEW k \in Nat PROVE u[k] = Body(u)[k]
      OBVIOUS
    <3> DEFINE e == [y \in HeapsOf(k) |->
                       IF Done(y, k) THEN y ELSE u[k \div 2][Swap(y, k \div 2, k)]]
    <3>1. u[k] = [y \in HeapsOf(k) |-> f[<<y, k>>]]
      BY Zenon
    <3>2. \A y \in HeapsOf(k) : u[k][y] = e[y]
      BY <1>5, Zenon
    <3>3. u[k] = e
      BY <3>1, <3>2, Zenon
    <3> QED
      BY <3>3, Zenon
  <2> QED
    BY <2>1, Zenon
<1>7. Up = CHOOSE v : v = Body(v)
  BY Zenon DEF Up
<1>8. Up = Body(Up)
  <2> HIDE DEF Body, u
  <2> QED
    BY <1>6, <1>7, Zenon
<1>9. Body(Up)[j][h] = IF Done(h, j) THEN h ELSE Up[j \div 2][Swap(h, j \div 2, j)]
  BY Zenon
<1>10. Up[j][h] = Body(Up)[j][h]
  <2> HIDE DEF Body
  <2> QED
    BY <1>8, Zenon
<1> QED
  BY <1>9, <1>10, Zenon
\* The child that down compares with its parent is in the part of the slice
\* that is in use, and no child is later.
LEMMA ChildChosen ==
  ASSUME NEW n \in Nat, NEW h \in HeapsOf(n), NEW i \in Nat \ {0}, 2 * i <= n
  PROVE  /\ FirstChild(h, i, n) \in 1..n
         /\ i < FirstChild(h, i, n)
         /\ FirstChild(h, i, n) \div 2 = i
         /\ \A k \in 1..n : k \div 2 = i => h[k].priority <= h[FirstChild(h, i, n)].priority
<1>1. \A k \in 1..n : h[k].priority \in Nat
  <2>1. h \in Seq(HeapItem) /\ n <= Len(h)
    BY DEF HeapsOf
  <2>2. \A k \in 1..n : k \in 1..Len(h)
    BY <2>1
  <2> QED
    BY <2>1, <2>2, ItemFields, Zenon
<1>2. \A k \in 1..n : k \div 2 = i => k \in {2 * i, 2 * i + 1}
  BY Halves
<1>3. /\ FirstChild(h, i, n) \in {2 * i, 2 * i + 1}
      /\ FirstChild(h, i, n) \in 1..n
  BY DEF FirstChild
<1>4. \A k \in {2 * i, 2 * i + 1} :
         k \in 1..n => h[k].priority <= h[FirstChild(h, i, n)].priority
  BY <1>1 DEF FirstChild, Less
<1> QED
  BY <1>2, <1>3, <1>4

\* The equation of down: it swaps the item with the later of its children while
\* that one is later than the item.
LEMMA DownEquation ==
  ASSUME NEW n \in Nat, NEW i \in Nat \ {0}, NEW h \in HeapsOf(n)
  PROVE  Down(n)[i][h] =
           IF 2 * i > n \/ ~Less(h, FirstChild(h, i, n), i) THEN h
           ELSE Down(n)[FirstChild(h, i, n)][Swap(h, i, FirstChild(h, i, n))]
<1> DEFINE P == Nat \ {0}
           Child(y, k) == FirstChild(y, k, n)
           Done(y, k) == 2 * k > n \/ ~Less(y, Child(y, k), k)
           X == HeapsOf(n) \X P
           stop == {x \in X : Done(x[1], x[2])}
           out == [x \in X |-> x[1]]
           step == [x \in X |-> <<Swap(x[1], x[2], Child(x[1], x[2])), Child(x[1], x[2])>>]
           rank == [x \in X |-> IF x[2] <= n THEN n - x[2] ELSE 0]
           Body(f) == [k \in P |-> [y \in HeapsOf(n) |->
                         IF Done(y, k) THEN y ELSE f[Child(y, k)][Swap(y, k, Child(y, k))]]]
<1>1. ASSUME NEW k \in P, NEW y \in HeapsOf(n), ~Done(y, k)
      PROVE  /\ Child(y, k) \in P /\ Child(y, k) <= n /\ k < Child(y, k)
             /\ Swap(y, k, Child(y, k)) \in HeapsOf(n)
  <2>1. y \in Seq(HeapItem) /\ n <= Len(y) /\ 2 * k <= n
    BY <1>1 DEF HeapsOf
  <2>2. Child(y, k) \in 1..n /\ k < Child(y, k)
    BY <2>1, ChildChosen, Zenon
  <2> DEFINE c == Child(y, k)
  <2> HIDE DEF c
  <2>3. k \in 1..Len(y) /\ c \in 1..Len(y) /\ c \in P /\ c <= n /\ k < c
    BY <2>1, <2>2 DEF c
  <2>4. Swap(y, k, c) \in Seq(HeapItem) /\ Len(Swap(y, k, c)) = Len(y)
    BY <2>1, <2>3, SwapItems, Zenon DEF Exchanges
  <2>5. Swap(y, k, c) \in HeapsOf(n)
    BY <2>1, <2>4 DEF HeapsOf
  <2> QED
    BY <2>3, <2>5 DEF c
<1>2. Ends(X, stop, step, rank)
  <2> SUFFICES ASSUME NEW x \in X
               PROVE  /\ rank[x] \in Nat
                      /\ x \notin stop => step[x] \in X /\ rank[step[x]] < rank[x]
    BY DEF Ends
  <2>1. PICK y \in HeapsOf(n), k \in P : x = <<y, k>>
    OBVIOUS
  <2> DEFINE c == Child(y, k)
             g == Swap(y, k, c)
  <2>2. rank[x] = (IF k <= n THEN n - k ELSE 0) /\ step[x] = <<g, c>>
    BY <2>1
  <2>3. x \notin stop => ~Done(y, k)
    BY <2>1
  <2>4. x \notin stop => c \in P /\ c <= n /\ k < c /\ g \in HeapsOf(n)
    <3> HIDE DEF X, stop, step, rank, Done
    <3> QED
      BY <1>1, <2>3, Zenon
  <2>5. x \notin stop => step[x] \in X /\ rank[step[x]] = n - c
    <3> HIDE DEF stop, Done, Child, c, g
    <3>1. c \in P /\ g \in HeapsOf(n) => <<g, c>> \in X
      OBVIOUS
    <3>2. <<g, c>> \in X => rank[<<g, c>>] = IF c <= n THEN n - c ELSE 0
      OBVIOUS
    <3> QED
      BY <2>2, <2>4, <3>1, <3>2
  <2> HIDE DEF X, stop, step, rank, Done, Child, c, g
  <2> QED
    BY <2>2, <2>4, <2>5
<1>3. PICK f : Iterates(f, X, stop, out, step)
  <2> HIDE DEF X, stop, out, step, rank
  <2> QED
    BY <1>2, IteratesAll
<1> DEFINE u == [k \in P |-> [y \in HeapsOf(n) |-> f[<<y, k>>]]]
<1>4. ASSUME NEW k \in P, NEW y \in HeapsOf(n)
      PROVE  u[k][y] = IF Done(y, k) THEN y ELSE u[Child(y, k)][Swap(y, k, Child(y, k))]
  <2> DEFINE x == <<y, k>>
             c == Child(y, k)
             g == Swap(y, k, c)
  <2>1. x \in X
    BY <1>4
  <2>2. f[x] = IF x \in stop THEN out[x] ELSE f[step[x]]
    <3> HIDE DEF X, stop, out, step, x
    <3> QED
      BY <1>3, <2>1, Zenon DEF Iterates
  <2>3. /\ (x \in stop) <=> Done(y, k)
        /\ out[x] = y
        /\ step[x] = <<g, c>>
    BY <2>1
  <2>4. ~Done(y, k) => u[c][g] = f[<<g, c>>]
    <3>1. ~Done(y, k) => c \in P /\ g \in HeapsOf(n)
      BY <1>1, Zenon
    <3> HIDE DEF Done, c, g
    <3> QED
      BY <3>1, Zenon
  <2>5. u[k][y] = f[x]
    BY Zenon
  <2> HIDE DEF u, x, Done, out, step, stop
  <2> QED
    BY <2>2, <2>3, <2>4, <2>5, Zenon
<1>5. u = Body(u)
  <2>1. \A k \in P : u[k] = Body(u)[k]
    <3> SUFFICES ASSUME NEW k \in P PROVE u[k] = Body(u)[k]
      BY Zenon
    <3> DEFINE e == [y \in HeapsOf(n) |->
                       IF Done(y, k) THEN y ELSE u[Child(y, k)][Swap(y, k, Child(y, k))]]
    <3>1. u[k] = [y \in HeapsOf(n) |-> f[<<y, k>>]]
      BY Zenon
    <3>2. \A y \in HeapsOf(n) : u[k][y] = e[y]
      BY <1>4, Zenon
    <3>3. u[k] = e
      BY <3>1, <3>2, Zenon
    <3> QED
      BY <3>3, Zenon
  <2> QED
    BY <2>1, Zenon
<1>6. Down(n) = CHOOSE v : v = Body(v)
  BY Zenon DEF Down
<1> DEFINE d == Down(n)
<1>7. d = Body(d)
  <2> HIDE DEF Body, u
  <2> QED
    BY <1>5, <1>6, Zenon
<1> HIDE DEF d
<1>8. Body(d)[i][h] = IF Done(h, i) THEN h ELSE d[Child(h, i)][Swap(h, i, Child(h, i))]
  BY Zenon
<1>9. d[i][h] = Body(d)[i][h]
  <2> HIDE DEF Body
  <2> QED
    BY <1>7, Zenon
<1> QED
  BY <1>8, <1>9, Zenon DEF d
-----------------------------------------------------------------------------
(* What up and down do.                                                    *)

\* What the queue holds.
Items(h) == {[value |-> h[i].value, priority |-> h[i].priority] : i \in DOMAIN h}

\* No value is queued twice.
Distinct(h) == \A i, k \in DOMAIN h : h[i].value = h[k].value => i = k

Placed(h) == \A i \in DOMAIN h : h[i].index = i

\* The first n items are a heap.
Sorted(h, n) == \A k \in 2..n : h[k].priority <= h[k \div 2].priority

\* Slice g has the items of h in other places, the same after place n.
Rearranges(g, h, n) ==
  /\ g \in Seq(HeapItem)
  /\ Len(g) = Len(h)
  /\ Items(g) = Items(h)
  /\ Placed(h) => Placed(g)
  /\ Distinct(h) => Distinct(g)
  /\ \A k \in DOMAIN h : k > n => g[k] = h[k]

\* A slice is a rearrangement of itself ...
LEMMA RearrangesSelf ==
  ASSUME NEW n, NEW h \in Seq(HeapItem)
  PROVE  Rearranges(h, h, n)
BY Zenon DEF Rearranges

\* ... and one of a rearrangement is one of the slice.
LEMMA RearrangesAgain ==
  ASSUME NEW m \in Nat, NEW n \in Nat, m <= n, NEW f, NEW g, NEW h \in Seq(HeapItem),
         Rearranges(g, h, n), Rearranges(f, g, m)
  PROVE  Rearranges(f, h, n)
<1>1. g \in Seq(HeapItem) /\ DOMAIN g = DOMAIN h /\ \A k \in DOMAIN h : k \in Nat
  BY DEF Rearranges
<1>2. ASSUME NEW k \in DOMAIN h, k > n PROVE f[k] = h[k]
  <2>1. k > m
    BY <1>1, <1>2
  <2> QED
    BY <1>1, <1>2, <2>1, Zenon DEF Rearranges
<1> QED
  BY <1>2, Zenon DEF Rearranges

\* Swap rearranges.
LEMMA SwapRearranges ==
  ASSUME NEW n \in Nat, NEW h \in HeapsOf(n), NEW i \in 1..n, NEW j \in 1..n
  PROVE  Rearranges(Swap(h, i, j), h, n)
<1> DEFINE g == Swap(h, i, j)
           It(a) == [value |-> a.value, priority |-> a.priority]
           s(k) == Other(k, i, j)
<1>1. h \in Seq(HeapItem) /\ i \in 1..Len(h) /\ j \in 1..Len(h) /\ DOMAIN h = 1..Len(h)
  BY DEF HeapsOf
<1>2. /\ g \in Seq(HeapItem) /\ Len(g) = Len(h)
      /\ \A k \in DOMAIN h : /\ g[k].value = h[s(k)].value
                             /\ g[k].priority = h[s(k)].priority
                             /\ k \in {i, j} => g[k].index = k
                             /\ k \notin {i, j} => g[k] = h[k]
  <2>1. Exchanges(g, h, i, j)
    BY <1>1, SwapItems, Zenon
  <2> HIDE DEF g
  <2> QED
    BY <1>1, <2>1, Zenon DEF Exchanges
<1> HIDE DEF g
<1>3. DOMAIN g = DOMAIN h
  BY <1>1, <1>2
<1>4. \A k \in DOMAIN h : s(k) \in DOMAIN h /\ s(s(k)) = k
  BY <1>1 DEF Other
<1> HIDE DEF s
<1>5. Items(g) = Items(h)
  <2>1. Items(g) = {It(h[s(k)]) : k \in DOMAIN h}
    BY <1>2, <1>3 DEF Items
  <2>2. {It(h[s(k)]) : k \in DOMAIN h} = {It(h[k]) : k \in DOMAIN h}
    <3> HIDE DEF It
    <3>1. ASSUME NEW k \in DOMAIN h
          PROVE  /\ It(h[s(k)]) \in {It(h[m]) : m \in DOMAIN h}
                 /\ It(h[k]) \in {It(h[s(m)]) : m \in DOMAIN h}
      <4>1. s(k) \in DOMAIN h /\ s(s(k)) = k
        BY <1>4, <3>1, Zenon
      <4>2. It(h[s(s(k))]) \in {It(h[s(m)]) : m \in DOMAIN h}
        BY <4>1, Zenon
      <4> QED
        BY <4>1, <4>2, Zenon
    <3> QED
      BY <3>1, Zenon
  <2> QED
    BY <2>1, <2>2, Zenon DEF Items
<1>6. Placed(h) => Placed(g)
  BY <1>2, <1>3 DEF Placed
<1>7. Distinct(h) => Distinct(g)
  <2> SUFFICES ASSUME Distinct(h), NEW a \in DOMAIN h, NEW b \in DOMAIN h,
                      g[a].value = g[b].value
               PROVE  a = b
    BY <1>3 DEF Distinct
  <2>1. h[s(a)].value = h[s(b)].value
    BY <1>2, Zenon
  <2>2. s(a) = s(b)
    BY <1>4, <2>1, Zenon DEF Distinct
  <2> QED
    BY <1>4, <2>2, Zenon
<1>8. \A k \in DOMAIN h : k > n => g[k] = h[k]
  BY <1>1, <1>2
<1> QED
  BY <1>2, <1>5, <1>6, <1>7, <1>8 DEF Rearranges, g
\* A heap but for the item in place j, which may be later than its parent, not
\* than its children's new parent once the two are swapped.
SortedAbove(h, j) ==
  /\ \A k \in 2..Len(h) : k # j => h[k].priority <= h[k \div 2].priority
  /\ \A k \in 2..Len(h) : k \div 2 = j /\ j > 1 => h[k].priority <= h[j \div 2].priority

\* A heap in the first n places but for the item in place i, which may be
\* earlier than its children.
SortedUnder(h, i, n) ==
  /\ \A k \in 2..n : k \div 2 # i => h[k].priority <= h[k \div 2].priority
  /\ \A k \in 2..n : k \div 2 = i /\ i > 1 => h[k].priority <= h[i \div 2].priority

\* Where the priorities are after a Swap.
LEMMA SwapPriorities ==
  ASSUME NEW h \in Seq(HeapItem), NEW i \in 1..Len(h), NEW j \in 1..Len(h), i # j
  PROVE  /\ Swap(h, i, j)[i].priority = h[j].priority
         /\ Swap(h, i, j)[j].priority = h[i].priority
         /\ \A k \in 1..Len(h) :
              k # i /\ k # j => Swap(h, i, j)[k].priority = h[k].priority
<1> DEFINE g == Swap(h, i, j)
<1>1. Exchanges(g, h, i, j)
  BY SwapItems, Zenon
<1> HIDE DEF g
<1>2. \A k \in 1..Len(h) : g[k].priority = h[Other(k, i, j)].priority
  BY <1>1, Zenon DEF Exchanges
<1>3. /\ g[i].priority = h[j].priority
      /\ g[j].priority = h[i].priority
      /\ \A k \in 1..Len(h) : k # i /\ k # j => g[k].priority = h[k].priority
  BY <1>2 DEF Other
<1> QED
  BY <1>3, Zenon DEF g

\* One turn of up: the place that is out of order is the parent's now.
LEMMA UpTurn ==
  ASSUME NEW j \in Nat, NEW h \in HeapsOf(j), j \div 2 # 0, Less(h, j, j \div 2),
         SortedAbove(h, j)
  PROVE  SortedAbove(Swap(h, j \div 2, j), j \div 2)
<1> DEFINE i == j \div 2
           g == Swap(h, i, j)
           p(k) == h[k].priority
           q(k) == g[k].priority
           n == Len(h)
<1>1. h \in Seq(HeapItem) /\ n \in Nat /\ j \in 1..n /\ i \in 1..n /\ i < j /\ j \in 2..n
  BY Halves DEF HeapsOf
<1>2. Len(g) = n
  BY <1>1, SwapItems, Zenon DEF Exchanges
<1>3. q(i) = p(j) /\ q(j) = p(i) /\ \A k \in 1..n : k # i /\ k # j => q(k) = p(k)
  <2>1. i # j
    BY <1>1
  <2> QED
    BY <1>1, <2>1, SwapPriorities, Zenon
<1>4. /\ \A k \in 2..n : k # j => p(k) <= p(k \div 2)
      /\ \A k \in 2..n : k \div 2 = j => p(k) <= p(i)
      /\ p(j) > p(i)
  <2>1. j > 1
    BY <1>1
  <2> QED
    BY <2>1, Zenon DEF SortedAbove, Less
<1>5. \A k \in 1..n : p(k) \in Nat
  BY <1>1, ItemFields, Zenon
<1>6. \A k \in 2..n : k \in 1..n /\ k \div 2 \in 1..n /\ k \div 2 < k
  BY <1>1, Halves
<1> SUFFICES /\ \A k \in 2..n : k # i => q(k) <= q(k \div 2)
             /\ \A k \in 2..n : k \div 2 = i /\ i > 1 => q(k) <= q(i \div 2)
  BY <1>2, Zenon DEF SortedAbove
<1> HIDE DEF g, p, q, n
<1>7. ASSUME NEW k \in 2..n, k # i PROVE q(k) <= q(k \div 2)
  <2>1. CASE k = j
    BY <1>3, <1>4, <1>5, <1>1, <2>1
  <2>2. CASE k # j /\ k \div 2 = i
    BY <1>1, <1>3, <1>4, <1>5, <1>6, <1>7, <2>2
  <2>3. CASE k # j /\ k \div 2 = j
    BY <1>1, <1>3, <1>4, <1>5, <1>6, <1>7, <2>3
  <2>4. CASE k # j /\ k \div 2 # i /\ k \div 2 # j
    BY <1>3, <1>4, <1>6, <1>7, <2>4
  <2> QED
    BY <2>1, <2>2, <2>3, <2>4
<1>8. ASSUME NEW k \in 2..n, k \div 2 = i, i > 1 PROVE q(k) <= q(i \div 2)
  <2>1. i \in 2..n /\ i \div 2 \in 1..n /\ i \div 2 < i
    BY <1>1, <1>6, <1>8
  <2>2. q(i \div 2) = p(i \div 2) /\ p(i) <= p(i \div 2)
    BY <1>1, <1>3, <1>4, <2>1
  <2>3. q(k) = p(i) \/ (q(k) = p(k) /\ p(k) <= p(i))
    BY <1>1, <1>3, <1>4, <1>6, <1>8
  <2> QED
    BY <1>1, <1>5, <1>6, <2>1, <2>2, <2>3
<1> QED
  BY <1>7, <1>8, Zenon

\* up rearranges the slice, and makes a heap of one that is a heap but for the
\* item it starts from (container/heap, up).
LEMMA UpSorts ==
  ASSUME NEW j \in Nat, NEW h \in HeapsOf(j)
  PROVE  /\ Rearranges(Up[j][h], h, j)
         /\ SortedAbove(h, j) => Sorted(Up[j][h], Len(h))
<1> DEFINE Good(y, k) == /\ Rearranges(Up[k][y], y, k)
                         /\ SortedAbove(y, k) => Sorted(Up[k][y], Len(y))
           T == {k \in Nat : \E y \in HeapsOf(k) : ~Good(y, k)}
<1> SUFFICES ASSUME T # {} PROVE FALSE
  BY Zenon
<1>1. PICK k \in T : \A m \in T : k <= m
  <2>1. T \subseteq Nat
    BY Zenon
  <2> HIDE DEF T
  <2> QED
    BY <2>1, LeastNat, Zenon
<1>2. PICK y \in HeapsOf(k) : ~Good(y, k)
  BY <1>1, Zenon
<1>3. k \in Nat /\ y \in Seq(HeapItem) /\ k <= Len(y) /\ Len(y) \in Nat
  BY <1>1, <1>2 DEF HeapsOf
<1> DEFINE i == k \div 2
           g == Swap(y, i, k)
<1>4. CASE i = 0 \/ ~Less(y, k, i)
  <2>1. Up[k][y] = y
    BY <1>2, <1>3, <1>4, UpEquation, Zenon
  <2>2. SortedAbove(y, k) => Sorted(y, Len(y))
    <3> SUFFICES ASSUME SortedAbove(y, k), NEW m \in 2..Len(y)
                 PROVE  y[m].priority <= y[m \div 2].priority
      BY DEF Sorted
    <3>1. CASE m # k
      BY <3>1, Zenon DEF SortedAbove
    <3>2. CASE m = k
      <4>1. i # 0 /\ i \in 1..Len(y) /\ k \in 1..Len(y)
        BY <1>3, <3>2, Halves
      <4>2. ~(y[k].priority > y[i].priority)
        BY <1>4, <4>1 DEF Less
      <4>3. y[k].priority \in Nat /\ y[i].priority \in Nat
        BY <1>3, <4>1, ItemFields, Zenon
      <4> QED
        BY <3>2, <4>2, <4>3
    <3> QED
      BY <3>1, <3>2
  <2> QED
    BY <1>2, <1>3, <2>1, <2>2, RearrangesSelf, Zenon
<1>5. CASE i # 0 /\ Less(y, k, i)
  <2>1. Up[k][y] = Up[i][g]
    BY <1>2, <1>3, <1>5, UpEquation, Zenon
  <2>2. i \in Nat /\ i < k /\ i \in 1..k /\ k \in 1..k
    BY <1>3, <1>5, Halves
  <2>3. Rearranges(g, y, k)
    BY <1>2, <1>3, <2>2, SwapRearranges, Zenon
  <2>4. g \in HeapsOf(i) /\ Len(g) = Len(y)
    <3>1. g \in Seq(HeapItem) /\ Len(g) = Len(y)
      BY <2>3, Zenon DEF Rearranges
    <3> HIDE DEF g
    <3> QED
      BY <1>3, <2>2, <3>1 DEF HeapsOf
  <2>5. i \notin T
    <3> HIDE DEF T
    <3> QED
      BY <1>1, <1>3, <2>2
  <2>6. Good(g, i)
    BY <2>2, <2>4, <2>5, Zenon
  <2>7. Rearranges(Up[k][y], y, k)
    <3>1. i <= k
      BY <2>2, <1>3
    <3>2. Rearranges(Up[i][g], g, i)
      BY <2>6, Zenon
    <3> HIDE DEF T, i, g
    <3>3. Rearranges(Up[i][g], y, k)
      BY <1>3, <2>2, <2>3, <3>1, <3>2, RearrangesAgain
    <3> QED
      BY <2>1, <3>3, Zenon
  <2>8. SortedAbove(y, k) => SortedAbove(g, i)
    BY <1>2, <1>3, <1>5, UpTurn, Zenon
  <2> QED
    BY <1>2, <2>1, <2>4, <2>6, <2>7, <2>8, Zenon
<1> QED
  BY <1>4, <1>5
\* One turn of down: the place that is out of order is the child's now.
LEMMA DownTurn ==
  ASSUME NEW n \in Nat, NEW h \in HeapsOf(n), NEW i \in Nat \ {0}, 2 * i <= n,
         Less(h, FirstChild(h, i, n), i), SortedUnder(h, i, n)
  PROVE  SortedUnder(Swap(h, i, FirstChild(h, i, n)), FirstChild(h, i, n), n)
<1> DEFINE j == FirstChild(h, i, n)
           g == Swap(h, i, j)
           p(k) == h[k].priority
           q(k) == g[k].priority
<1>1. /\ j \in 1..n /\ i < j /\ j \div 2 = i
      /\ \A k \in 1..n : k \div 2 = i => p(k) <= p(j)
  BY ChildChosen, Zenon
<1>2. p(j) > p(i)
  BY Zenon DEF Less
<1> HIDE DEF j
<1>3. h \in Seq(HeapItem) /\ i \in 1..n /\ j \in 2..n /\ i # j
      /\ \A k \in 1..n : k \in 1..Len(h)
  BY <1>1 DEF HeapsOf
<1>4. q(i) = p(j) /\ q(j) = p(i) /\ \A k \in 1..n : k # i /\ k # j => q(k) = p(k)
  <2>1. i \in 1..Len(h) /\ j \in 1..Len(h)
    BY <1>1, <1>3, Zenon
  <2>2. /\ q(i) = p(j) /\ q(j) = p(i)
        /\ \A k \in 1..Len(h) : k # i /\ k # j => q(k) = p(k)
    BY <1>3, <2>1, SwapPriorities, Zenon
  <2> QED
    BY <1>3, <2>2, Zenon
<1>5. /\ \A k \in 2..n : k \div 2 # i => p(k) <= p(k \div 2)
      /\ \A k \in 2..n : k \div 2 = i /\ i > 1 => p(k) <= p(i \div 2)
  BY Zenon DEF SortedUnder
<1>6. \A k \in 1..n : p(k) \in Nat
  BY <1>3, ItemFields, Zenon
<1>7. \A k \in 2..n : k \in 1..n /\ k \div 2 \in 1..n /\ k \div 2 < k
  BY Halves
<1> SUFFICES /\ \A k \in 2..n : k \div 2 # j => q(k) <= q(k \div 2)
             /\ \A k \in 2..n : k \div 2 = j /\ j > 1 => q(k) <= q(j \div 2)
  BY Zenon DEF SortedUnder, j
<1> HIDE DEF g, p, q
<1>8. ASSUME NEW k \in 2..n, k \div 2 # j PROVE q(k) <= q(k \div 2)
  <2>1. CASE k = i
    <3>1. i \div 2 \in 1..n /\ i \div 2 < i /\ i > 1
      BY <1>7, <2>1
    <3>2. q(i \div 2) = p(i \div 2)
      BY <1>1, <1>3, <1>4, <3>1
    <3>3. p(j) <= p(i \div 2)
      BY <1>1, <1>3, <1>5, <3>1
    <3> QED
      BY <1>4, <2>1, <3>2, <3>3
  <2>2. CASE k = j
    BY <1>1, <1>2, <1>3, <1>4, <1>6, <2>2
  <2>3. CASE k # i /\ k # j /\ k \div 2 = i
    BY <1>1, <1>4, <1>7, <2>3
  <2>4. CASE k # i /\ k # j /\ k \div 2 # i
    BY <1>4, <1>5, <1>7, <1>8, <2>4
  <2> QED
    BY <2>1, <2>2, <2>3, <2>4
<1>9. ASSUME NEW k \in 2..n, k \div 2 = j PROVE q(k) <= q(i)
  <2>1. k \in 1..n /\ k # i /\ k # j /\ k \div 2 # i
    BY <1>1, <1>3, <1>7, <1>9
  <2>2. q(k) = p(k) /\ p(k) <= p(j)
    BY <1>4, <1>5, <1>9, <2>1
  <2> QED
    BY <1>4, <2>2
<1> QED
  BY <1>1, <1>8, <1>9, Zenon

\* down rearranges the first n places, and makes a heap of one that is a heap
\* but for the item it starts from (container/heap, down).
LEMMA DownSorts ==
  ASSUME NEW n \in Nat, NEW i \in Nat \ {0}, NEW h \in HeapsOf(n)
  PROVE  /\ Rearranges(Down(n)[i][h], h, n)
         /\ SortedUnder(h, i, n) => Sorted(Down(n)[i][h], n)
<1> DEFINE P == Nat \ {0}
           Good(y, k) == /\ Rearranges(Down(n)[k][y], y, n)
                         /\ SortedUnder(y, k, n) => Sorted(Down(n)[k][y], n)
           Rank(k) == IF k <= n THEN n - k ELSE 0
           Bad(k) == \E y \in HeapsOf(n) : ~Good(y, k)
           B == {k \in P : Bad(k)}
           T == {Rank(k) : k \in B}
<1> SUFFICES ASSUME T # {} PROVE FALSE
  BY Zenon
<1>1. PICK k \in B : \A m \in B : Rank(k) <= Rank(m)
  <2>1. T \subseteq Nat
    <3> HIDE DEF Bad
    <3> QED
      OBVIOUS
  <2> HIDE DEF B, Rank
  <2>2. PICK r \in T : \A s \in T : r <= s
    <3> HIDE DEF T
    <3> QED
      BY <2>1, LeastNat, Zenon
  <2> QED
    BY <2>2, Zenon
<1>2. k \in P /\ Bad(k)
  BY <1>1, Zenon
<1>3. PICK y \in HeapsOf(n) : ~Good(y, k)
  BY <1>2, Zenon
<1>4. y \in Seq(HeapItem) /\ n <= Len(y) /\ Len(y) \in Nat
  BY <1>3 DEF HeapsOf
<1> DEFINE j == FirstChild(y, k, n)
           g == Swap(y, k, j)
<1>5. CASE 2 * k > n \/ ~Less(y, j, k)
  <2>1. Down(n)[k][y] = y
    BY <1>2, <1>3, <1>5, DownEquation, Zenon
  <2>2. SortedUnder(y, k, n) => Sorted(y, n)
    <3> SUFFICES ASSUME SortedUnder(y, k, n), NEW m \in 2..n
                 PROVE  y[m].priority <= y[m \div 2].priority
      BY DEF Sorted
    <3>1. CASE m \div 2 # k
      BY <3>1, Zenon DEF SortedUnder
    <3>2. CASE m \div 2 = k
      <4>1. 2 * k <= n /\ m \in 1..n /\ k \in 1..n
        BY <1>2, <3>2, Halves
      <4>2. j \in 1..n /\ y[m].priority <= y[j].priority
        BY <1>2, <1>3, <3>2, <4>1, ChildChosen, Zenon
      <4> HIDE DEF j
      <4>3. ~(y[j].priority > y[k].priority)
        BY <1>2, <1>5, <4>1 DEF Less
      <4>4. \A a \in 1..n : a \in 1..Len(y)
        BY <1>4
      <4>5. y[m].priority \in Nat /\ y[j].priority \in Nat /\ y[k].priority \in Nat
        BY <1>4, <4>1, <4>2, <4>4, ItemFields, Zenon
      <4> QED
        BY <3>2, <4>2, <4>3, <4>5
    <3> QED
      BY <3>1, <3>2
  <2> QED
    BY <1>3, <1>4, <2>1, <2>2, RearrangesSelf, Zenon
<1>6. CASE ~(2 * k > n) /\ Less(y, j, k)
  <2>1. Down(n)[k][y] = Down(n)[j][g]
    BY <1>2, <1>3, <1>6, DownEquation, Zenon
  <2>2. 2 * k <= n
    BY <1>2, <1>6
  <2>3. j \in 1..n /\ k < j
    BY <1>2, <1>3, <2>2, ChildChosen, Zenon
  <2>4. SortedUnder(y, k, n) => SortedUnder(g, j, n)
    BY <1>2, <1>3, <1>6, <2>2, DownTurn, Zenon
  <2> HIDE DEF j
  <2>5. k \in 1..n /\ j \in P /\ Rank(j) < Rank(k) /\ Rank(j) \in Nat /\ Rank(k) \in Nat
    BY <1>2, <2>2, <2>3
  <2>6. Rearranges(g, y, n)
    BY <1>3, <2>3, <2>5, SwapRearranges, Zenon
  <2> HIDE DEF g
  <2>7. g \in HeapsOf(n)
    <3>1. g \in Seq(HeapItem) /\ Len(g) = Len(y)
      BY <2>6, Zenon DEF Rearranges
    <3> QED
      BY <1>4, <3>1 DEF HeapsOf
  <2>8. j \notin B
    <3> HIDE DEF B, Rank
    <3> QED
      BY <1>1, <2>5
  <2>9. Good(g, j)
    BY <2>5, <2>7, <2>8, Zenon
  <2>10. Rearranges(Down(n)[k][y], y, n)
    <3>1. Rearranges(Down(n)[j][g], g, n) /\ n <= n
      BY <2>9
    <3>2. Rearranges(Down(n)[j][g], y, n)
      BY <1>4, <2>6, <3>1, RearrangesAgain, Zenon
    <3> QED
      BY <2>1, <3>2, Zenon
  <2> QED
    BY <1>3, <2>1, <2>4, <2>9, <2>10, Zenon
<1> QED
  BY <1>5, <1>6
-----------------------------------------------------------------------------
(* The queue's methods.                                                    *)

\* A slice as the queue keeps it.
Kept(h) ==
  /\ h \in Seq(HeapItem)
  /\ Placed(h)
  /\ Distinct(h)
  /\ Sorted(h, Len(h))

Entry(a) == [value |-> a.value, priority |-> a.priority]

\* heap.Push keeps the heap, and adds the item to what the queue holds.
LEMMA PushKeeps ==
  ASSUME NEW h, Kept(h), NEW x \in HeapItem,
         \A k \in DOMAIN h : h[k].value # x.value
  PROVE  /\ Kept(HeapPush(h, x))
         /\ Items(HeapPush(h, x)) = Items(h) \cup {Entry(x)}
<1> DEFINE n == Len(h) + 1
           y == [x EXCEPT !.index = n]
           a == Append(h, y)
           g == Up[n][a]
<1>1. h \in Seq(HeapItem) /\ Len(h) \in Nat /\ n \in Nat /\ DOMAIN h = 1..Len(h)
  BY DEF Kept
<1>2. y \in HeapItem /\ y.value = x.value /\ y.priority = x.priority /\ y.index = n
  BY <1>1 DEF HeapItem
<1>3. /\ a \in Seq(HeapItem) /\ Len(a) = n /\ a[n] = y /\ DOMAIN a = 1..n
      /\ \A k \in 1..Len(h) : a[k] = h[k]
  <2> HIDE DEF y
  <2> QED
    BY <1>1, <1>2
<1> HIDE DEF a, y
<1>4. 1..n = 1..Len(h) \cup {n} /\ n \notin 1..Len(h) /\ \A k \in 1..Len(h) : k < n
  BY <1>1
<1>5. a \in HeapsOf(n)
  BY <1>1, <1>3 DEF HeapsOf
<1>6. Items(a) = Items(h) \cup {Entry(x)}
  <2>1. Items(a) = {Entry(a[k]) : k \in 1..Len(h) \cup {n}}
    BY <1>3, <1>4, Zenon DEF Items, Entry
  <2>2. Items(h) = {Entry(a[k]) : k \in 1..Len(h)}
    BY <1>1, <1>3 DEF Items, Entry
  <2>3. Entry(a[n]) = Entry(x)
    BY <1>2, <1>3, Zenon DEF Entry
  <2> QED
    BY <2>1, <2>2, <2>3
<1>7. Placed(a)
  BY <1>1, <1>2, <1>3, <1>4 DEF Placed, Kept
<1>8. Distinct(a)
  <2>1. \A k, m \in 1..Len(h) : a[k].value = a[m].value => k = m
    BY <1>1, <1>3, Zenon DEF Distinct, Kept
  <2>2. \A k \in 1..Len(h) : a[k].value # a[n].value
    BY <1>1, <1>2, <1>3, Zenon
  <2> QED
    BY <1>3, <1>4, <2>1, <2>2 DEF Distinct
<1>9. SortedAbove(a, n)
  <2> SUFFICES ASSUME NEW k \in 2..n
               PROVE  /\ k # n => a[k].priority <= a[k \div 2].priority
                      /\ k \div 2 # n
    BY <1>3 DEF SortedAbove
  <2>1. k \div 2 \in 1..Len(h) /\ k \div 2 # n /\ (k # n => k \in 2..Len(h) /\ k \in 1..Len(h))
    BY <1>1, Halves
  <2> QED
    BY <1>3, <2>1, Zenon DEF Kept, Sorted
<1>10. Rearranges(g, a, n) /\ Sorted(g, n)
  <2> HIDE DEF n
  <2> QED
    BY <1>1, <1>3, <1>5, <1>9, UpSorts, Zenon
<1>11. HeapPush(h, x) = g
  BY Zenon DEF HeapPush, a, y
<1> HIDE DEF g
<1>12. Kept(g) /\ Items(g) = Items(h) \cup {Entry(x)}
  BY <1>3, <1>6, <1>7, <1>8, <1>10, Zenon DEF Rearranges, Kept
<1> QED
  BY <1>11, <1>12, Zenon

\* heap.Pop and the Pop that cuts the slice keep the heap, and take the first
\* item from what the queue holds.
LEMMA PopKeeps ==
  ASSUME NEW h, Kept(h), h # <<>>
  PROVE  /\ Kept(SubSeq(HeapPop(h), 1, Len(h) - 1))
         /\ Items(SubSeq(HeapPop(h), 1, Len(h) - 1)) = Items(h) \ {Entry(h[1])}
<1> DEFINE n == Len(h)
           m == n - 1
           s == Swap(h, 1, n)
           g == Down(m)[1][s]
           f == SubSeq(g, 1, m)
<1>1. h \in Seq(HeapItem) /\ n \in Nat /\ n > 0 /\ m \in Nat /\ DOMAIN h = 1..n
  BY DEF Kept
<1> HIDE DEF n
<1>2. 1 \in 1..n /\ n \in 1..n /\ 1..n = 1..m \cup {n} /\ n \notin 1..m /\ m <= n /\ n > m
  BY <1>1
<1>3. h \in HeapsOf(n)
  BY <1>1 DEF HeapsOf, n
<1>4. Rearranges(s, h, n)
  BY <1>1, <1>2, <1>3, SwapRearranges, Zenon
<1>5. s[n].value = h[1].value /\ s[n].priority = h[1].priority
  <2>1. Exchanges(s, h, 1, n)
    BY <1>1, <1>2, SwapItems, Zenon DEF n
  <2> HIDE DEF s
  <2>2. s[n].value = h[Other(n, 1, n)].value /\ s[n].priority = h[Other(n, 1, n)].priority
    BY <1>2, <2>1, Zenon DEF Exchanges, n
  <2> QED
    BY <2>2 DEF Other
<1>6. SortedUnder(s, 1, m)
  <2> SUFFICES ASSUME NEW k \in 2..m, k \div 2 # 1
               PROVE  s[k].priority <= s[k \div 2].priority
    BY DEF SortedUnder
  <2>1. k \in 1..n /\ k \in 2..n /\ k # 1 /\ k # n
        /\ k \div 2 \in 1..n /\ k \div 2 # 1 /\ k \div 2 # n /\ 1 # n
    BY <1>1, Halves
  <2>2. \A c \in 1..n : c # 1 /\ c # n => s[c].priority = h[c].priority
    BY <1>1, <1>2, <2>1, SwapPriorities, Zenon DEF n
  <2>3. h[k].priority <= h[k \div 2].priority
    BY <2>1, Zenon DEF Kept, Sorted, n
  <2> HIDE DEF s
  <2> QED
    BY <2>1, <2>2, <2>3
<1> HIDE DEF s
<1>7. s \in Seq(HeapItem) /\ Len(s) = n /\ DOMAIN s = 1..n /\ s \in HeapsOf(m)
  BY <1>1, <1>2, <1>4 DEF Rearranges, HeapsOf, n
<1>8. Rearranges(g, s, m) /\ Sorted(g, m)
  <2>1. 1 \in Nat \ {0}
    OBVIOUS
  <2> HIDE DEF m
  <2> QED
    BY <1>1, <1>6, <1>7, <2>1, DownSorts, Zenon
<1>9. Rearranges(g, h, n)
  <2> HIDE DEF g, m
  <2> QED
    BY <1>1, <1>2, <1>4, <1>8, RearrangesAgain, Zenon
<1>10. g[n] = s[n]
  BY <1>2, <1>7, <1>8, Zenon DEF Rearranges
<1> HIDE DEF g
<1>11. g \in Seq(HeapItem) /\ Len(g) = n /\ DOMAIN g = 1..n /\ Placed(g) /\ Distinct(g)
       /\ Items(g) = Items(h)
  BY <1>9 DEF Rearranges, Kept, n
<1>12. /\ f \in Seq(HeapItem) /\ Len(f) = m /\ DOMAIN f = 1..m
       /\ \A k \in 1..m : f[k] = g[k]
  BY <1>1, <1>2, <1>11
<1>13. HeapPop(h) = g
  BY Zenon DEF HeapPop, g, s, n
<1> HIDE DEF f
<1>14. Placed(f) /\ Distinct(f)
  BY <1>2, <1>11, <1>12 DEF Placed, Distinct
<1>15. Sorted(f, m)
  <2> SUFFICES ASSUME NEW k \in 2..m PROVE f[k].priority <= f[k \div 2].priority
    BY DEF Sorted
  <2>1. k \in 1..m /\ k \div 2 \in 1..m
    BY <1>1, Halves
  <2>2. g[k].priority <= g[k \div 2].priority
    BY <1>8, Zenon DEF Sorted
  <2> QED
    BY <1>12, <2>1, <2>2, Zenon
<1>16. Items(f) = Items(h) \ {Entry(h[1])}
  <2>1. Items(g) = {Entry(g[k]) : k \in 1..m \cup {n}}
    BY <1>2, <1>11, Zenon DEF Items, Entry
  <2>2. Items(f) = {Entry(g[k]) : k \in 1..m}
    BY <1>12 DEF Items, Entry
  <2>3. Entry(g[n]) = Entry(h[1])
    BY <1>5, <1>10, Zenon DEF Entry
  <2>4. \A k \in 1..m : Entry(g[k]) # Entry(g[n])
    <3> SUFFICES ASSUME NEW k \in 1..m, Entry(g[k]) = Entry(g[n]) PROVE FALSE
      OBVIOUS
    <3>1. g[k].value = g[n].value
      BY DEF Entry
    <3> QED
      BY <1>2, <1>11, <3>1 DEF Distinct
  <2> QED
    BY <1>11, <2>1, <2>2, <2>3, <2>4
<1> QED
  BY <1>12, <1>13, <1>14, <1>15, <1>16, Zenon DEF Kept, f, n
\* The first item of the heap is one of the latest.
LEMMA FirstIsLatest ==
  ASSUME NEW h, Kept(h)
  PROVE  \A k \in 1..Len(h) : h[k].priority <= h[1].priority
<1> DEFINE T == {k \in 1..Len(h) : ~(h[k].priority <= h[1].priority)}
<1> SUFFICES ASSUME T # {} PROVE FALSE
  BY Zenon
<1>1. h \in Seq(HeapItem) /\ Len(h) \in Nat
  BY DEF Kept
<1>2. \A k \in 1..Len(h) : h[k].priority \in Nat
  BY <1>1, ItemFields, Zenon
<1>3. PICK k \in T : \A m \in T : k <= m
  <2>1. T \subseteq Nat
    OBVIOUS
  <2> HIDE DEF T
  <2> QED
    BY <2>1, LeastNat, Zenon
<1>4. k \in 1..Len(h) /\ ~(h[k].priority <= h[1].priority)
  BY <1>3
<1>5. k # 1
  <2> SUFFICES ASSUME k = 1 PROVE FALSE
    OBVIOUS
  <2>1. 1 \in 1..Len(h)
    BY <1>4
  <2> QED
    BY <1>2, <1>4, <2>1
<1>6. k \in 2..Len(h) /\ k \div 2 \in 1..Len(h) /\ ~(k <= k \div 2) /\ 1 \in 1..Len(h)
  BY <1>1, <1>4, <1>5, Halves
<1>7. h[k \div 2].priority <= h[1].priority
  BY <1>3, <1>6, Zenon
<1>8. h[k].priority <= h[k \div 2].priority
  BY <1>6, Zenon DEF Kept, Sorted
<1> QED
  <2>1. \A a, b, c \in Nat : a <= b /\ b <= c => a <= c
    OBVIOUS
  <2>2. h[k].priority \in Nat /\ h[k \div 2].priority \in Nat /\ h[1].priority \in Nat
    BY <1>2, <1>4, <1>6, Zenon
  <2> QED
    BY <1>4, <1>7, <1>8, <2>1, <2>2, Zenon

\* The queue holds as many entries as the slice has places.
LEMMA EntriesCounted ==
  ASSUME NEW h, Kept(h)
  PROVE  Cardinality(Items(h)) = Len(h)
<1> DEFINE D == 1..Len(h)
           f == [k \in D |-> Entry(h[k])]
<1>1. Len(h) \in Nat /\ DOMAIN h = D
  BY DEF Kept
<1>2. IsFiniteSet(D) /\ Cardinality(D) = Len(h)
  <2>1. PICK n \in Nat : n = Len(h)
    BY <1>1
  <2>2. 1 \in Int /\ n \in Int
    OBVIOUS
  <2>3. /\ IsFiniteSet(1..n)
        /\ Cardinality(1..n) = IF 1 > n THEN 0 ELSE n - 1 + 1
    BY <2>2, FS_Interval, Zenon
  <2>4. (IF 1 > n THEN 0 ELSE n - 1 + 1) = n
    OBVIOUS
  <2>5. Cardinality(1..n) = n
    BY <2>3, <2>4
  <2> QED
    BY <2>1, <2>3, <2>5, Zenon
<1>3. Items(h) = {Entry(h[k]) : k \in D}
  BY <1>1, Zenon DEF Items, Entry
<1>4. \A k, m \in D : Entry(h[k]) = Entry(h[m]) => k = m
  <2> SUFFICES ASSUME NEW k \in D, NEW m \in D, Entry(h[k]) = Entry(h[m])
               PROVE  k = m
    BY Zenon
  <2>1. h[k].value = h[m].value
    BY DEF Entry
  <2> QED
    BY <1>1, <2>1, Zenon DEF Kept, Distinct
<1> HIDE DEF D
<1>5. f \in Bijection(D, Items(h))
  <2> DEFINE e(k) == Entry(h[k])
  <2> HIDE DEF e
  <2>1. /\ f = [k \in D |-> e(k)] /\ Items(h) = {e(k) : k \in D}
        /\ \A k, m \in D : e(k) = e(m) => k = m
    BY <1>3, <1>4, Zenon DEF e
  <2> HIDE DEF f
  <2> QED
    BY <2>1 DEF Bijection, Injection, Surjection, IsInjective
<1> QED
  <2>1. ExistsBijection(D, Items(h))
    BY <1>5, Zenon DEF ExistsBijection
  <2> QED
    BY <1>2, <2>1, FS_Bijection, Zenon

\* The inductive invariant. Distinct is what HeapOrdered and HeapTypeOK do not
\* say: without it Pop could leave an entry like the one it takes.
HeapInv == Kept(heap) /\ now \in 0..MaxTime

\* It is what the two invariants say, and that no value is queued twice.
LEMMA HeapInvMeans == HeapInv <=> HeapTypeOK /\ HeapOrdered /\ Distinct(heap)
<1>1. ASSUME heap \in Seq(HeapItem)
      PROVE  HeapOrdered <=> Sorted(heap, Len(heap))
  <2>1. DOMAIN heap = 1..Len(heap) /\ Len(heap) \in Nat
    BY <1>1
  <2>2. \A i : i \in 1..Len(heap) /\ i > 1 <=> i \in 2..Len(heap)
    BY <2>1
  <2> QED
    BY <2>1, <2>2, Zenon DEF HeapOrdered, Sorted
<1> QED
  BY <1>1, Zenon DEF HeapInv, Kept, Placed, HeapTypeOK

\* What Push hands to heap.Push is an item, and adds its entry.
LEMMA PushStep ==
  ASSUME HeapInv, NEW v \in Values \ Queued, Push(v)
  PROVE  HeapInv' /\ Items(heap)' = Items(heap) \cup {[value |-> v, priority |-> now \div Second]}
<1> DEFINE x == [value |-> v, priority |-> now \div Second, index |-> 0]
<1>1. now \in Nat /\ now' = now
  BY HeapAssumption DEF HeapInv, Push
<1>2. now \div Second \in Nat
  BY <1>1, HeapAssumption
<1>3. x \in HeapItem /\ x.value = v /\ Entry(x) = [value |-> v, priority |-> now \div Second]
  BY <1>2 DEF HeapItem, Entry
<1>4. \A k \in DOMAIN heap : heap[k].value # x.value
  BY <1>3, Zenon DEF Queued
<1>5. heap' = HeapPush(heap, x)
  BY DEF Push
<1> HIDE DEF x
<1>6. Kept(HeapPush(heap, x)) /\ Items(HeapPush(heap, x)) = Items(heap) \cup {Entry(x)}
  BY <1>3, <1>4, PushKeeps, Zenon DEF HeapInv
<1>7. Kept(heap') /\ Items(heap') = Items(heap) \cup {Entry(x)}
  BY <1>5, <1>6, Zenon
<1>8. Kept(heap)' /\ Items(heap)' = Items(heap) \cup {Entry(x)}
  BY <1>7 DEF Kept, Items, Placed, Distinct, Sorted
<1> QED
  BY <1>1, <1>3, <1>8 DEF HeapInv

\* Pop takes the entry of the first item.
LEMMA PopStep ==
  ASSUME HeapInv, Pop
  PROVE  HeapInv' /\ Items(heap)' = Items(heap) \ {Entry(heap[1])}
<1>1. now' = now /\ heap # <<>> /\ heap' = SubSeq(HeapPop(heap), 1, Len(heap) - 1)
  BY DEF Pop
<1>2. Kept(heap') /\ Items(heap') = Items(heap) \ {Entry(heap[1])}
  BY <1>1, PopKeeps, Zenon DEF HeapInv
<1>3. Kept(heap)' /\ Items(heap)' = Items(heap) \ {Entry(heap[1])}
  BY <1>2 DEF Kept, Items, Placed, Distinct, Sorted
<1> QED
  BY <1>1, <1>3 DEF HeapInv

\* Every step keeps the invariant.
LEMMA HeapInvStep == HeapInv /\ [HeapNext]_heapVars => HeapInv'
<1> SUFFICES ASSUME HeapInv, [HeapNext]_heapVars PROVE HeapInv'
  OBVIOUS
<1>1. ASSUME heap' = heap, now' \in 0..MaxTime PROVE HeapInv'
  BY <1>1 DEF HeapInv, Kept, Placed, Distinct, Sorted
<1>2. now \in 0..MaxTime /\ MaxTime \in Nat
  BY HeapAssumption DEF HeapInv
<1>3. ASSUME NEW v \in Values \ Queued, Push(v) PROVE HeapInv'
  BY <1>3, PushStep
<1>4. CASE Pop
  BY <1>4, PopStep
<1>5. CASE PassTime
  BY <1>1, <1>2, <1>5 DEF PassTime
<1>6. CASE SetBack
  BY <1>1, <1>2, <1>6 DEF SetBack
<1>7. CASE UNCHANGED heapVars
  BY <1>1, <1>2, <1>7 DEF heapVars
<1> QED
  BY <1>3, <1>4, <1>5, <1>6, <1>7 DEF HeapNext, PushRefused, PopEmpty

\* The initial slice is empty.
LEMMA HeapInvInit == HeapInit => HeapInv
<1> SUFFICES ASSUME HeapInit PROVE HeapInv
  OBVIOUS
<1>1. heap = <<>> /\ now \in 0..MaxTime
  BY HeapAssumption DEF HeapInit
<1>2. heap \in Seq(HeapItem) /\ Len(heap) = 0 /\ DOMAIN heap = {}
  BY <1>1
<1> QED
  BY <1>1, <1>2 DEF HeapInv, Kept, Placed, Distinct, Sorted

\* The slice holds items that know their positions (priority.go, Swap and Push)
\* whatever is pushed and popped.
THEOREM HeapTypes == HeapSpec => []HeapTypeOK
<1>1. HeapSpec => []HeapInv
  BY HeapInvInit, HeapInvStep, PTL DEF HeapSpec
<1> QED
  BY <1>1, HeapInvMeans, PTL

\* The slice stays a heap: up and down of container/heap, with the Less and the
\* Swap of priority.go, restore the order that heap.Push and heap.Pop disturb.
THEOREM HeapStaysOrdered == HeapSpec => []HeapOrdered
<1>1. HeapSpec => []HeapInv
  BY HeapInvInit, HeapInvStep, PTL DEF HeapSpec
<1> QED
  BY <1>1, HeapInvMeans, PTL

\* A step of the heap is a step of the queue it implements.
LEMMA HeapStepQueues ==
  HeapInv /\ [HeapNext]_heapVars => [Queue!QNext]_<<Items(heap), now>>
<1> SUFFICES ASSUME HeapInv, [HeapNext]_heapVars
             PROVE  [Queue!QNext]_<<Items(heap), now>>
  OBVIOUS
<1>1. /\ Queue!Queued = Queued
      /\ Queue!Full <=> Capacity > 0 /\ Len(heap) = Capacity
  <2>1. Queue!Queued = {x.value : x \in Items(heap)}
    BY DEF Queue!Queued, Items
  <2>2. {x.value : x \in Items(heap)} = Queued
    <3>1. \A k \in DOMAIN heap : Entry(heap[k]).value = heap[k].value
      BY DEF Entry
    <3>2. Items(heap) = {Entry(heap[k]) : k \in DOMAIN heap}
      BY Zenon DEF Items, Entry
    <3>3. {x.value : x \in Items(heap)} = {Entry(heap[k]).value : k \in DOMAIN heap}
      BY <3>2
    <3> QED
      BY <3>1, <3>3 DEF Queued
  <2>3. Queue!Full <=> Capacity > 0 /\ Cardinality(Items(heap)) = Capacity
    <3>1. Queue!Cardinality(Items(heap)) = Cardinality(Items(heap))
      BY Zenon DEF Queue!Cardinality, Cardinality, Queue!IsFiniteSet, IsFiniteSet
    <3> QED
      BY <3>1, Zenon DEF Queue!Full, Items
  <2>4. Cardinality(Items(heap)) = Len(heap)
    BY EntriesCounted, Zenon DEF HeapInv
  <2> QED
    BY <2>1, <2>2, <2>3, <2>4, Zenon
<1>2. ASSUME NEW v \in Values \ Queued, Push(v) PROVE Queue!QNext
  <2>1. Items(heap)' = Items(heap) \cup {[value |-> v, priority |-> Queue!Unix(now)]}
    BY <1>2, PushStep DEF Queue!Unix
  <2>2. ~Queue!Full /\ now' = now
    BY <1>1, <1>2, Zenon DEF Push
  <2>3. Queue!Insert(v)
    BY <2>1, <2>2 DEF Queue!Insert, Items
  <2> QED
    BY <1>1, <2>2, <2>3, Zenon DEF Queue!QNext
<1>3. ASSUME NEW v \in Values \ Queued, PushRefused(v)
      PROVE  Queue!QNext \/ UNCHANGED heapVars
  BY <1>3 DEF PushRefused
<1>4. ASSUME Pop PROVE Queue!QNext
  <2>0. PICK e : e = Entry(heap[1])
    BY Zenon
  <2>1. Items(heap)' = Items(heap) \ {e} /\ now' = now
    BY <1>4, <2>0, PopStep DEF Pop
  <2>2. heap \in Seq(HeapItem) /\ DOMAIN heap = 1..Len(heap) /\ 1 \in 1..Len(heap)
    BY <1>4 DEF HeapInv, Kept, Pop
  <2>3. Items(heap) = {Entry(heap[k]) : k \in 1..Len(heap)}
    BY <2>2, Zenon DEF Items, Entry
  <2>4. e \in Items(heap)
    BY <2>0, <2>2, <2>3, Zenon
  <2>5. \A y \in Items(heap) : y.priority <= e.priority
    <3>1. \A k \in 1..Len(heap) : Entry(heap[k]).priority = heap[k].priority
      BY DEF Entry
    <3>2. \A k \in 1..Len(heap) : heap[k].priority <= heap[1].priority
      BY FirstIsLatest, Zenon DEF HeapInv
    <3>3. \A k \in 1..Len(heap) : Entry(heap[k]).priority <= e.priority
      BY <2>0, <2>2, <3>1, <3>2, Zenon
    <3> QED
      BY <2>3, <3>3, Zenon
  <2>6. Queue!MostRecent = {x \in Items(heap) : \A y \in Items(heap) : y.priority <= x.priority}
    BY DEF Queue!MostRecent, Items
  <2>7. Queue!Pop(e)
    <3>1. e \in Queue!MostRecent
      BY <2>4, <2>5, <2>6, Zenon
    <3> QED
      BY <2>1, <3>1 DEF Queue!Pop, Items
  <2>8. \E x \in Items(heap) : Queue!Pop(x) /\ UNCHANGED now
    BY <2>1, <2>4, <2>7, Zenon
  <2> QED
    BY <2>8 DEF Queue!QNext, Items
<1>5. ASSUME heap' = heap PROVE Items(heap)' = Items(heap)
  BY <1>5 DEF Items
<1>6. ASSUME PassTime \/ SetBack PROVE Queue!QNext
  <2>1. heap' = heap /\ (Queue!Tick \/ Queue!SetBack)
    BY <1>6 DEF PassTime, SetBack, Queue!Tick, Queue!SetBack
  <2> QED
    BY <1>5, <2>1 DEF Queue!QNext, Items
<1>7. ASSUME UNCHANGED heapVars PROVE UNCHANGED <<Items(heap), now>>
  BY <1>5, <1>7 DEF heapVars
<1> QED
  BY <1>2, <1>3, <1>4, <1>6, <1>7 DEF HeapNext, PopEmpty

\* The heap of internal/data implements the queue that the connection pool is
\* specified with: Push adds the value unless the queue is full, and Pop takes
\* one of the latest second.
THEOREM HeapRefinesQueue == HeapSpec => ImplementsQueue
<1>1. HeapInit => Queue!QInit
  BY DEF HeapInit, Queue!QInit
<1>2. HeapSpec => []HeapInv
  BY HeapInvInit, HeapInvStep, PTL DEF HeapSpec
<1>3. HeapInv /\ [HeapNext]_heapVars => [Queue!QNext]_<<Items(heap), now>>
  BY HeapStepQueues
<1> QED
  BY <1>1, <1>2, <1>3, PTL DEF HeapSpec, ImplementsQueue, Queue!QSpec, Items
=============================================================================
