----------------------------- MODULE RingLemmas ---------------------------
(***************************************************************************)
(* What enqueue and dequeue do to coherent rings, for any set of nodes,    *)
(* and what the traversal loops find there: following succ from a node     *)
(* comes back to it after as many steps as the ring has nodes.             *)
(***************************************************************************)
EXTENDS QueueLinks, TLAPS, Integers, SequencesExt, SequenceTheorems, FunctionTheorems,
        FiniteSetTheorems, WellFoundedInduction

----------------------------------------------------------------------------
(* Single operations.                                                       *)

(* Both fields stay pointers to nodes. *)
LEMMA EnqueueType ==
  ASSUME NEW L \in Links, NEW t \in Nodes, NEW q \in Nodes
  PROVE  Enqueue(L, t, q) \in Links
  BY DEF Links, Enqueue

(* Taking an item out leaves pointers to nodes too. *)
LEMMA DequeueType ==
  ASSUME NEW L \in Links, NEW t \in Nodes
  PROVE  Dequeue(L, t) \in Links
  BY DEF Links, Dequeue

(* Enqueuing an item of no queue puts it between the node and its          *)
(* predecessor and changes no other link.                                  *)
LEMMA EnqueueFields ==
  ASSUME NEW L \in Links, Coherent(L),
         NEW t \in Nodes, NEW q \in Nodes, Isolated(L, t), t # q
  PROVE  /\ L.pred[q] \in Nodes \ {t}
         /\ \A n \in Nodes :
              /\ Enqueue(L, t, q).succ[n] = IF n = t THEN q
                                            ELSE IF n = L.pred[q] THEN t ELSE L.succ[n]
              /\ Enqueue(L, t, q).pred[n] = IF n = q THEN t
                                            ELSE IF n = t THEN L.pred[q] ELSE L.pred[n]
  BY DEF Links, Enqueue, Coherent, Isolated

(* Dequeuing closes the ring over the item and leaves it isolated. *)
LEMMA DequeueFields ==
  ASSUME NEW L \in Links, Coherent(L), NEW t \in Nodes
  PROVE  \A n \in Nodes :
           /\ Dequeue(L, t).succ[n] = IF n = t THEN t
                                      ELSE IF n = L.pred[t] THEN L.succ[t] ELSE L.succ[n]
           /\ Dequeue(L, t).pred[n] = IF n = t THEN t
                                      ELSE IF n = L.succ[t] THEN L.pred[t] ELSE L.pred[n]
  BY DEF Links, Dequeue, Coherent

(* Enqueuing an item of no queue keeps the rings coherent. *)
LEMMA EnqueueCoherent ==
  ASSUME NEW L \in Links, Coherent(L),
         NEW t \in Nodes, NEW q \in Nodes, Isolated(L, t), t # q
  PROVE  Coherent(Enqueue(L, t, q))
<1> DEFINE M == Enqueue(L, t, q)
<1> HIDE DEF M
<1>1. /\ L.pred[q] \in Nodes \ {t}
      /\ \A n \in Nodes :
           /\ M.succ[n] = IF n = t THEN q ELSE IF n = L.pred[q] THEN t ELSE L.succ[n]
           /\ M.pred[n] = IF n = q THEN t ELSE IF n = t THEN L.pred[q] ELSE L.pred[n]
  BY EnqueueFields DEF M
<1>2. \A n \in Nodes : /\ L.succ[n] \in Nodes /\ L.pred[n] \in Nodes
                       /\ L.pred[L.succ[n]] = n /\ L.succ[L.pred[n]] = n
  BY DEF Links, Coherent
<1>3. L.succ[t] = t /\ L.pred[t] = t
  BY DEF Isolated
<1>4. Coherent(M)
  BY <1>1, <1>2, <1>3 DEF Coherent
<1> QED  BY <1>4 DEF M

(* Dequeuing keeps the rings coherent, and the item is in none of them. *)
LEMMA DequeueCoherent ==
  ASSUME NEW L \in Links, Coherent(L), NEW t \in Nodes
  PROVE  Coherent(Dequeue(L, t)) /\ Isolated(Dequeue(L, t), t)
<1> DEFINE M == Dequeue(L, t)
<1> HIDE DEF M
<1>1. \A n \in Nodes :
        /\ M.succ[n] = IF n = t THEN t ELSE IF n = L.pred[t] THEN L.succ[t] ELSE L.succ[n]
        /\ M.pred[n] = IF n = t THEN t ELSE IF n = L.succ[t] THEN L.pred[t] ELSE L.pred[n]
  BY DequeueFields DEF M
<1>2. \A n \in Nodes : /\ L.succ[n] \in Nodes /\ L.pred[n] \in Nodes
                       /\ L.pred[L.succ[n]] = n /\ L.succ[L.pred[n]] = n
  BY DEF Links, Coherent
<1>3. Coherent(M) /\ Isolated(M, t)
  BY <1>1, <1>2 DEF Coherent, Isolated
<1> QED  BY <1>3 DEF M

(* lib/queues.f83 defines dequeue again for kernels that lack it, with the *)
(* two neighbours updated in the other order.  On coherent rings the two   *)
(* definitions are the same operation, so the library behaves alike on     *)
(* both kinds of kernel.                                                   *)
THEOREM ForthDequeueAgrees ==
  ASSUME NEW L \in Links, Coherent(L), NEW t \in Nodes
  PROVE  ForthDequeue(L, t) = Dequeue(L, t)
  BY DEF Links, Dequeue, ForthDequeue, Coherent

----------------------------------------------------------------------------
(* Induction.  The steps around a ring are a recursive function on the      *)
(* naturals; the lemmas on them use induction, stated for sets of numbers   *)
(* and drawn from the theorem that < is well-founded.                       *)

(* A set of natural numbers has a least element. *)
LEMMA LeastNatural ==
  ASSUME NEW T \in SUBSET Nat, T # {}
  PROVE  \E x \in T : \A y \in T : x <= y
<1>1. \E x \in T : \A y \in T : ~ (<<y, x>> \in OpToRel(<, Nat))
  BY WFMin, NatLessThanWellFounded, Zenon
<1>2. \A x, y \in Nat : y < x => <<y, x>> \in OpToRel(<, Nat)
  BY DEF OpToRel
<1>3. PICK x \in T : \A y \in T : ~ (<<y, x>> \in OpToRel(<, Nat))
  BY <1>1, Zenon
<1>4. \A y \in T : ~ (y < x)
  BY <1>2, <1>3
<1>5. \A y \in T : x <= y
  BY <1>4
<1> QED  BY <1>3, <1>5

(* Induction: a set with 0 and with every successor of a member it has has *)
(* all natural numbers.                                                    *)
LEMMA NatInSet ==
  ASSUME NEW T, 0 \in T, \A n \in Nat : n \in T => n + 1 \in T
  PROVE  Nat \subseteq T
<1> SUFFICES ASSUME Nat \ T # {} PROVE FALSE
  OBVIOUS
<1>1. PICK n \in Nat \ T : \A m \in Nat \ T : n <= m
  BY LeastNatural
<1>2. n # 0 /\ n - 1 \in Nat /\ n - 1 + 1 = n
  BY <1>1
<1>3. n - 1 \in T
  BY <1>1, <1>2
<1> QED  BY <1>1, <1>2, <1>3
----------------------------------------------------------------------------
(***************************************************************************)
(* The steps from a node are defined, and defined once.                    *)
(***************************************************************************)
\* The first n steps, as the functions that begin at q and follow succ.
Walks(L, q, n) == {g \in [0 .. n -> Nodes] :
                     g[0] = q /\ \A k \in 0 .. n - 1 : g[k + 1] = L.succ[g[k]]}

(* However many steps are taken, there is a walk of that length. *)
LEMMA WalkExists ==
  ASSUME NEW L \in Links, NEW q \in Nodes, NEW n \in Nat
  PROVE  Walks(L, q, n) # {}
<1> DEFINE T == {m \in Nat : Walks(L, q, m) # {}}
<1>1. [k \in 0 .. 0 |-> q] \in Walks(L, q, 0)
  BY DEF Walks
<1>2. ASSUME NEW m \in Nat, m \in T PROVE m + 1 \in T
  <2>1. PICK g : g \in Walks(L, q, m)
    BY <1>2
  <2> DEFINE h == [k \in 0 .. m + 1 |-> IF k = m + 1 THEN L.succ[g[m]] ELSE g[k]]
  <2>2. g \in [0 .. m -> Nodes] /\ g[0] = q /\ \A k \in 0 .. m - 1 : g[k + 1] = L.succ[g[k]]
    BY <2>1 DEF Walks
  <2>3. h \in [0 .. (m + 1) -> Nodes]
    BY <2>2 DEF Links
  <2>4. h[0] = q
    BY <2>2
  <2>5. \A k \in 0 .. (m + 1) - 1 : h[k + 1] = L.succ[h[k]]
    BY <2>2
  <2> HIDE DEF h
  <2>6. h \in Walks(L, q, m + 1)
    BY <2>3, <2>4, <2>5 DEF Walks
  <2> QED  BY <2>6
<1>3. 0 \in T
  BY <1>1
<1> HIDE DEF T
<1>4. Nat \subseteq T
  BY <1>2, <1>3, NatInSet
<1> QED  BY <1>4 DEF T

(* Two walks agree as far as both go. *)
LEMMA WalksAgree ==
  ASSUME NEW L \in Links, NEW q \in Nodes, NEW n \in Nat, NEW m \in Nat,
         NEW g \in Walks(L, q, n), NEW h \in Walks(L, q, m),
         NEW k \in Nat, k <= n, k <= m
  PROVE  g[k] = h[k]
<1> DEFINE T == {j \in Nat : j <= n /\ j <= m => g[j] = h[j]}
<1>1. 0 \in T
  BY DEF Walks
<1>2. ASSUME NEW j \in Nat, j \in T PROVE j + 1 \in T
  BY <1>2 DEF Walks
<1> HIDE DEF T
<1>3. Nat \subseteq T
  BY <1>1, <1>2, NatInSet
<1> QED  BY <1>3 DEF T

(* The recursive definition of the steps has a solution, so the steps are  *)
(* what it says: the node itself, and then each time the successor.        *)
LEMMA StepsFromDef ==
  ASSUME NEW L \in Links, NEW q \in Nodes
  PROVE  /\ StepsFrom(L, q) \in [Nat -> Nodes]
         /\ StepsFrom(L, q)[0] = q
         /\ \A k \in Nat : StepsFrom(L, q)[k + 1] = L.succ[StepsFrom(L, q)[k]]
<1> DEFINE g == [n \in Nat |-> CHOOSE f : f \in Walks(L, q, n)]
           f == [n \in Nat |-> g[n][n]]
           at == StepsFrom(L, q)
<1>1. \A n \in Nat : g[n] \in Walks(L, q, n)
  BY WalkExists, Zenon
<1> HIDE DEF g
<1>2. ASSUME NEW n \in Nat, n # 0 PROVE g[n][n] = L.succ[g[n - 1][n - 1]]
  <2>1. g[n] \in Walks(L, q, n) /\ g[n - 1] \in Walks(L, q, n - 1) /\ n - 1 \in Nat
    BY <1>1, <1>2
  <2>2. g[n][n - 1] = g[n - 1][n - 1]
    BY <2>1, WalksAgree
  <2>3. g[n][(n - 1) + 1] = L.succ[g[n][n - 1]]
    BY <2>1, <1>2 DEF Walks
  <2> QED  BY <2>1, <2>2, <2>3
<1>3. g[0][0] = q
  BY <1>1 DEF Walks
<1>4. f = [k \in Nat |-> IF k = 0 THEN q ELSE L.succ[f[k - 1]]]
  BY <1>2, <1>3
<1> HIDE DEF f
<1>5. \E d : d = [k \in Nat |-> IF k = 0 THEN q ELSE L.succ[d[k - 1]]]
  BY <1>4
<1>6. at = [k \in Nat |-> IF k = 0 THEN q ELSE L.succ[at[k - 1]]]
  BY <1>5, Zenon DEF StepsFrom
<1> HIDE DEF at
<1>7. at[0] = q /\ \A k \in Nat : at[k + 1] = L.succ[at[k]]
  BY <1>6
<1> DEFINE T == {k \in Nat : at[k] \in Nodes}
<1>8. Nat \subseteq T
  <2>1. 0 \in T /\ \A k \in Nat : k \in T => k + 1 \in T
    BY <1>7 DEF Links
  <2> HIDE DEF T
  <2> QED  BY <2>1, NatInSet
<1>9. at \in [Nat -> Nodes]
  BY <1>6, <1>8
<1> QED  BY <1>7, <1>9 DEF at
----------------------------------------------------------------------------
(***************************************************************************)
(* The steps come back to where they began.                                *)
(***************************************************************************)
\* p is the number of nodes of the ring of q.
Period(L, q, p) == /\ p \in Nat \ {0}
                   /\ StepsFrom(L, q)[p] = q
                   /\ \A j \in 1 .. p - 1 : StepsFrom(L, q)[j] # q

(* Where the steps meet again, as many steps from the beginning come back  *)
(* to it: pred undoes each step.                                           *)
LEMMA StepsMeet ==
  ASSUME NEW L \in Links, Coherent(L), NEW q \in Nodes,
         NEW i \in Nat, NEW d \in Nat,
         StepsFrom(L, q)[i + d] = StepsFrom(L, q)[i]
  PROVE  StepsFrom(L, q)[d] = q
<1> DEFINE at == StepsFrom(L, q)
           T == {k \in Nat : at[k + d] = at[k] => at[d] = q}
<1>1. at \in [Nat -> Nodes] /\ at[0] = q /\ \A k \in Nat : at[k + 1] = L.succ[at[k]]
  BY StepsFromDef
<1> HIDE DEF at
<1>2. 0 \in T
  BY <1>1
<1>3. ASSUME NEW k \in Nat, k \in T PROVE k + 1 \in T
  <2>1. at[(k + d) + 1] = L.succ[at[k + d]] /\ at[k + 1] = L.succ[at[k]]
    BY <1>1
  <2>2. (k + 1) + d = (k + d) + 1 /\ k + d \in Nat
    OBVIOUS
  <2>3. at[(k + 1) + d] = at[k + 1] => at[k + d] = at[k]
    BY <1>1, <2>1, <2>2 DEF Coherent
  <2> QED  BY <1>3, <2>3
<1> HIDE DEF T
<1>4. Nat \subseteq T
  BY <1>2, <1>3, NatInSet
<1> QED  BY <1>4 DEF T, at

(* Nodes are finitely many, so the steps of a coherent ring come back. *)
LEMMA PeriodExists ==
  ASSUME NEW L \in Links, Coherent(L), NEW q \in Nodes
  PROVE  \E p \in 1 .. Cardinality(Nodes) : Period(L, q, p)
<1> DEFINE at == StepsFrom(L, q)
           N == Cardinality(Nodes)
           T == {p \in Nat \ {0} : at[p] = q}
<1>1. at \in [Nat -> Nodes]
  BY StepsFromDef
<1>2. N \in Nat
  BY MemoryIsFinite, FS_CardinalityType
<1> DEFINE f == [i \in 0 .. N |-> at[i]]
<1>3. \E i, j \in 0 .. N : i # j /\ at[i] = at[j]
  <2>1. f \in [0 .. N -> Nodes]
    BY <1>1, <1>2
  <2>2. IsFiniteSet(0 .. N) /\ Cardinality(0 .. N) = N + 1
    BY <1>2, FS_Interval
  <2>3. Cardinality(Nodes) < Cardinality(0 .. N)
    BY <1>2, <2>2
  <2> HIDE DEF f, N
  <2>4. \E x, y \in 0 .. N : x # y /\ f[x] = f[y]
    BY <2>1, <2>2, <2>3, MemoryIsFinite, FS_PigeonHole
  <2> QED  BY <2>4 DEF f
<1> HIDE DEF at, N
<1>4. PICK i \in 0 .. N, j \in 0 .. N : i < j /\ at[i] = at[j]
  BY <1>2, <1>3
<1>5. i \in Nat /\ j - i \in Nat \ {0} /\ i + (j - i) = j /\ j - i <= N
  BY <1>2, <1>4
<1>6. at[j - i] = q
  <2>1. PICK d \in Nat : d = j - i
    BY <1>5
  <2>2. at[i + d] = at[i] /\ i \in Nat
    BY <1>4, <1>5, <2>1
  <2> QED  BY <2>1, <2>2, StepsMeet DEF at
<1>7. j - i \in T
  BY <1>5, <1>6
<1>8. PICK p \in T : \A k \in T : p <= k
  BY <1>7, LeastNatural
<1>9. p \in 1 .. N /\ \A k \in 1 .. p - 1 : at[k] # q
  BY <1>2, <1>5, <1>7, <1>8
<1> QED  BY <1>8, <1>9 DEF Period, at, N

(* A ring has one period. *)
LEMMA PeriodUnique ==
  ASSUME NEW L, NEW q, NEW p, NEW r, Period(L, q, p), Period(L, q, r)
  PROVE  p = r
  BY DEF Period

(* size-queue is the number of nodes of the ring. *)
LEMMA SizeIsPeriod ==
  ASSUME NEW L \in Links, Coherent(L), NEW q \in Nodes
  PROVE  /\ SizeQueue(L, q) \in 1 .. Cardinality(Nodes)
         /\ Period(L, q, SizeQueue(L, q))
<1>1. \E p \in 1 .. Cardinality(Nodes) :
         /\ StepsFrom(L, q)[p] = q
         /\ \A j \in 1 .. p - 1 : StepsFrom(L, q)[j] # q
  BY PeriodExists DEF Period
<1>2. /\ SizeQueue(L, q) \in 1 .. Cardinality(Nodes)
      /\ StepsFrom(L, q)[SizeQueue(L, q)] = q
      /\ \A j \in 1 .. SizeQueue(L, q) - 1 : StepsFrom(L, q)[j] # q
  BY <1>1, Zenon DEF SizeQueue
<1>3. Cardinality(Nodes) \in Nat
  BY MemoryIsFinite, FS_CardinalityType
<1>4. SizeQueue(L, q) \in Nat \ {0}
  BY <1>2, <1>3
<1> QED  BY <1>2, <1>4 DEF Period

(* The nodes met before the steps come back are all different. *)
LEMMA StepsDistinct ==
  ASSUME NEW L \in Links, Coherent(L), NEW q \in Nodes, NEW p, Period(L, q, p),
         NEW i \in 0 .. p - 1, NEW j \in 0 .. p - 1,
         StepsFrom(L, q)[i] = StepsFrom(L, q)[j]
  PROVE  i = j
<1>1. ASSUME NEW k \in 0 .. p - 1, NEW m \in 0 .. p - 1, k < m,
             StepsFrom(L, q)[k] = StepsFrom(L, q)[m]
      PROVE  FALSE
  <2>1. k \in Nat /\ m - k \in Nat /\ k + (m - k) = m /\ m - k \in 1 .. p - 1
    BY <1>1 DEF Period
  <2>2. PICK d \in 1 .. p - 1 : d = m - k /\ d \in Nat
    BY <2>1
  <2>3. StepsFrom(L, q)[k + d] = StepsFrom(L, q)[k]
    BY <1>1, <2>1, <2>2
  <2>4. StepsFrom(L, q)[d] = q
    BY <2>1, <2>2, <2>3, StepsMeet
  <2> QED  BY <2>2, <2>4 DEF Period
<1> QED  BY <1>1 DEF Period

(* The ring of a node is closed: every node it has was met before the      *)
(* steps came back, and succ stays in it.                                  *)
LEMMA RingIsClosed ==
  ASSUME NEW L \in Links, Coherent(L), NEW q \in Nodes, NEW p, Period(L, q, p)
  PROVE  /\ RingOf(L, q) = {StepsFrom(L, q)[k] : k \in 0 .. p - 1}
         /\ \A n \in RingOf(L, q) : n \in Nodes /\ L.succ[n] \in RingOf(L, q)
         /\ q \in RingOf(L, q)
<1> DEFINE at == StepsFrom(L, q)
           R == {at[k] : k \in 0 .. p - 1}
           T == {k \in Nat : at[k] \in R}
<1>0. p \in Nat \ {0} /\ at[p] = q
  BY DEF Period
<1>1. at \in [Nat -> Nodes] /\ at[0] = q /\ \A k \in Nat : at[k + 1] = L.succ[at[k]]
  BY StepsFromDef
<1> HIDE DEF at
<1>2. \A n \in R : n \in Nodes /\ L.succ[n] \in R
  <2> SUFFICES ASSUME NEW k \in 0 .. p - 1 PROVE at[k] \in Nodes /\ L.succ[at[k]] \in R
    OBVIOUS
  <2>1. L.succ[at[k]] = at[k + 1] /\ at[k] \in Nodes
    BY <1>0, <1>1
  <2>2. k + 1 = p \/ k + 1 \in 0 .. p - 1
    BY <1>0
  <2>3. 0 \in 0 .. p - 1
    BY <1>0
  <2> QED  BY <1>0, <1>1, <2>1, <2>2, <2>3
<1>3. q \in R
  BY <1>0, <1>1
<1>4. Nat \subseteq T
  <2>1. 0 \in T
    BY <1>1, <1>3
  <2>2. ASSUME NEW k \in Nat, k \in T PROVE k + 1 \in T
    BY <1>1, <1>2, <2>2
  <2> HIDE DEF T
  <2> QED  BY <2>1, <2>2, NatInSet
<1>5. Cardinality(Nodes) \in Nat /\ p <= Cardinality(Nodes)
  <2>1. Cardinality(Nodes) \in Nat
    BY MemoryIsFinite, FS_CardinalityType
  <2>2. PICK r \in 1 .. Cardinality(Nodes) : Period(L, q, r)
    BY PeriodExists
  <2> QED  BY <2>1, <2>2, PeriodUnique
<1>6. RingOf(L, q) = R
  <2>1. RingOf(L, q) = {at[k] : k \in 0 .. Cardinality(Nodes)}
    BY DEF RingOf, at
  <2>2. \A k \in 0 .. Cardinality(Nodes) : at[k] \in R
    BY <1>4, <1>5
  <2>3. \A k \in 0 .. p - 1 : k \in 0 .. Cardinality(Nodes)
    BY <1>0, <1>5
  <2> HIDE DEF R
  <2>4. RingOf(L, q) \subseteq R
    BY <2>1, <2>2
  <2>5. R \subseteq RingOf(L, q)
    BY <2>1, <2>3 DEF R
  <2> QED  BY <2>4, <2>5
<1> HIDE DEF R
<1> QED  BY <1>2, <1>3, <1>6 DEF R, at
----------------------------------------------------------------------------
(***************************************************************************)
(* The items of a node as a sequence, read off the succ fields alone.      *)
(***************************************************************************)
\* From h, succ leads through the members of s, one after the other, and back.
Spells(L, h, s) ==
  /\ s \in Seq(Nodes)
  /\ L.succ[h] = IF s = << >> THEN h ELSE s[1]
  /\ \A i \in 1 .. Len(s) :
       s[i] # h /\ L.succ[s[i]] = IF i = Len(s) THEN h ELSE s[i + 1]

(* A coherent ring spells its items: size-queue is one more than they are, *)
(* none is met twice, and they and the header are the ring.                *)
LEMMA ItemsSpell ==
  ASSUME NEW L \in Links, Coherent(L), NEW h \in Nodes
  PROVE  /\ Spells(L, h, ItemsOf(L, h))
         /\ SizeQueue(L, h) = Len(ItemsOf(L, h)) + 1
         /\ \A i, j \in 1 .. Len(ItemsOf(L, h)) :
              ItemsOf(L, h)[i] = ItemsOf(L, h)[j] => i = j
         /\ RingOf(L, h) = {h} \cup {ItemsOf(L, h)[i] : i \in 1 .. Len(ItemsOf(L, h))}
<1> DEFINE at == StepsFrom(L, h)
           p == SizeQueue(L, h)
           s == ItemsOf(L, h)
<1>1. at \in [Nat -> Nodes] /\ at[0] = h /\ \A k \in Nat : at[k + 1] = L.succ[at[k]]
  BY StepsFromDef
<1>2. Period(L, h, p)
  BY SizeIsPeriod
<1>3. p \in Nat \ {0} /\ at[p] = h /\ \A j \in 1 .. p - 1 : at[j] # h
  BY <1>2 DEF Period
<1>4. s = [i \in 1 .. p - 1 |-> at[i]]
  BY DEF ItemsOf
<1>5. \A i, j \in 0 .. p - 1 : at[i] = at[j] => i = j
  BY <1>2, StepsDistinct
<1>6. RingOf(L, h) = {at[k] : k \in 0 .. p - 1}
  BY <1>2, RingIsClosed
<1> HIDE DEF at, p, s
<1>7. p - 1 \in Nat
  BY <1>3
<1>8. s \in [1 .. p - 1 -> Nodes]
  BY <1>1, <1>4, <1>7
<1>9. s \in Seq(Nodes) /\ Len(s) = p - 1
  BY <1>7, <1>8
<1>10. \A i \in 1 .. p - 1 : s[i] = at[i]
  BY <1>4
<1>11. Spells(L, h, s)
  <2>1. L.succ[h] = IF s = << >> THEN h ELSE s[1]
    <3>1. L.succ[h] = at[1]
      BY <1>1
    <3>2. CASE p = 1
      BY <1>3, <1>9, <3>1, <3>2
    <3>3. CASE p # 1
      <4>1. 1 \in 1 .. p - 1 /\ s # << >>
        BY <1>3, <1>9, <3>3
      <4> QED  BY <1>10, <3>1, <4>1
    <3> QED  BY <3>2, <3>3
  <2>2. ASSUME NEW i \in 1 .. p - 1
        PROVE  s[i] # h /\ L.succ[s[i]] = IF i = p - 1 THEN h ELSE s[i + 1]
    <3>1. s[i] = at[i] /\ L.succ[at[i]] = at[i + 1] /\ at[i] # h
      BY <1>1, <1>3, <1>10
    <3>2. CASE i = p - 1
      BY <1>3, <3>1, <3>2
    <3>3. CASE i # p - 1
      <4>1. i + 1 \in 1 .. p - 1
        BY <1>3, <3>3
      <4> QED  BY <1>10, <3>1, <3>3, <4>1
    <3> QED  BY <3>2, <3>3
  <2> QED  BY <1>9, <2>1, <2>2 DEF Spells
<1>12. \A i, j \in 1 .. p - 1 : s[i] = s[j] => i = j
  BY <1>3, <1>5, <1>10
<1>13. RingOf(L, h) = {h} \cup {s[i] : i \in 1 .. p - 1}
  <2>1. \A k \in 0 .. p - 1 : k = 0 \/ k \in 1 .. p - 1
    BY <1>3
  <2>2. \A k \in 1 .. p - 1 : k \in 0 .. p - 1
    BY <1>3
  <2>3. 0 \in 0 .. p - 1
    BY <1>3
  <2> QED  BY <1>1, <1>6, <1>10, <2>1, <2>2, <2>3
<1>14. p = Len(s) + 1
  BY <1>3, <1>9
<1> QED  BY <1>9, <1>11, <1>12, <1>13, <1>14 DEF s, p

(* What a ring spells are its items. *)
LEMMA SpellsUnique ==
  ASSUME NEW L \in Links, Coherent(L), NEW h \in Nodes, NEW s, Spells(L, h, s)
  PROVE  ItemsOf(L, h) = s
<1> DEFINE at == StepsFrom(L, h)
           T == {k \in Nat : k \in 1 .. Len(s) => at[k] = s[k]}
<1>1. at \in [Nat -> Nodes] /\ at[0] = h /\ \A k \in Nat : at[k + 1] = L.succ[at[k]]
  BY StepsFromDef
<1>2. s \in Seq(Nodes) /\ Len(s) \in Nat /\ s = [i \in 1 .. Len(s) |-> s[i]]
      /\ (s = << >> <=> Len(s) = 0)
  BY DEF Spells
<1>3. /\ L.succ[h] = IF s = << >> THEN h ELSE s[1]
      /\ \A i \in 1 .. Len(s) : s[i] # h /\ L.succ[s[i]] = IF i = Len(s) THEN h ELSE s[i + 1]
  BY DEF Spells
<1>4. Period(L, h, SizeQueue(L, h))
  BY SizeIsPeriod
<1>5. ItemsOf(L, h) = [i \in 1 .. SizeQueue(L, h) - 1 |-> at[i]]
  BY DEF ItemsOf
<1> HIDE DEF at
<1>6. 0 \in T
  OBVIOUS
<1>7. ASSUME NEW k \in Nat, k \in T PROVE k + 1 \in T
  <2>1. SUFFICES ASSUME k + 1 \in 1 .. Len(s) PROVE at[k + 1] = s[k + 1]
    OBVIOUS
  <2>2. CASE k = 0
    BY <1>1, <1>2, <1>3, <2>1, <2>2
  <2>3. CASE k # 0
    <3>1. k \in 1 .. Len(s) /\ k # Len(s)
      BY <1>2, <2>1, <2>3
    <3> QED  BY <1>1, <1>3, <1>7, <3>1
  <2> QED  BY <2>2, <2>3
<1> HIDE DEF T
<1>8. Nat \subseteq T
  BY <1>6, <1>7, NatInSet
<1>9. \A k \in 1 .. Len(s) : at[k] = s[k]
  BY <1>2, <1>8 DEF T
<1>10. at[Len(s) + 1] = h
  <2>1. at[Len(s) + 1] = L.succ[at[Len(s)]]
    BY <1>1, <1>2
  <2>2. CASE Len(s) = 0
    BY <1>1, <1>2, <1>3, <2>1, <2>2
  <2>3. CASE Len(s) # 0
    <3>1. Len(s) \in 1 .. Len(s)
      BY <1>2, <2>3
    <3> QED  BY <1>3, <1>9, <2>1, <3>1
  <2> QED  BY <2>2, <2>3
<1>11. Period(L, h, Len(s) + 1)
  <2>1. Len(s) + 1 \in Nat \ {0} /\ (Len(s) + 1) - 1 = Len(s)
    BY <1>2
  <2>2. \A j \in 1 .. (Len(s) + 1) - 1 : at[j] # h
    BY <1>3, <1>9, <2>1
  <2> QED  BY <1>10, <2>1, <2>2 DEF Period, at
<1>12. SizeQueue(L, h) = Len(s) + 1
  BY <1>4, <1>11, PeriodUnique
<1>13. SizeQueue(L, h) - 1 = Len(s)
  BY <1>2, <1>12
<1> QED  BY <1>2, <1>5, <1>9, <1>13

(* A node that is in no queue is met from no other node. *)
LEMMA IsolatedNotInRing ==
  ASSUME NEW L \in Links, Coherent(L), NEW h \in Nodes, NEW t \in Nodes,
         Isolated(L, t), t # h
  PROVE  t \notin RingOf(L, h)
<1> DEFINE s == ItemsOf(L, h)
<1>1. /\ Spells(L, h, s)
      /\ \A i, j \in 1 .. Len(s) : s[i] = s[j] => i = j
      /\ RingOf(L, h) = {h} \cup {s[i] : i \in 1 .. Len(s)}
  BY ItemsSpell
<1> HIDE DEF s
<1>2. s \in Seq(Nodes) /\ Len(s) \in Nat
  BY <1>1 DEF Spells
<1>3. ASSUME NEW i \in 1 .. Len(s), s[i] = t PROVE FALSE
  <2>1. L.succ[s[i]] = IF i = Len(s) THEN h ELSE s[i + 1]
    BY <1>1 DEF Spells
  <2>2. i # Len(s) /\ s[i + 1] = s[i]
    BY <1>3, <2>1 DEF Isolated
  <2>3. i + 1 \in 1 .. Len(s) /\ i + 1 # i
    BY <1>2, <2>2
  <2> QED  BY <1>1, <2>2, <2>3
<1> QED  BY <1>1, <1>3
----------------------------------------------------------------------------
(***************************************************************************)
(* What enqueue and dequeue do to the items of a node.                     *)
(***************************************************************************)
(* Inserting into a sequence, element by element. *)
LEMMA InsertAtFields ==
  ASSUME NEW S, NEW s \in Seq(S), NEW i \in 1 .. Len(s) + 1, NEW t \in S
  PROVE  /\ InsertAt(s, i, t) \in Seq(S)
         /\ Len(InsertAt(s, i, t)) = Len(s) + 1
         /\ \A j \in 1 .. Len(s) + 1 :
              InsertAt(s, i, t)[j] = IF j < i THEN s[j] ELSE IF j = i THEN t ELSE s[j - 1]
<1> DEFINE a == SubSeq(s, 1, i - 1)
           b == SubSeq(s, i, Len(s))
<1>0. Len(s) \in Nat /\ i \in Nat \ {0}
  OBVIOUS
<1>1. a \in Seq(S) /\ Len(a) = i - 1 /\ \A j \in 1 .. i - 1 : a[j] = s[j]
  BY <1>0
<1>2. b \in Seq(S) /\ Len(b) = Len(s) - i + 1
      /\ \A j \in 1 .. Len(s) - i + 1 : b[j] = s[j + i - 1]
  BY <1>0
<1> HIDE DEF a, b
<1> DEFINE c == a \o <<t>>
<1>3. c \in Seq(S) /\ Len(c) = i
      /\ \A j \in 1 .. i : c[j] = IF j < i THEN s[j] ELSE t
  BY <1>0, <1>1
<1> HIDE DEF c
<1>4. c \o b \in Seq(S) /\ Len(c \o b) = Len(s) + 1
      /\ \A j \in 1 .. Len(s) + 1 : (c \o b)[j] = IF j <= i THEN c[j] ELSE b[j - i]
  BY <1>0, <1>2, <1>3
<1>5. \A j \in 1 .. Len(s) + 1 : (c \o b)[j] = IF j < i THEN s[j] ELSE IF j = i THEN t ELSE s[j - 1]
  BY <1>0, <1>2, <1>3, <1>4
<1>6. InsertAt(s, i, t) = c \o b
  BY DEF InsertAt, c, a, b
<1> QED  BY <1>4, <1>5, <1>6

(* Removing from a sequence, element by element. *)
LEMMA RemoveAtFields ==
  ASSUME NEW S, NEW s \in Seq(S), NEW i \in 1 .. Len(s)
  PROVE  /\ RemoveAt(s, i) \in Seq(S)
         /\ Len(RemoveAt(s, i)) = Len(s) - 1
         /\ \A j \in 1 .. Len(s) - 1 :
              RemoveAt(s, i)[j] = IF j < i THEN s[j] ELSE s[j + 1]
<1> DEFINE a == SubSeq(s, 1, i - 1)
           b == SubSeq(s, i + 1, Len(s))
<1>0. Len(s) \in Nat /\ i \in Nat \ {0}
  OBVIOUS
<1>1. a \in Seq(S) /\ Len(a) = i - 1 /\ \A j \in 1 .. i - 1 : a[j] = s[j]
  BY <1>0
<1>2. b \in Seq(S) /\ Len(b) = Len(s) - i /\ \A j \in 1 .. Len(s) - i : b[j] = s[j + i]
  BY <1>0
<1> HIDE DEF a, b
<1>3. a \o b \in Seq(S) /\ Len(a \o b) = Len(s) - 1
      /\ \A j \in 1 .. Len(s) - 1 : (a \o b)[j] = IF j <= i - 1 THEN a[j] ELSE b[j - (i - 1)]
  <2>1. Len(a) + Len(b) = Len(s) - 1
    BY <1>0, <1>1, <1>2
  <2>2. /\ a \o b \in Seq(S)
        /\ Len(a \o b) = Len(a) + Len(b)
        /\ \A j \in 1 .. Len(a) + Len(b) :
             (a \o b)[j] = IF j <= Len(a) THEN a[j] ELSE b[j - Len(a)]
    BY <1>1, <1>2, ConcatProperties
  <2> QED  BY <1>1, <2>1, <2>2
<1>4. \A j \in 1 .. Len(s) - 1 : (a \o b)[j] = IF j < i THEN s[j] ELSE s[j + 1]
  BY <1>0, <1>1, <1>2, <1>3
<1>5. RemoveAt(s, i) = a \o b
  BY DEF RemoveAt, a, b
<1> QED  BY <1>3, <1>4, <1>5

(* enqueue before a header puts the item last. *)
LEMMA EnqueueIsAppend ==
  ASSUME NEW L \in Links, Coherent(L), NEW h \in Nodes, NEW t \in Nodes,
         Isolated(L, t), t # h
  PROVE  ItemsOf(Enqueue(L, t, h), h) = Append(ItemsOf(L, h), t)
<1> DEFINE s == ItemsOf(L, h)
           M == Enqueue(L, t, h)
           r == Append(s, t)
<1>1. /\ Spells(L, h, s)
      /\ \A i, j \in 1 .. Len(s) : s[i] = s[j] => i = j
      /\ RingOf(L, h) = {h} \cup {s[i] : i \in 1 .. Len(s)}
  BY ItemsSpell
<1>2. M \in Links /\ Coherent(M)
  BY EnqueueType, EnqueueCoherent
<1>3. /\ L.pred[h] \in Nodes \ {t}
      /\ \A n \in Nodes : M.succ[n] = IF n = t THEN h ELSE IF n = L.pred[h] THEN t ELSE L.succ[n]
  BY EnqueueFields
<1>4. t \notin RingOf(L, h)
  BY IsolatedNotInRing
<1> HIDE DEF s, M
<1>5. s \in Seq(Nodes) /\ Len(s) \in Nat
  BY <1>1 DEF Spells
<1>6. r \in Seq(Nodes) /\ Len(r) = Len(s) + 1 /\ r[Len(s) + 1] = t
      /\ \A i \in 1 .. Len(s) : r[i] = s[i] /\ s[i] \in Nodes /\ s[i] # t
  BY <1>1, <1>4, <1>5
<1> HIDE DEF r
<1>7. \A n \in Nodes : L.succ[n] = h <=> n = L.pred[h]
  BY DEF Coherent, Links
<1>8. M.succ[h] = r[1]
  <2>1. CASE s = << >>
    <3>1. L.pred[h] = h
      BY <1>1, <1>7, <2>1 DEF Spells
    <3>2. Len(s) = 0
      BY <2>1
    <3> QED  BY <1>3, <1>6, <3>1, <3>2
  <2>2. CASE s # << >>
    <3>1. 1 \in 1 .. Len(s) /\ L.succ[h] = s[1] /\ s[1] # h
      BY <1>1, <1>5, <2>2 DEF Spells
    <3>2. L.pred[h] # h
      BY <1>7, <3>1
    <3> QED  BY <1>3, <1>6, <3>1, <3>2
  <2> QED  BY <2>1, <2>2
<1>9. ASSUME NEW i \in 1 .. Len(r)
      PROVE  r[i] # h /\ M.succ[r[i]] = IF i = Len(r) THEN h ELSE r[i + 1]
  <2>1. CASE i = Len(r)
    BY <1>3, <1>6, <2>1
  <2>2. CASE i # Len(r)
    <3>1. i \in 1 .. Len(s) /\ r[i] = s[i] /\ s[i] # t /\ s[i] # h /\ s[i] \in Nodes
      BY <1>1, <1>5, <1>6, <2>2 DEF Spells
    <3>2. L.succ[s[i]] = IF i = Len(s) THEN h ELSE s[i + 1]
      BY <1>1, <3>1 DEF Spells
    <3>3. CASE i = Len(s)
      BY <1>3, <1>6, <1>7, <2>2, <3>1, <3>2, <3>3
    <3>4. CASE i # Len(s)
      <4>1. i + 1 \in 1 .. Len(s)
        BY <1>5, <3>1, <3>4
      <4>2. s[i + 1] # h /\ r[i + 1] = s[i + 1]
        BY <1>1, <1>6, <4>1 DEF Spells
      <4>3. s[i] # L.pred[h]
        BY <1>7, <3>1, <3>2, <3>4, <4>2
      <4> QED  BY <1>3, <2>2, <3>1, <3>2, <3>4, <4>2, <4>3
    <3> QED  BY <3>3, <3>4
  <2> QED  BY <2>1, <2>2
<1>10. r # << >>
  BY <1>5, <1>6
<1>11. Spells(M, h, r)
  BY <1>6, <1>8, <1>9, <1>10 DEF Spells
<1>12. ItemsOf(M, h) = r
  BY <1>2, <1>11, SpellsUnique
<1> QED  BY <1>12 DEF M, r, s

(* enqueue before an item of the queue puts the new item right before it. *)
LEMMA EnqueueIsInsertion ==
  ASSUME NEW L \in Links, Coherent(L), NEW h \in Nodes, NEW t \in Nodes,
         Isolated(L, t), t # h, NEW i \in 1 .. Len(ItemsOf(L, h))
  PROVE  ItemsOf(Enqueue(L, t, ItemsOf(L, h)[i]), h) = InsertAt(ItemsOf(L, h), i, t)
<1> DEFINE s == ItemsOf(L, h)
           q == s[i]
           M == Enqueue(L, t, q)
           r == InsertAt(s, i, t)
<1>1. /\ Spells(L, h, s)
      /\ \A j, k \in 1 .. Len(s) : s[j] = s[k] => j = k
      /\ RingOf(L, h) = {h} \cup {s[j] : j \in 1 .. Len(s)}
  BY ItemsSpell
<1>2. t \notin RingOf(L, h)
  BY IsolatedNotInRing
<1>3. s \in Seq(Nodes) /\ Len(s) \in Nat /\ i \in 1 .. Len(s)
  BY <1>1 DEF Spells
<1> HIDE DEF s
<1>4. q \in Nodes /\ q # t /\ q # h
  BY <1>1, <1>2, <1>3 DEF Spells
<1>5. M \in Links /\ Coherent(M)
  BY <1>4, EnqueueType, EnqueueCoherent
<1>6. /\ L.pred[q] \in Nodes \ {t}
      /\ \A n \in Nodes : M.succ[n] = IF n = t THEN q ELSE IF n = L.pred[q] THEN t ELSE L.succ[n]
  BY <1>4, EnqueueFields
<1>7. r \in Seq(Nodes) /\ Len(r) = Len(s) + 1
      /\ \A j \in 1 .. Len(s) + 1 : r[j] = IF j < i THEN s[j] ELSE IF j = i THEN t ELSE s[j - 1]
  <2>1. i \in 1 .. Len(s) + 1
    BY <1>3
  <2>2. PICK x : x = s
    OBVIOUS
  <2>3. x \in Seq(Nodes) /\ i \in 1 .. Len(x) + 1
    BY <1>3, <2>1, <2>2
  <2>4. /\ InsertAt(x, i, t) \in Seq(Nodes)
        /\ Len(InsertAt(x, i, t)) = Len(x) + 1
        /\ \A j \in 1 .. Len(x) + 1 :
             InsertAt(x, i, t)[j] = IF j < i THEN x[j] ELSE IF j = i THEN t ELSE x[j - 1]
    BY <2>3, InsertAtFields
  <2> QED  BY <2>2, <2>4
<1>8. \A n \in Nodes : L.succ[n] = q <=> n = L.pred[q]
  BY <1>4 DEF Coherent, Links
<1> HIDE DEF M, r
<1>9. \A j \in 1 .. Len(s) : s[j] \in Nodes /\ s[j] # t /\ s[j] # h
                             /\ L.succ[s[j]] = IF j = Len(s) THEN h ELSE s[j + 1]
  BY <1>1, <1>2, <1>3 DEF Spells
<1>10. L.succ[h] = s[1] /\ 1 \in 1 .. Len(s)
  BY <1>1, <1>3 DEF Spells
<1>11. M.succ[h] = r[1]
  <2>1. 1 \in 1 .. Len(s) + 1
    BY <1>3
  <2>2. CASE i = 1
    BY <1>6, <1>7, <1>8, <1>10, <2>1, <2>2
  <2>3. CASE i # 1
    <3>1. s[1] # q
      BY <1>1, <1>3, <1>10, <2>3
    <3>2. h # L.pred[q]
      BY <1>8, <1>10, <3>1
    <3>3. r[1] = s[1]
      BY <1>3, <1>7, <2>1, <2>3
    <3> QED  BY <1>6, <1>10, <3>2, <3>3
  <2> QED  BY <2>2, <2>3
<1>12. ASSUME NEW j \in 1 .. Len(r)
       PROVE  r[j] # h /\ M.succ[r[j]] = IF j = Len(r) THEN h ELSE r[j + 1]
  <2>0. j \in 1 .. Len(s) + 1
    BY <1>7
  <2>1. CASE j = i
    <3>1. r[j] = t /\ j + 1 \in 1 .. Len(s) + 1 /\ j # Len(r)
      BY <1>3, <1>7, <2>0, <2>1
    <3>2. r[j + 1] = q
      BY <1>3, <1>7, <2>1, <3>1
    <3> QED  BY <1>6, <3>1, <3>2
  <2>2. CASE j < i - 1
    <3>1. j \in 1 .. Len(s) /\ j + 1 \in 1 .. Len(s) /\ j + 1 # i /\ j # Len(s)
      BY <1>3, <2>0, <2>2
    <3>2. r[j] = s[j] /\ j + 1 \in 1 .. Len(s) + 1 /\ r[j + 1] = s[j + 1] /\ j # Len(r)
      BY <1>3, <1>7, <2>0, <2>2, <3>1
    <3>3. L.succ[s[j]] = s[j + 1] /\ s[j + 1] # q
      BY <1>1, <1>3, <1>9, <3>1
    <3>4. s[j] # L.pred[q]
      BY <1>8, <1>9, <3>1, <3>3
    <3> QED  BY <1>6, <1>9, <3>1, <3>2, <3>3, <3>4
  <2>3. CASE j = i - 1
    <3>1. j \in 1 .. Len(s) /\ j + 1 = i /\ j # Len(s) /\ j # Len(r)
      BY <1>3, <1>7, <2>0, <2>3
    <3>2. r[j] = s[j] /\ i \in 1 .. Len(s) + 1 /\ r[i] = t
      BY <1>3, <1>7, <2>0, <2>3
    <3>3. s[j] = L.pred[q]
      BY <1>8, <1>9, <3>1
    <3> QED  BY <1>6, <1>9, <3>1, <3>2, <3>3
  <2>4. CASE j > i
    <3>1. j - 1 \in 1 .. Len(s) /\ (j - 1) + 1 = j /\ r[j] = s[j - 1]
      BY <1>3, <1>7, <2>0, <2>4
    <3>2. L.succ[s[j - 1]] = IF j - 1 = Len(s) THEN h ELSE s[j]
      BY <1>9, <3>1
    <3>3. j = Len(r) <=> j - 1 = Len(s)
      BY <1>3, <1>7, <2>0
    <3>4. j # Len(r) => j + 1 \in 1 .. Len(s) + 1 /\ j \in 1 .. Len(s) /\ r[j + 1] = s[j]
      BY <1>3, <1>7, <2>0, <2>4
    <3>5. s[j - 1] # L.pred[q]
      <4>1. CASE j - 1 = Len(s)
        BY <1>4, <1>8, <1>9, <3>1, <3>2, <4>1
      <4>2. CASE j - 1 # Len(s)
        <5>1. j \in 1 .. Len(s) /\ j # i
          BY <1>3, <2>0, <2>4, <4>2
        <5>2. s[j] # q
          BY <1>1, <1>3, <5>1
        <5> QED  BY <1>8, <1>9, <3>1, <3>2, <4>2, <5>2
      <4> QED  BY <4>1, <4>2
    <3> QED  BY <1>6, <1>9, <3>1, <3>2, <3>3, <3>4, <3>5
  <2> QED  BY <1>3, <2>0, <2>1, <2>2, <2>3, <2>4
<1>13. r # << >>
  BY <1>3, <1>7
<1>14. Spells(M, h, r)
  BY <1>7, <1>11, <1>12, <1>13 DEF Spells
<1>15. ItemsOf(M, h) = r
  BY <1>5, <1>14, SpellsUnique
<1> QED  BY <1>15 DEF M, r, s

(* dequeue takes the item out and leaves the order of the others. *)
LEMMA DequeueIsRemoval ==
  ASSUME NEW L \in Links, Coherent(L), NEW h \in Nodes, NEW i \in 1 .. Len(ItemsOf(L, h))
  PROVE  ItemsOf(Dequeue(L, ItemsOf(L, h)[i]), h) = RemoveAt(ItemsOf(L, h), i)
<1> DEFINE s == ItemsOf(L, h)
           t == s[i]
           M == Dequeue(L, t)
           r == RemoveAt(s, i)
<1>1. /\ Spells(L, h, s)
      /\ \A j, k \in 1 .. Len(s) : s[j] = s[k] => j = k
  BY ItemsSpell
<1>2. s \in Seq(Nodes) /\ Len(s) \in Nat /\ i \in 1 .. Len(s)
  BY <1>1 DEF Spells
<1> HIDE DEF s
<1>3. /\ L.succ[h] = s[1] /\ 1 \in 1 .. Len(s)
      /\ \A j \in 1 .. Len(s) : s[j] \in Nodes /\ s[j] # h
                               /\ L.succ[s[j]] = IF j = Len(s) THEN h ELSE s[j + 1]
  BY <1>1, <1>2 DEF Spells
<1>4. t \in Nodes /\ t # h
  BY <1>2, <1>3
<1>5. M \in Links /\ Coherent(M)
  BY <1>4, DequeueType, DequeueCoherent
<1>6. \A n \in Nodes : M.succ[n] = IF n = t THEN t ELSE IF n = L.pred[t] THEN L.succ[t] ELSE L.succ[n]
  BY <1>4, DequeueFields
<1>7. \A n \in Nodes : L.succ[n] = t <=> n = L.pred[t]
  BY <1>4 DEF Coherent, Links
<1>8. r \in Seq(Nodes) /\ Len(r) = Len(s) - 1
      /\ \A j \in 1 .. Len(s) - 1 : r[j] = IF j < i THEN s[j] ELSE s[j + 1]
  BY <1>2, RemoveAtFields
<1> HIDE DEF M, r
<1>9. M.succ[h] = IF r = << >> THEN h ELSE r[1]
  <2>1. CASE i = 1
    <3>1. h = L.pred[t]
      BY <1>3, <1>7, <2>1
    <3>2. M.succ[h] = L.succ[s[1]]
      BY <1>4, <1>6, <2>1, <3>1
    <3>3. L.succ[s[1]] = IF 1 = Len(s) THEN h ELSE s[1 + 1]
      BY <1>3
    <3>4. Len(s) = 1 => r = << >>
      BY <1>8
    <3>5. Len(s) # 1 => r # << >> /\ r[1] = s[1 + 1]
      BY <1>2, <1>3, <1>8, <2>1
    <3> QED  BY <3>2, <3>3, <3>4, <3>5
  <2>2. CASE i # 1
    <3>1. s[1] # t
      BY <1>1, <1>2, <1>3, <2>2
    <3>2. h # L.pred[t]
      BY <1>3, <1>7, <3>1
    <3>3. r # << >> /\ r[1] = s[1]
      BY <1>2, <1>8, <2>2
    <3> QED  BY <1>3, <1>4, <1>6, <3>2, <3>3
  <2> QED  BY <2>1, <2>2
<1>10. ASSUME NEW j \in 1 .. Len(r)
       PROVE  r[j] # h /\ M.succ[r[j]] = IF j = Len(r) THEN h ELSE r[j + 1]
  <2>0. j \in 1 .. Len(s) - 1
    BY <1>8
  <2>1. CASE j < i - 1
    <3>1. j \in 1 .. Len(s) /\ j + 1 \in 1 .. Len(s) /\ j + 1 # i /\ j # i /\ j # Len(s)
          /\ j + 1 \in 1 .. Len(s) - 1
      BY <1>2, <2>0, <2>1
    <3>2. r[j] = s[j] /\ r[j + 1] = s[j + 1] /\ j # Len(r)
      BY <1>2, <1>8, <2>0, <2>1, <3>1
    <3>3. L.succ[s[j]] = s[j + 1] /\ s[j + 1] # t /\ s[j] # t
      BY <1>1, <1>2, <1>3, <3>1
    <3>4. s[j] # L.pred[t]
      BY <1>3, <1>7, <3>1, <3>3
    <3> QED  BY <1>3, <1>6, <3>1, <3>2, <3>3, <3>4
  <2>2. CASE j = i - 1
    <3>1. j \in 1 .. Len(s) /\ j + 1 = i /\ j # Len(s) /\ j # i
      BY <1>2, <2>0, <2>2
    <3>2. r[j] = s[j] /\ s[j] # t
      BY <1>1, <1>2, <1>8, <2>0, <2>2, <3>1
    <3>3. s[j] = L.pred[t]
      BY <1>3, <1>7, <3>1
    <3>4. M.succ[r[j]] = L.succ[t]
      BY <1>3, <1>6, <3>1, <3>2, <3>3
    <3>5. L.succ[t] = IF i = Len(s) THEN h ELSE s[i + 1]
      BY <1>2, <1>3
    <3>6. j = Len(r) <=> i = Len(s)
      BY <1>2, <1>8, <3>1
    <3>7. j # Len(r) => j + 1 \in 1 .. Len(s) - 1 /\ r[j + 1] = s[i + 1]
      BY <1>2, <1>8, <2>0, <2>2
    <3> QED  BY <1>3, <3>1, <3>2, <3>4, <3>5, <3>6, <3>7
  <2>3. CASE j >= i
    <3>1. j + 1 \in 1 .. Len(s) /\ j + 1 # i /\ r[j] = s[j + 1]
      BY <1>2, <1>8, <2>0, <2>3
    <3>2. L.succ[s[j + 1]] = IF j + 1 = Len(s) THEN h ELSE s[(j + 1) + 1]
      BY <1>3, <3>1
    <3>3. j = Len(r) <=> j + 1 = Len(s)
      BY <1>2, <1>8, <2>0
    <3>4. j # Len(r) => /\ j + 1 \in 1 .. Len(s) - 1 /\ r[j + 1] = s[(j + 1) + 1]
                        /\ (j + 1) + 1 \in 1 .. Len(s) /\ (j + 1) + 1 # i
      BY <1>2, <1>8, <2>0, <2>3
    <3>5. s[j + 1] # t
      BY <1>1, <1>2, <3>1
    <3>6. L.succ[s[j + 1]] # t
      BY <1>1, <1>2, <1>4, <3>2, <3>3, <3>4
    <3>7. s[j + 1] # L.pred[t]
      BY <1>3, <1>7, <3>1, <3>6
    <3> QED  BY <1>3, <1>6, <3>1, <3>2, <3>3, <3>4, <3>5, <3>7
  <2> QED  BY <1>2, <2>0, <2>1, <2>2, <2>3
<1>11. Spells(M, h, r)
  BY <1>8, <1>9, <1>10 DEF Spells
<1>12. ItemsOf(M, h) = r
  BY <1>5, <1>11, SpellsUnique
<1> QED  BY <1>12 DEF M, r, s

(* Links that differ only outside a ring leave its items as they were. *)
LEMMA RingUntouched ==
  ASSUME NEW L \in Links, Coherent(L), NEW M \in Links, Coherent(M), NEW h \in Nodes,
         \A n \in RingOf(L, h) : M.succ[n] = L.succ[n]
  PROVE  ItemsOf(M, h) = ItemsOf(L, h)
<1> DEFINE s == ItemsOf(L, h)
<1>1. Spells(L, h, s) /\ RingOf(L, h) = {h} \cup {s[i] : i \in 1 .. Len(s)}
  BY ItemsSpell
<1> HIDE DEF s
<1>2. Spells(M, h, s)
  BY <1>1 DEF Spells
<1>3. ItemsOf(M, h) = s
  BY <1>2, SpellsUnique
<1> QED  BY <1>3 DEF s

(* A node outside a ring has its predecessor outside too. *)
LEMMA PredOutside ==
  ASSUME NEW L \in Links, Coherent(L), NEW h \in Nodes, NEW q \in Nodes, q \notin RingOf(L, h)
  PROVE  L.pred[q] \notin RingOf(L, h)
<1>1. PICK p \in 1 .. Cardinality(Nodes) : Period(L, h, p)
  BY PeriodExists
<1>2. \A n \in RingOf(L, h) : n \in Nodes /\ L.succ[n] \in RingOf(L, h)
  BY <1>1, RingIsClosed
<1> QED  BY <1>2 DEF Coherent

(* enqueue into another ring changes nothing in this one. *)
LEMMA EnqueueElsewhere ==
  ASSUME NEW L \in Links, Coherent(L), NEW h \in Nodes, NEW t \in Nodes, NEW q \in Nodes,
         Isolated(L, t), t # q, t # h, q \notin RingOf(L, h)
  PROVE  ItemsOf(Enqueue(L, t, q), h) = ItemsOf(L, h)
<1> DEFINE M == Enqueue(L, t, q)
<1>1. M \in Links /\ Coherent(M)
  BY EnqueueType, EnqueueCoherent
<1>2. /\ L.pred[q] \in Nodes \ {t}
      /\ \A n \in Nodes : M.succ[n] = IF n = t THEN q ELSE IF n = L.pred[q] THEN t ELSE L.succ[n]
  BY EnqueueFields
<1>3. t \notin RingOf(L, h) /\ L.pred[q] \notin RingOf(L, h)
  BY IsolatedNotInRing, PredOutside
<1>4. \A n \in RingOf(L, h) : n \in Nodes
  BY PeriodExists, RingIsClosed
<1> HIDE DEF M
<1>5. ItemsOf(M, h) = ItemsOf(L, h)
  BY <1>1, <1>2, <1>3, <1>4, RingUntouched
<1> QED  BY <1>5 DEF M

(* dequeue of an item of another ring changes nothing in this one. *)
LEMMA DequeueElsewhere ==
  ASSUME NEW L \in Links, Coherent(L), NEW h \in Nodes, NEW t \in Nodes, t \notin RingOf(L, h)
  PROVE  ItemsOf(Dequeue(L, t), h) = ItemsOf(L, h)
<1> DEFINE M == Dequeue(L, t)
<1>1. M \in Links /\ Coherent(M)
  BY DequeueType, DequeueCoherent
<1>2. \A n \in Nodes : M.succ[n] = IF n = t THEN t ELSE IF n = L.pred[t] THEN L.succ[t] ELSE L.succ[n]
  BY DequeueFields
<1>3. L.pred[t] \notin RingOf(L, h)
  BY PredOutside
<1>4. \A n \in RingOf(L, h) : n \in Nodes
  BY PeriodExists, RingIsClosed
<1> HIDE DEF M
<1>5. ItemsOf(M, h) = ItemsOf(L, h)
  BY <1>1, <1>2, <1>3, <1>4, RingUntouched
<1> QED  BY <1>5 DEF M
----------------------------------------------------------------------------
(***************************************************************************)
(* The ring of a node as a set.                                            *)
(***************************************************************************)
(* A ring is its header and its items, all of them nodes. *)
LEMMA RingMembers ==
  ASSUME NEW L \in Links, Coherent(L), NEW h \in Nodes
  PROVE  /\ RingOf(L, h) \subseteq Nodes /\ h \in RingOf(L, h)
         /\ \A n \in RingOf(L, h) : L.succ[n] \in RingOf(L, h)
         /\ ItemsOf(L, h) \in Seq(Nodes)
         /\ \A n \in RingOf(L, h) \ {h} :
              \E i \in 1 .. Len(ItemsOf(L, h)) : ItemsOf(L, h)[i] = n
         /\ \A i \in 1 .. Len(ItemsOf(L, h)) : ItemsOf(L, h)[i] \in RingOf(L, h) \ {h}
<1> DEFINE s == ItemsOf(L, h)
<1>1. PICK p \in 1 .. Cardinality(Nodes) : Period(L, h, p)
  BY PeriodExists
<1>2. /\ \A n \in RingOf(L, h) : n \in Nodes /\ L.succ[n] \in RingOf(L, h)
      /\ h \in RingOf(L, h)
  BY <1>1, RingIsClosed
<1>3. Spells(L, h, s) /\ RingOf(L, h) = {h} \cup {s[i] : i \in 1 .. Len(s)}
  BY ItemsSpell
<1> HIDE DEF s
<1>4. s \in Seq(Nodes) /\ \A i \in 1 .. Len(s) : s[i] # h
  BY <1>3 DEF Spells
<1>5. /\ \A n \in RingOf(L, h) \ {h} : \E i \in 1 .. Len(s) : s[i] = n
      /\ \A i \in 1 .. Len(s) : s[i] \in RingOf(L, h) \ {h}
  BY <1>3, <1>4
<1> QED  BY <1>2, <1>4, <1>5 DEF s

(* An item put into a ring, wherever, is what the ring has more. *)
LEMMA EnqueueRing ==
  ASSUME NEW L \in Links, Coherent(L), NEW h \in Nodes, NEW t \in Nodes, NEW q \in RingOf(L, h),
         Isolated(L, t), t # q, t # h
  PROVE  RingOf(Enqueue(L, t, q), h) = RingOf(L, h) \cup {t}
<1> DEFINE s == ItemsOf(L, h)
           M == Enqueue(L, t, q)
           r == ItemsOf(M, h)
<1>1. q \in Nodes /\ s \in Seq(Nodes) /\ Len(s) \in Nat
  BY RingMembers
<1>2. M \in Links /\ Coherent(M)
  BY <1>1, EnqueueType, EnqueueCoherent
<1>3. RingOf(L, h) = {h} \cup {s[i] : i \in 1 .. Len(s)}
  BY ItemsSpell
<1> HIDE DEF M
<1>4. RingOf(M, h) = {h} \cup {r[i] : i \in 1 .. Len(r)}
  BY <1>2, ItemsSpell
<1>5. CASE q = h
  <2>1. r = Append(s, t)
    BY <1>5, EnqueueIsAppend DEF M
  <2> HIDE DEF r, s
  <2>2. Len(r) = Len(s) + 1 /\ r[Len(s) + 1] = t /\ \A i \in 1 .. Len(s) : r[i] = s[i]
    BY <1>1, <2>1
  <2>3. \A i \in 1 .. Len(r) : i = Len(s) + 1 \/ i \in 1 .. Len(s)
    BY <1>1, <2>2
  <2>4. Len(s) + 1 \in 1 .. Len(r) /\ \A i \in 1 .. Len(s) : i \in 1 .. Len(r)
    BY <1>1, <2>2
  <2> QED  BY <1>3, <1>4, <2>2, <2>3, <2>4 DEF M
<1>6. CASE q # h
  <2>0. q \in RingOf(L, h) \ {h}
    BY <1>6
  <2>1. PICK i \in 1 .. Len(s) : s[i] = q
    BY <2>0, RingMembers
  <2>2. r = InsertAt(s, i, t)
    BY <2>1, EnqueueIsInsertion DEF M
  <2> HIDE DEF r, s
  <2>3. i \in 1 .. Len(s) + 1
    BY <1>1
  <2>4. /\ Len(r) = Len(s) + 1
        /\ \A j \in 1 .. Len(s) + 1 : r[j] = IF j < i THEN s[j] ELSE IF j = i THEN t ELSE s[j - 1]
    <3>1. /\ InsertAt(s, i, t) \in Seq(Nodes)
          /\ Len(InsertAt(s, i, t)) = Len(s) + 1
          /\ \A j \in 1 .. Len(s) + 1 :
               InsertAt(s, i, t)[j] = IF j < i THEN s[j] ELSE IF j = i THEN t ELSE s[j - 1]
      BY <1>1, <2>3, InsertAtFields
    <3> QED  BY <2>2, <3>1
  <2>5. \A n \in {r[j] : j \in 1 .. Len(r)} : n = t \/ n \in {s[j] : j \in 1 .. Len(s)}
    <3> SUFFICES ASSUME NEW j \in 1 .. Len(r), r[j] # t PROVE r[j] \in {s[k] : k \in 1 .. Len(s)}
      OBVIOUS
    <3>1. j < i => j \in 1 .. Len(s)
      BY <1>1
    <3>2. j > i => j - 1 \in 1 .. Len(s)
      BY <1>1, <2>4
    <3> QED  BY <1>1, <2>4, <3>1, <3>2
  <2>6. t \in {r[j] : j \in 1 .. Len(r)}
    BY <1>1, <2>3, <2>4
  <2>7. \A j \in 1 .. Len(s) : s[j] \in {r[k] : k \in 1 .. Len(r)}
    <3> SUFFICES ASSUME NEW j \in 1 .. Len(s) PROVE s[j] \in {r[k] : k \in 1 .. Len(r)}
      OBVIOUS
    <3>1. CASE j < i
      <4>1. j \in 1 .. Len(r) /\ r[j] = s[j]
        BY <1>1, <2>4, <3>1
      <4> QED  BY <4>1
    <3>2. CASE j >= i
      <4>1. j + 1 \in 1 .. Len(r) /\ r[j + 1] = s[j]
        BY <1>1, <2>4, <3>2
      <4> QED  BY <4>1
    <3> QED  BY <1>1, <3>1, <3>2
  <2> QED  BY <1>3, <1>4, <2>5, <2>6, <2>7 DEF M
<1> QED  BY <1>5, <1>6

(* An item taken out is what the ring has less. *)
LEMMA DequeueRing ==
  ASSUME NEW L \in Links, Coherent(L), NEW h \in Nodes, NEW t \in RingOf(L, h), t # h
  PROVE  RingOf(Dequeue(L, t), h) = RingOf(L, h) \ {t}
<1> DEFINE s == ItemsOf(L, h)
           M == Dequeue(L, t)
           r == ItemsOf(M, h)
<1>1. t \in Nodes /\ s \in Seq(Nodes) /\ Len(s) \in Nat
  BY RingMembers
<1>2. M \in Links /\ Coherent(M)
  BY <1>1, DequeueType, DequeueCoherent
<1>3. /\ RingOf(L, h) = {h} \cup {s[j] : j \in 1 .. Len(s)}
      /\ \A j, k \in 1 .. Len(s) : s[j] = s[k] => j = k
  BY ItemsSpell
<1>4. PICK i \in 1 .. Len(s) : t = s[i]
  BY RingMembers
<1>5. r = RemoveAt(s, i)
  BY <1>4, DequeueIsRemoval
<1> HIDE DEF M
<1>6. RingOf(M, h) = {h} \cup {r[j] : j \in 1 .. Len(r)}
  BY <1>2, ItemsSpell
<1> HIDE DEF r, s
<1>7. /\ Len(r) = Len(s) - 1
      /\ \A j \in 1 .. Len(s) - 1 : r[j] = IF j < i THEN s[j] ELSE s[j + 1]
  BY <1>1, <1>5, RemoveAtFields
<1>8. \A j \in 1 .. Len(r) : r[j] \in {s[k] : k \in 1 .. Len(s)} \ {t}
  <2> SUFFICES ASSUME NEW j \in 1 .. Len(r)
               PROVE  r[j] \in {s[k] : k \in 1 .. Len(s)} \ {t}
    OBVIOUS
  <2>1. CASE j < i
    <3>1. j \in 1 .. Len(s) /\ j # i /\ r[j] = s[j]
      BY <1>1, <1>7, <2>1
    <3> QED  BY <1>3, <1>4, <3>1
  <2>2. CASE j >= i
    <3>1. j + 1 \in 1 .. Len(s) /\ j + 1 # i /\ r[j] = s[j + 1]
      BY <1>1, <1>7, <2>2
    <3> QED  BY <1>3, <1>4, <3>1
  <2> QED  BY <1>1, <2>1, <2>2
<1>9. \A j \in 1 .. Len(s) : s[j] = t \/ s[j] \in {r[k] : k \in 1 .. Len(r)}
  <2> SUFFICES ASSUME NEW j \in 1 .. Len(s), s[j] # t
               PROVE  s[j] \in {r[k] : k \in 1 .. Len(r)}
    OBVIOUS
  <2>1. CASE j < i
    <3>1. j \in 1 .. Len(r) /\ r[j] = s[j]
      BY <1>1, <1>7, <2>1
    <3> QED  BY <3>1
  <2>2. CASE j > i
    <3>1. j - 1 \in 1 .. Len(r) /\ r[j - 1] = s[(j - 1) + 1] /\ (j - 1) + 1 = j
      BY <1>1, <1>7, <2>2
    <3> QED  BY <3>1
  <2> QED  BY <1>1, <1>4, <2>1, <2>2
<1> QED  BY <1>3, <1>6, <1>8, <1>9 DEF M

(* size-queue counts the members of the ring, and ?member-queue finds them. *)
LEMMA RingSize ==
  ASSUME NEW L \in Links, Coherent(L), NEW h \in Nodes
  PROVE  /\ SizeQueue(L, h) = Cardinality(RingOf(L, h))
         /\ {n \in Nodes : MemberQueue(L, n, h)} = RingOf(L, h)
<1> DEFINE at == StepsFrom(L, h)
           p == SizeQueue(L, h)
           f == [k \in 0 .. p - 1 |-> at[k]]
<1>1. Period(L, h, p) /\ at \in [Nat -> Nodes]
  BY SizeIsPeriod, StepsFromDef
<1>2. RingOf(L, h) = {at[k] : k \in 0 .. p - 1}
  BY <1>1, RingIsClosed
<1>3. \A i, j \in 0 .. p - 1 : at[i] = at[j] => i = j
  BY <1>1, StepsDistinct
<1>4. p \in Nat \ {0}
  BY <1>1 DEF Period
<1> HIDE DEF at, p
<1>5. f \in Bijection(0 .. p - 1, RingOf(L, h))
  <2>1. f \in [0 .. p - 1 -> RingOf(L, h)]
    BY <1>2
  <2>2. \A i, j \in 0 .. p - 1 : f[i] = f[j] => i = j
    BY <1>3
  <2>3. \A n \in RingOf(L, h) : \E k \in 0 .. p - 1 : f[k] = n
    BY <1>2
  <2> HIDE DEF f
  <2> QED  BY <2>1, <2>2, <2>3, Fun_IsBij
<1>6. IsFiniteSet(0 .. p - 1) /\ Cardinality(0 .. p - 1) = p
  BY <1>4, FS_Interval
<1>7. Cardinality(RingOf(L, h)) = p
  BY <1>5, <1>6, FS_Bijection, Fun_ExistsBij
<1>8. \A n \in Nodes : MemberQueue(L, n, h) <=> \E k \in 0 .. p - 1 : at[k] = n
  BY DEF MemberQueue, at, p
<1>9. \A k \in 0 .. p - 1 : at[k] \in Nodes
  BY <1>1, <1>4
<1> QED  BY <1>2, <1>7, <1>8, <1>9 DEF p
============================================================================
