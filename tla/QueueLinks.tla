---------------------------- MODULE QueueLinks ----------------------------
(***************************************************************************)
(* The circular doubly linked queues of the tile kernel (src/queues.v) and *)
(* of lib/queues.f83, as operators on the two pointer fields of every      *)
(* node.  A queue header, a queue item and a task header are all nodes: a  *)
(* TASK begins with its "queue" field, so a task pointer is a queue item.  *)
(* A node that points to itself both ways is an empty queue or an item     *)
(* that is in no queue.                                                    *)
(*                                                                         *)
(* The operators keep the order of the assignments of the code, so that    *)
(* they also say what happens to nodes that are linked already.            *)
(***************************************************************************)
EXTENDS Naturals, FiniteSets

CONSTANT Nodes          \* every address used as a QUEUE pointer

\* Memory is finite: the C kernel never has unboundedly many nodes.
ASSUME MemoryIsFinite == IsFiniteSet(Nodes)

Links == [succ : [Nodes -> Nodes], pred : [Nodes -> Nodes]]

\* struct.init of QUEUE and make_task: a new node points to itself.
EmptyLinks == [succ |-> [n \in Nodes |-> n], pred |-> [n \in Nodes |-> n]]

\* ?empty-queue
IsEmptyQueue(L, q) == L.succ[q] = q

\* Mutants of enqueue: the last assignment is forgotten; the item is put
\* behind its parameter instead of before it.
EnqueueNoBackLink(L, t, q) ==
  [succ |-> [L.succ EXCEPT ![t] = q, ![L.pred[q]] = t],
   pred |-> [L.pred EXCEPT ![t] = L.pred[q]]]
EnqueueBehind(L, t, q) ==
  [succ |-> [L.succ EXCEPT ![t] = L.succ[q], ![q] = t],
   pred |-> [L.pred EXCEPT ![t] = q, ![L.succ[q]] = t]]

\* enqueue ( item queue -- ): t becomes the predecessor of q.
Enqueue(L, t, q) ==
  LET pred1 == [L.pred EXCEPT ![t] = L.pred[q]]
      succ1 == [L.succ EXCEPT ![t] = q]
  IN  [succ |-> [succ1 EXCEPT ![pred1[q]] = t],
       pred |-> [pred1 EXCEPT ![q] = t]]

\* Mutant of dequeue: the item keeps its old links.
DequeueStale(L, t) == [succ |-> [L.succ EXCEPT ![L.pred[t]] = L.succ[t]],
                       pred |-> [L.pred EXCEPT ![L.succ[t]] = L.pred[t]]]

\* dequeue ( item -- ), the kernel's order: first the successor's pred.
Dequeue(L, t) ==
  LET pred1 == [L.pred EXCEPT ![L.succ[t]] = L.pred[t]]
      succ1 == [L.succ EXCEPT ![pred1[t]] = L.succ[t]]
  IN  [succ |-> [succ1 EXCEPT ![t] = t], pred |-> [pred1 EXCEPT ![t] = t]]

\* dequeue as lib/queues.f83 defines it for a kernel without queues: first
\* the predecessor's succ, then the successor's pred.
ForthDequeue(L, t) ==
  LET succ1 == [L.succ EXCEPT ![L.pred[t]] = L.succ[t]]
      pred1 == [L.pred EXCEPT ![succ1[t]] = L.pred[t]]
  IN  [succ |-> [succ1 EXCEPT ![t] = t], pred |-> [pred1 EXCEPT ![t] = t]]

\* The node the traversal loops of the library reach after k steps from q.
StepsFrom(L, q) ==
  LET at[k \in Nat] == IF k = 0 THEN q ELSE L.succ[at[k - 1]] IN at

\* Mutant of size-queue: the header is not counted.
SizeWithoutHeader(L, q) ==
  CHOOSE k \in 0 .. Cardinality(Nodes) :
    /\ StepsFrom(L, q)[k + 1] = q
    /\ \A j \in 1 .. k : StepsFrom(L, q)[j] # q

\* size-queue: steps are counted until the header comes round again, so the
\* header is counted too.  Defined when the traversal does come round.
SizeQueue(L, q) ==
  CHOOSE k \in 1 .. Cardinality(Nodes) :
    /\ StepsFrom(L, q)[k] = q
    /\ \A j \in 1 .. k - 1 : StepsFrom(L, q)[j] # q

\* ?member-queue: the header is compared first, then every successor.
MemberQueue(L, e, q) ==
  \E k \in 0 .. SizeQueue(L, q) - 1 : StepsFrom(L, q)[k] = e

\* The ring a node is in, and the items of a header in queue order.
RingOf(L, q) == {StepsFrom(L, q)[k] : k \in 0 .. Cardinality(Nodes)}
ItemsOf(L, q) == [i \in 1 .. SizeQueue(L, q) - 1 |-> StepsFrom(L, q)[i]]

\* Each pointer field undoes the other.
Coherent(L) == \A n \in Nodes : /\ L.pred[L.succ[n]] = n
                                /\ L.succ[L.pred[n]] = n

Isolated(L, t) == L.succ[t] = t /\ L.pred[t] = t
============================================================================
