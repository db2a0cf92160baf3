---------------------------- MODULE QueueSpec -----------------------------
(***************************************************************************)
(* What the queue words promise (man/man3/queues.3): every header holds a  *)
(* sequence of items, an item is in at most one of them, "enqueue" puts an *)
(* item last in a queue or right before another item, and "dequeue" takes  *)
(* an item out without being told which queue it is in.                    *)
(***************************************************************************)
EXTENDS Naturals, Sequences, SequencesExt

CONSTANTS Headers, Items

VARIABLE queue          \* the items of every header, in order

Member(h, t) == \E i \in DOMAIN queue[h] : queue[h][i] = t

IsFree(t) == \A h \in Headers : ~ Member(h, t)

Init == queue = [h \in Headers |-> << >>]

PutLast(t, h) ==
  /\ IsFree(t)
  /\ queue' = [queue EXCEPT ![h] = Append(@, t)]

PutBefore(t, u) ==
  /\ IsFree(t)
  /\ \E h \in Headers : \E i \in DOMAIN queue[h] :
       /\ queue[h][i] = u
       /\ queue' = [queue EXCEPT ![h] = InsertAt(@, i, t)]

TakeOut(t) ==
  \E h \in Headers : \E i \in DOMAIN queue[h] :
    /\ queue[h][i] = t
    /\ queue' = [queue EXCEPT ![h] = RemoveAt(@, i)]

Next == \E t \in Items : \/ \E h \in Headers : PutLast(t, h)
                         \/ \E u \in Items : PutBefore(t, u)
                         \/ TakeOut(t)

Spec == Init /\ [][Next]_queue
============================================================================
