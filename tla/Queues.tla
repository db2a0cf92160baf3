------------------------------- MODULE Queues ------------------------------
(***************************************************************************)
(* Clients of the queue words: items are put into queues, taken out, and a *)
(* queue is traversed with map-queue or ?map-queue while the block that is *)
(* called for each item (or another task, if the block detaches) changes   *)
(* the queues.                                                             *)
(*                                                                         *)
(* The words do not check their parameters.  A client keeps one rule,      *)
(* which the guards of Put state: an item is enqueued only while it is in  *)
(* no queue, before a header or before an item that is in a queue.         *)
(***************************************************************************)
EXTENDS QueueLinks, Sequences

CONSTANTS Headers, Items,
          MaxEdits      \* bound: changes of the queues during one traversal

VARIABLES links,        \* the succ and pred fields of every node
          walk          \* the traversal in progress

vars == <<links, walk>>

ASSUME NodesAssumption == /\ Nodes = Headers \cup Items
                          /\ Headers \cap Items = {}
ASSUME BoundAssumption == MaxEdits \in Nat

(***************************************************************************)
(* A traversal holds the header (on the return stack), the item its block  *)
(* is working on and the successor it saved before calling the block.      *)
(* Three history fields say what it did: how often an item was handed to   *)
(* the block, the members that never left the queue since it began, and    *)
(* whether the saved successor was taken out behind its back.              *)
(***************************************************************************)
NoWalk == [active |-> FALSE]

Init == links = EmptyLinks /\ walk = NoWalk

CountCall(calls, n) == [calls EXCEPT ![n] = IF @ < 2 THEN @ + 1 ELSE @]

InSomeQueue(u) == u \in Headers \/ ~ Isolated(links, u)

MayEdit == walk.active => walk.edits < MaxEdits

Put(t, q) ==
  /\ Isolated(links, t) /\ t # q /\ InSomeQueue(q) /\ MayEdit
  /\ links' = Enqueue(links, t, q)
  /\ walk' = IF walk.active THEN [walk EXCEPT !.edits = @ + 1] ELSE walk

Take(t) ==
  /\ ~ Isolated(links, t) /\ MayEdit
  /\ links' = Dequeue(links, t)
  /\ walk' = IF walk.active
             THEN [walk EXCEPT !.edits = @ + 1, !.stayed = @ \ {t},
                               !.torn = @ \/ t = walk.next]
             ELSE walk

\* map-queue reads the successor before it calls the block on the header.
StartMap(h) ==
  /\ ~ walk.active
  /\ walk' = [active |-> TRUE, header |-> h, item |-> h, next |-> links.succ[h],
              calls |-> CountCall([n \in Nodes |-> 0], h),
              stayed |-> RingOf(links, h), torn |-> FALSE, edits |-> 0]
  /\ UNCHANGED links

\* Mutant of map-queue: the successor is read after the call of the block.
StepMapLate ==
  LET n == links.succ[walk.item]
  IN  /\ walk.active /\ walk.next # walk.header
      /\ walk' = [walk EXCEPT !.item = n, !.next = links.succ[n],
                              !.calls = CountCall(@, n)]
      /\ UNCHANGED links

\* The block has returned: go on with the successor saved before the call.
StepMap ==
  /\ walk.active /\ walk.next # walk.header
  /\ walk' = [walk EXCEPT !.item = walk.next,
                          !.next = links.succ[walk.next],
                          !.calls = CountCall(@, walk.next)]
  /\ UNCHANGED links

EndMap == /\ walk.active /\ walk.next = walk.header
          /\ walk' = NoWalk
          /\ UNCHANGED links

\* ?map-queue: the block returned true.
StopMap == walk.active /\ walk' = NoWalk /\ UNCHANGED links

Next == \/ \E t \in Items : Take(t) \/ \E q \in Nodes : Put(t, q)
        \/ \E h \in Headers : StartMap(h)
        \/ StepMap \/ EndMap \/ StopMap

\* The interpreter goes on executing the loop of a traversal.
Spec == Init /\ [][Next]_vars /\ WF_vars(StepMap) /\ WF_vars(EndMap)
----------------------------------------------------------------------------
(***************************************************************************)
(* Both pointer fields of every node agree, whatever is put in, taken out  *)
(* or traversed: the words of src/queues.v keep every ring closed.         *)
(***************************************************************************)
RingsCoherent == Coherent(links)

(***************************************************************************)
(* When map-queue is through, its block has been called exactly once for   *)
(* each member that stayed in the queue, although the block may take its   *)
(* own item out, put it elsewhere and add items; the one change that       *)
(* breaks it is taking out the item map-queue will go on with.             *)
(***************************************************************************)
MapVisitsOnce ==
  walk.active /\ walk.next = walk.header /\ ~ walk.torn
    => \A n \in walk.stayed : walk.calls[n] = 1

(***************************************************************************)
(* size-queue and ?member-queue agree with the rings: the size is the      *)
(* number of items and the header, and the members are exactly those.      *)
(***************************************************************************)
SizeAndMembersAgree ==
  \A h \in Headers :
    /\ SizeQueue(links, h) = Cardinality(RingOf(links, h))
    /\ {n \in Nodes : MemberQueue(links, n, h)} = RingOf(links, h)

(***************************************************************************)
(* A traversal comes to its end once the queues are no longer changed,     *)
(* unless the item it saved was taken out from under it.                   *)
(***************************************************************************)
MapEnds == walk.active ~> (~ walk.active \/ walk.torn)

(***************************************************************************)
(* The linked rings implement sequences of items.                          *)
(***************************************************************************)
Abstract == INSTANCE QueueSpec
              WITH queue <- [h \in Headers |-> ItemsOf(links, h)]

(* Every pointer operation of a client is an operation on sequences. *)
ImplementsQueueSpec == Abstract!Spec

(***************************************************************************)
(* enqueue puts the item where its parameter says: last into the queue of  *)
(* a header (queues.3:72-76), right before an item that is in a queue.     *)
(***************************************************************************)
PutsWhereAsked ==
  [][\A t \in Items, q \in Nodes :
       Put(t, q) => IF q \in Headers THEN Abstract!PutLast(t, q)
                                     ELSE Abstract!PutBefore(t, q)]_vars
============================================================================
