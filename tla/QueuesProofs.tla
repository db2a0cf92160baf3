---------------------------- MODULE QueuesProofs --------------------------
(***************************************************************************)
(* The queues stay coherent under every use that enqueues only items of no *)
(* queue, for any number of queues and items and any traversal.            *)
(***************************************************************************)
EXTENDS Queues, RingLemmas

\* The inductive invariant: the pointers of every node are nodes, and agree.
LinksInv == links \in Links /\ RingsCoherent

(* New nodes point to themselves. *)
LEMMA InitLinksInv == Init => LinksInv
  BY DEF Init, LinksInv, RingsCoherent, EmptyLinks, Links, Coherent

(* Put and Take keep the rings coherent, a traversal only reads them. *)
LEMMA NextLinksInv == LinksInv /\ [Next]_vars => LinksInv'
<1> SUFFICES ASSUME LinksInv, [Next]_vars PROVE LinksInv'
  OBVIOUS
<1> USE DEF LinksInv, RingsCoherent
<1>0. Items \subseteq Nodes
  BY NodesAssumption
<1>1. ASSUME NEW t \in Items, NEW q \in Nodes, Put(t, q) PROVE LinksInv'
  <2>1. Isolated(links, t) /\ t # q /\ links' = Enqueue(links, t, q)
    BY <1>1 DEF Put
  <2> QED  BY <1>0, <2>1, EnqueueType, EnqueueCoherent
<1>2. ASSUME NEW t \in Items, Take(t) PROVE LinksInv'
  <2>1. links' = Dequeue(links, t)
    BY <1>2 DEF Take
  <2> QED  BY <1>0, <2>1, DequeueType, DequeueCoherent
<1>3. ASSUME NEW h \in Headers, StartMap(h) PROVE LinksInv'
  BY <1>3 DEF StartMap
<1>4. CASE StepMap
  BY <1>4 DEF StepMap
<1>5. CASE EndMap
  BY <1>5 DEF EndMap
<1>6. CASE StopMap
  BY <1>6 DEF StopMap
<1>7. CASE UNCHANGED vars
  BY <1>7 DEF vars
<1> QED  BY <1>1, <1>2, <1>3, <1>4, <1>5, <1>6, <1>7 DEF Next

(* The succ and pred fields of every node agree in every state. *)
THEOREM QueuesCoherent == Spec => []RingsCoherent
<1>1. LinksInv => RingsCoherent
  BY DEF LinksInv
<1> QED  BY <1>1, InitLinksInv, NextLinksInv, PTL DEF Spec
----------------------------------------------------------------------------
(***************************************************************************)
(* Traversals and sequences need to know which ring every item is in.      *)
(***************************************************************************)
\* No node is in the rings of two headers, ...
HeadersApart == \A g, h \in Headers : g # h => RingOf(links, g) \cap RingOf(links, h) = {}

\* ... and an item that is linked to others is in the ring of a header.
QueuedSomewhere ==
  \A n \in Items : ~ Isolated(links, n) => \E h \in Headers : n \in RingOf(links, h)

RingsInv == LinksInv /\ HeadersApart /\ QueuedSomewhere

(* New headers are empty queues. *)
LEMMA InitRings == Init => /\ RingsInv
                           /\ \A h \in Headers : ItemsOf(links, h) = << >>
<1> SUFFICES ASSUME Init PROVE RingsInv /\ \A h \in Headers : ItemsOf(links, h) = << >>
  OBVIOUS
<1>1. LinksInv
  BY InitLinksInv
<1>2. \A n \in Nodes : Isolated(links, n)
  BY DEF Init, EmptyLinks, Isolated
<1>3. ASSUME NEW h \in Headers
      PROVE  ItemsOf(links, h) = << >> /\ RingOf(links, h) = {h}
  <2>1. h \in Nodes /\ links \in Links /\ Coherent(links)
    BY <1>1, NodesAssumption DEF LinksInv, RingsCoherent
  <2>2. Spells(links, h, << >>)
    BY <1>2, <2>1 DEF Spells, Isolated
  <2>3. ItemsOf(links, h) = << >>
    BY <2>1, <2>2, SpellsUnique
  <2> QED  BY <2>1, <2>3, ItemsSpell
<1>4. HeadersApart
  BY <1>3 DEF HeadersApart
<1>5. QueuedSomewhere
  BY <1>2, NodesAssumption DEF QueuedSomewhere
<1> QED  BY <1>1, <1>3, <1>4, <1>5 DEF RingsInv

(* Put adds the item to the ring its parameter is in and to no other. *)
LEMMA PutRings ==
  ASSUME RingsInv, NEW t \in Items, NEW q \in Nodes, Put(t, q)
  PROVE  /\ t \in Nodes /\ Isolated(links, t) /\ t # q /\ links' = Enqueue(links, t, q)
         /\ \A h \in Headers : t \notin RingOf(links, h)
         /\ \E h \in Headers :
              /\ q \in RingOf(links, h)
              /\ RingOf(links', h) = RingOf(links, h) \cup {t}
              /\ \A g \in Headers \ {h} : /\ ItemsOf(links', g) = ItemsOf(links, g)
                                          /\ RingOf(links', g) = RingOf(links, g)
<1>1. /\ t \in Nodes /\ Isolated(links, t) /\ t # q /\ links' = Enqueue(links, t, q)
      /\ InSomeQueue(q)
  BY NodesAssumption DEF Put
<1>2. links \in Links /\ Coherent(links)
  BY DEF RingsInv, LinksInv, RingsCoherent
<1>3. \A h \in Headers : h \in Nodes /\ t # h
  BY NodesAssumption
<1>4. \A h \in Headers : t \notin RingOf(links, h)
  BY <1>1, <1>2, <1>3, IsolatedNotInRing
<1>5. PICK h \in Headers : q \in RingOf(links, h)
  <2>1. CASE q \in Headers
    BY <1>2, <1>3, <2>1, RingMembers
  <2>2. CASE q \notin Headers
    BY <1>1, <2>2, NodesAssumption DEF InSomeQueue, RingsInv, QueuedSomewhere
  <2> QED  BY <2>1, <2>2
<1>6. RingOf(links', h) = RingOf(links, h) \cup {t}
  BY <1>1, <1>2, <1>3, <1>5, EnqueueRing
<1>7. ASSUME NEW g \in Headers \ {h}
      PROVE  ItemsOf(links', g) = ItemsOf(links, g) /\ RingOf(links', g) = RingOf(links, g)
  <2>1. q \notin RingOf(links, g)
    BY <1>5 DEF RingsInv, HeadersApart
  <2>2. ItemsOf(links', g) = ItemsOf(links, g)
    BY <1>1, <1>2, <1>3, <2>1, EnqueueElsewhere
  <2>3. links' \in Links /\ Coherent(links')
    BY <1>1, <1>2, EnqueueType, EnqueueCoherent
  <2>4. /\ RingOf(links, g) = {g} \cup {ItemsOf(links, g)[i] : i \in 1 .. Len(ItemsOf(links, g))}
        /\ RingOf(links', g) = {g} \cup {ItemsOf(links', g)[i] : i \in 1 .. Len(ItemsOf(links', g))}
    BY <1>2, <1>3, <2>3, ItemsSpell
  <2> QED  BY <2>2, <2>4
<1> QED  BY <1>1, <1>4, <1>5, <1>6, <1>7

(* Take takes the item out of the one ring it is in. *)
LEMMA TakeRings ==
  ASSUME RingsInv, NEW t \in Items, Take(t)
  PROVE  /\ t \in Nodes /\ links' = Dequeue(links, t)
         /\ \E h \in Headers :
              /\ t \in RingOf(links, h) /\ t # h
              /\ RingOf(links', h) = RingOf(links, h) \ {t}
              /\ \A g \in Headers \ {h} : /\ t \notin RingOf(links, g)
                                          /\ ItemsOf(links', g) = ItemsOf(links, g)
                                          /\ RingOf(links', g) = RingOf(links, g)
<1>1. t \in Nodes /\ ~ Isolated(links, t) /\ links' = Dequeue(links, t)
  BY NodesAssumption DEF Take
<1>2. links \in Links /\ Coherent(links)
  BY DEF RingsInv, LinksInv, RingsCoherent
<1>3. \A h \in Headers : h \in Nodes /\ t # h
  BY NodesAssumption
<1>4. PICK h \in Headers : t \in RingOf(links, h)
  BY <1>1 DEF RingsInv, QueuedSomewhere
<1>5. RingOf(links', h) = RingOf(links, h) \ {t}
  BY <1>1, <1>2, <1>3, <1>4, DequeueRing
<1>6. ASSUME NEW g \in Headers \ {h}
      PROVE  /\ t \notin RingOf(links, g)
             /\ ItemsOf(links', g) = ItemsOf(links, g) /\ RingOf(links', g) = RingOf(links, g)
  <2>1. t \notin RingOf(links, g)
    BY <1>4 DEF RingsInv, HeadersApart
  <2>2. ItemsOf(links', g) = ItemsOf(links, g)
    BY <1>1, <1>2, <1>3, <2>1, DequeueElsewhere
  <2>3. links' \in Links /\ Coherent(links')
    BY <1>1, <1>2, DequeueType, DequeueCoherent
  <2>4. /\ RingOf(links, g) = {g} \cup {ItemsOf(links, g)[i] : i \in 1 .. Len(ItemsOf(links, g))}
        /\ RingOf(links', g) = {g} \cup {ItemsOf(links', g)[i] : i \in 1 .. Len(ItemsOf(links', g))}
    BY <1>2, <1>3, <2>3, ItemsSpell
  <2> QED  BY <2>1, <2>2, <2>4
<1> QED  BY <1>1, <1>3, <1>4, <1>5, <1>6

(* Every step keeps the rings apart and every linked item in one of them. *)
LEMMA NextRings == RingsInv /\ [Next]_vars => RingsInv'
<1> SUFFICES ASSUME RingsInv, [Next]_vars PROVE RingsInv'
  OBVIOUS
<1>0. LinksInv'
  BY NextLinksInv DEF RingsInv
<1>1. links \in Links /\ Coherent(links)
  BY DEF RingsInv, LinksInv, RingsCoherent
<1>2. ASSUME NEW t \in Items, NEW q \in Nodes, Put(t, q) PROVE RingsInv'
  <2>1. /\ t \in Nodes /\ Isolated(links, t) /\ t # q /\ links' = Enqueue(links, t, q)
        /\ \A h \in Headers : t \notin RingOf(links, h)
    BY <1>2, PutRings
  <2>2. PICK h \in Headers :
              /\ q \in RingOf(links, h)
              /\ RingOf(links', h) = RingOf(links, h) \cup {t}
              /\ \A g \in Headers \ {h} : RingOf(links', g) = RingOf(links, g)
    BY <1>2, PutRings
  <2>3. HeadersApart'
    BY <2>1, <2>2 DEF RingsInv, HeadersApart
  <2>4. ASSUME NEW n \in Items, ~ Isolated(links', n)
        PROVE  \E g \in Headers : n \in RingOf(links', g)
    <3>1. CASE n = t
      BY <2>2, <3>1
    <3>2. CASE n # t /\ n \in RingOf(links, h)
      BY <2>2, <3>2
    <3>3. CASE n # t /\ n \notin RingOf(links, h)
      <4>1. n \in Nodes /\ n # q
        BY <2>2, <3>3, NodesAssumption
      <4>2. ASSUME Isolated(links, n) PROVE FALSE
        <5>1. links.pred[q] # n
          BY <1>1, <4>1, <4>2 DEF Coherent, Isolated
        <5>2. links'.succ[n] = links.succ[n] /\ links'.pred[n] = links.pred[n]
          BY <1>1, <2>1, <3>3, <4>1, <5>1, EnqueueFields
        <5> QED  BY <2>4, <4>2, <5>2 DEF Isolated
      <4> QED  BY <2>2, <4>2 DEF RingsInv, QueuedSomewhere
    <3> QED  BY <3>1, <3>2, <3>3
  <2> QED  BY <1>0, <2>3, <2>4 DEF RingsInv, QueuedSomewhere
<1>3. ASSUME NEW t \in Items, Take(t) PROVE RingsInv'
  <2>1. t \in Nodes /\ links' = Dequeue(links, t)
    BY <1>3, TakeRings
  <2>2. PICK h \in Headers :
              /\ t \in RingOf(links, h)
              /\ RingOf(links', h) = RingOf(links, h) \ {t}
              /\ \A g \in Headers \ {h} : RingOf(links', g) = RingOf(links, g)
    BY <1>3, TakeRings
  <2>3. HeadersApart'
    BY <2>2 DEF RingsInv, HeadersApart
  <2>4. ASSUME NEW n \in Items, ~ Isolated(links', n)
        PROVE  \E g \in Headers : n \in RingOf(links', g)
    <3>1. n \in Nodes
      BY NodesAssumption
    <3>2. n # t
      BY <1>1, <2>1, <2>4, DequeueCoherent
    <3>3. ASSUME Isolated(links, n) PROVE FALSE
      <4>1. n # links.pred[t] /\ n # links.succ[t]
        BY <1>1, <2>1, <3>1, <3>2, <3>3 DEF Coherent, Isolated, Links
      <4>2. links'.succ[n] = links.succ[n] /\ links'.pred[n] = links.pred[n]
        BY <1>1, <2>1, <3>1, <3>2, <4>1, DequeueFields
      <4> QED  BY <2>4, <3>3, <4>2 DEF Isolated
    <3>4. PICK g \in Headers : n \in RingOf(links, g)
      BY <3>3 DEF RingsInv, QueuedSomewhere
    <3> QED  BY <2>2, <3>2, <3>4
  <2> QED  BY <1>0, <2>3, <2>4 DEF RingsInv, QueuedSomewhere
<1>4. ASSUME UNCHANGED links PROVE RingsInv'
  BY <1>0, <1>4 DEF RingsInv, HeadersApart, QueuedSomewhere
<1> QED  BY <1>2, <1>3, <1>4 DEF Next, StartMap, StepMap, EndMap, StopMap, vars

(* The invariant of the rings holds in every state. *)
LEMMA RingsInvariant == Spec => []RingsInv
<1>1. Init => RingsInv
  BY InitRings
<1> QED  BY <1>1, NextRings, PTL DEF Spec

(* size-queue and ?member-queue of lib/queues.f83 agree with the rings,    *)
(* however long and however often changed.                                 *)
THEOREM SizesAndMembersAgree == Spec => []SizeAndMembersAgree
<1>1. RingsInv => SizeAndMembersAgree
  BY RingSize, NodesAssumption DEF RingsInv, LinksInv, RingsCoherent, SizeAndMembersAgree
<1> QED  BY <1>1, RingsInvariant, PTL
----------------------------------------------------------------------------
(***************************************************************************)
(* The pointer operations implement operations on sequences.               *)
(***************************************************************************)
(* An item that is linked in no queue is in none of the sequences. *)
LEMMA IsolatedIsFree ==
  ASSUME RingsInv, NEW t, \A h \in Headers : t \notin RingOf(links, h)
  PROVE  Abstract!IsFree(t)
<1>1. \A h \in Headers : h \in Nodes /\ links \in Links /\ Coherent(links)
  BY NodesAssumption DEF RingsInv, LinksInv, RingsCoherent
<1>2. \A h \in Headers : \A i \in 1 .. Len(ItemsOf(links, h)) : ItemsOf(links, h)[i] # t
  BY <1>1, RingMembers
<1>3. \A h \in Headers : DOMAIN ItemsOf(links, h) = 1 .. Len(ItemsOf(links, h))
  BY <1>1, RingMembers
<1> QED  BY <1>2, <1>3 DEF Abstract!IsFree, Abstract!Member

(* enqueue is the operation of the sequences its parameter asks for: last  *)
(* into a queue, or right before an item.                                  *)
LEMMA PutIsAbstract ==
  ASSUME RingsInv, NEW t \in Items, NEW q \in Nodes, Put(t, q)
  PROVE  IF q \in Headers THEN Abstract!PutLast(t, q) ELSE Abstract!PutBefore(t, q)
<1> DEFINE queue == [h \in Headers |-> ItemsOf(links, h)]
<1>1. /\ t \in Nodes /\ Isolated(links, t) /\ t # q /\ links' = Enqueue(links, t, q)
      /\ \A h \in Headers : t \notin RingOf(links, h)
  BY PutRings
<1>2. PICK h \in Headers :
            /\ q \in RingOf(links, h)
            /\ \A g \in Headers \ {h} : ItemsOf(links', g) = ItemsOf(links, g)
  BY PutRings
<1>3. links \in Links /\ Coherent(links) /\ h \in Nodes /\ t # h
  BY NodesAssumption DEF RingsInv, LinksInv, RingsCoherent
<1>4. Abstract!IsFree(t)
  BY <1>1, IsolatedIsFree
<1>5. CASE q \in Headers
  <2>1. q = h
    <3>1. q \in RingOf(links, q)
      BY <1>3, RingMembers
    <3> QED  BY <1>2, <1>5, <3>1 DEF RingsInv, HeadersApart
  <2>2. ItemsOf(links', h) = Append(ItemsOf(links, h), t)
    BY <1>1, <1>3, <2>1, EnqueueIsAppend
  <2>3. queue' = [queue EXCEPT ![h] = Append(ItemsOf(links, h), t)]
    BY <1>2, <2>2
  <2>4. Abstract!PutLast(t, q)
    BY <1>4, <2>1, <2>3 DEF Abstract!PutLast
  <2> QED  BY <1>5, <2>4
<1>6. CASE q \notin Headers
  <2>1. PICK i \in 1 .. Len(ItemsOf(links, h)) : ItemsOf(links, h)[i] = q
    BY <1>2, <1>3, <1>6, RingMembers
  <2>2. ItemsOf(links', h) = InsertAt(ItemsOf(links, h), i, t)
    BY <1>1, <1>3, <2>1, EnqueueIsInsertion
  <2>3. InsertAt(ItemsOf(links, h), i, t) = Abstract!InsertAt(ItemsOf(links, h), i, t)
    BY DEF InsertAt, Abstract!InsertAt
  <2>4. queue' = [queue EXCEPT ![h] = Abstract!InsertAt(ItemsOf(links, h), i, t)]
    BY <1>2, <2>2, <2>3
  <2>5. DOMAIN ItemsOf(links, h) = 1 .. Len(ItemsOf(links, h))
    BY <1>3, RingMembers
  <2>6. Abstract!PutBefore(t, q)
    BY <1>4, <2>1, <2>4, <2>5 DEF Abstract!PutBefore
  <2> QED  BY <1>6, <2>6
<1> QED  BY <1>5, <1>6

(* dequeue takes the item out of its sequence. *)
LEMMA TakeIsAbstract ==
  ASSUME RingsInv, NEW t \in Items, Take(t) PROVE Abstract!TakeOut(t)
<1> DEFINE queue == [h \in Headers |-> ItemsOf(links, h)]
<1>1. t \in Nodes /\ links' = Dequeue(links, t)
  BY TakeRings
<1>2. PICK h \in Headers :
            /\ t \in RingOf(links, h) /\ t # h
            /\ \A g \in Headers \ {h} : ItemsOf(links', g) = ItemsOf(links, g)
  BY TakeRings
<1>3. links \in Links /\ Coherent(links) /\ h \in Nodes
  BY NodesAssumption DEF RingsInv, LinksInv, RingsCoherent
<1>4. PICK i \in 1 .. Len(ItemsOf(links, h)) : ItemsOf(links, h)[i] = t
  BY <1>2, <1>3, RingMembers
<1>5. ItemsOf(links', h) = RemoveAt(ItemsOf(links, h), i)
  BY <1>1, <1>3, <1>4, DequeueIsRemoval
<1>6. RemoveAt(ItemsOf(links, h), i) = Abstract!RemoveAt(ItemsOf(links, h), i)
  BY DEF RemoveAt, Abstract!RemoveAt
<1>7. queue' = [queue EXCEPT ![h] = Abstract!RemoveAt(ItemsOf(links, h), i)]
  BY <1>2, <1>5, <1>6
<1>8. DOMAIN ItemsOf(links, h) = 1 .. Len(ItemsOf(links, h))
  BY <1>3, RingMembers
<1> QED  BY <1>4, <1>7, <1>8 DEF Abstract!TakeOut

(* The rings of src/queues.v implement the sequences of the manual: every  *)
(* step of a client is an operation on the sequences, or changes none.     *)
THEOREM RingsImplementSequences == Spec => ImplementsQueueSpec
<1> DEFINE queue == [h \in Headers |-> ItemsOf(links, h)]
<1>1. Init => Abstract!Init
  BY InitRings DEF Abstract!Init
<1>2. RingsInv /\ [Next]_vars => [Abstract!Next]_queue
  <2> SUFFICES ASSUME RingsInv, [Next]_vars PROVE [Abstract!Next]_queue
    OBVIOUS
  <2>1. ASSUME NEW t \in Items, NEW q \in Nodes, Put(t, q) PROVE Abstract!Next
    <3>1. q \in Headers \/ q \in Items
      BY NodesAssumption
    <3> QED  BY <2>1, <3>1, PutIsAbstract DEF Abstract!Next
  <2>2. ASSUME NEW t \in Items, Take(t) PROVE Abstract!Next
    BY <2>2, TakeIsAbstract DEF Abstract!Next
  <2>3. ASSUME UNCHANGED links PROVE UNCHANGED queue
    BY <2>3
  <2> QED  BY <2>1, <2>2, <2>3 DEF Next, StartMap, StepMap, EndMap, StopMap, vars
<1> QED  BY <1>1, <1>2, RingsInvariant, PTL DEF Spec, ImplementsQueueSpec, Abstract!Spec

(* enqueue puts its item last into the queue of a header (src/queues.v),   *)
(* right before an item that is in a queue.                                *)
THEOREM ItemsPutWhereAsked == Spec => PutsWhereAsked
<1>1. RingsInv /\ [Next]_vars
        => [\A t \in Items, q \in Nodes :
              Put(t, q) => IF q \in Headers THEN Abstract!PutLast(t, q)
                                            ELSE Abstract!PutBefore(t, q)]_vars
  BY PutIsAbstract
<1> QED  BY <1>1, RingsInvariant, PTL DEF Spec, PutsWhereAsked
----------------------------------------------------------------------------
(***************************************************************************)
(* A traversal divides its queue: the members before the saved successor   *)
(* have been handed to the block, those from it on have not.               *)
(***************************************************************************)
Walking == [active : {TRUE}, header : Headers, item : Nodes, next : Nodes,
            calls : [Nodes -> Nat], stayed : SUBSET Nodes, torn : BOOLEAN, edits : Nat]

WalkType == walk = NoWalk \/ walk \in Walking

\* The saved successor is the i-th item, or the header after the last one; of
\* the members that stayed all before it were called once, and none behind it.
Divided(L, w, i) ==
  LET s == ItemsOf(L, w.header)
  IN  /\ i \in 1 .. Len(s) + 1
      /\ w.next = IF i = Len(s) + 1 THEN w.header ELSE s[i]
      /\ w.header \in w.stayed => w.calls[w.header] = 1
      /\ \A n \in w.stayed \ {w.header} : n \in RingOf(L, w.header)
      /\ \A j \in 1 .. Len(s) : s[j] \in w.stayed => w.calls[s[j]] = IF j < i THEN 1 ELSE 0

WalkDivides == walk.active /\ ~ walk.torn => \E i \in Nat : Divided(links, walk, i)

WalkInv == RingsInv /\ WalkType /\ WalkDivides

(* A change of the queues in the middle of a traversal touches nothing the *)
(* block needs to go on, but forgets members taken out.                    *)
LEMMA PutDivides ==
  ASSUME WalkInv, NEW t \in Items, NEW q \in Nodes, Put(t, q) PROVE WalkDivides'
<1> SUFFICES ASSUME walk'.active, ~ walk'.torn PROVE \E i \in Nat : Divided(links', walk', i)
  BY DEF WalkDivides
<1> DEFINE h == walk.header
           s == ItemsOf(links, h)
           r == ItemsOf(links', h)
<1>1. walk \in Walking /\ walk.active
  <2>1. walk # NoWalk
    BY DEF Put, NoWalk
  <2>2. walk \in Walking
    BY <2>1 DEF WalkInv, WalkType
  <2> QED  BY <2>2 DEF Walking
<1>2. walk' = [walk EXCEPT !.edits = @ + 1]
  BY <1>1 DEF Put
<1>3. /\ walk'.header = h /\ walk'.next = walk.next /\ walk'.calls = walk.calls
      /\ walk'.stayed = walk.stayed /\ walk.active /\ ~ walk.torn /\ h \in Headers
  BY <1>1, <1>2 DEF Walking
<1>4. PICK i \in Nat : Divided(links, walk, i)
  BY <1>3 DEF WalkInv, WalkDivides
<1>5. /\ t \in Nodes /\ Isolated(links, t) /\ t # q /\ links' = Enqueue(links, t, q)
      /\ \A g \in Headers : t \notin RingOf(links, g)
  BY PutRings DEF WalkInv
<1>6. links \in Links /\ Coherent(links) /\ h \in Nodes /\ t # h
  BY <1>3, NodesAssumption DEF WalkInv, RingsInv, LinksInv, RingsCoherent
<1>7. links' \in Links /\ Coherent(links')
  BY <1>5, <1>6, EnqueueType, EnqueueCoherent
<1>8. s \in Seq(Nodes) /\ Len(s) \in Nat
  BY <1>6, RingMembers
<1>9. /\ i \in 1 .. Len(s) + 1
      /\ walk.next = IF i = Len(s) + 1 THEN h ELSE s[i]
      /\ h \in walk.stayed => walk.calls[h] = 1
      /\ \A n \in walk.stayed \ {h} : n \in RingOf(links, h)
      /\ \A j \in 1 .. Len(s) : s[j] \in walk.stayed => walk.calls[s[j]] = IF j < i THEN 1 ELSE 0
  BY <1>4 DEF Divided
<1>10. t \notin walk.stayed
  BY <1>3, <1>5, <1>6, <1>9
<1>11. PICK g \in Headers :
             /\ q \in RingOf(links, g)
             /\ RingOf(links', g) = RingOf(links, g) \cup {t}
             /\ \A f \in Headers \ {g} : /\ ItemsOf(links', f) = ItemsOf(links, f)
                                         /\ RingOf(links', f) = RingOf(links, f)
  BY PutRings DEF WalkInv
<1>12. \A n \in walk.stayed \ {h} : n \in RingOf(links', h)
  BY <1>3, <1>9, <1>11
<1>13. ASSUME NEW k \in 1 .. Len(r) + 1,
              walk.next = IF k = Len(r) + 1 THEN h ELSE r[k],
              \A j \in 1 .. Len(r) : r[j] \in walk.stayed => walk.calls[r[j]] = IF j < k THEN 1 ELSE 0
       PROVE  \E m \in Nat : Divided(links', walk', m)
  <2>1. Len(r) \in Nat /\ k \in Nat
    BY <1>6, <1>7, RingMembers
  <2> HIDE DEF r, s, h
  <2>2. Divided(links', walk', k)
    BY <1>3, <1>9, <1>12, <1>13 DEF Divided, r
  <2> QED  BY <2>1, <2>2
<1> HIDE DEF r, s, h
<1>14. CASE g # h
  <2>1. r = s
    BY <1>3, <1>11, <1>14 DEF r, s
  <2> QED  BY <1>9, <1>13, <2>1
<1>15. CASE g = h /\ q = h
  <2>1. r = Append(s, t)
    BY <1>5, <1>6, <1>15, EnqueueIsAppend DEF r, s
  <2>2. Len(r) = Len(s) + 1 /\ r[Len(s) + 1] = t /\ \A j \in 1 .. Len(s) : r[j] = s[j]
    BY <1>5, <1>8, <2>1
  <2>3. CASE i = Len(s) + 1
    <3>1. Len(r) + 1 \in 1 .. Len(r) + 1
      BY <1>8, <2>2
    <3>2. ASSUME NEW j \in 1 .. Len(r), r[j] \in walk.stayed
          PROVE  walk.calls[r[j]] = IF j < Len(r) + 1 THEN 1 ELSE 0
      <4>1. j \in 1 .. Len(s) /\ j < i /\ j < Len(r) + 1
        BY <1>8, <1>10, <2>2, <2>3, <3>2
      <4> QED  BY <1>9, <2>2, <3>2, <4>1
    <3> QED  BY <1>9, <1>13, <2>3, <3>1, <3>2
  <2>4. CASE i # Len(s) + 1
    <3>1. i \in 1 .. Len(s) /\ i \in 1 .. Len(r) + 1 /\ i # Len(r) + 1 /\ r[i] = s[i]
      BY <1>8, <1>9, <2>2, <2>4
    <3>2. ASSUME NEW j \in 1 .. Len(r), r[j] \in walk.stayed
          PROVE  walk.calls[r[j]] = IF j < i THEN 1 ELSE 0
      <4>1. j \in 1 .. Len(s)
        BY <1>8, <1>10, <2>2, <3>2
      <4> QED  BY <1>9, <2>2, <3>2, <4>1
    <3> QED  BY <1>9, <1>13, <2>4, <3>1, <3>2
  <2> QED  BY <2>3, <2>4
<1>16. CASE g = h /\ q # h
  <2>0. q \in RingOf(links, h) \ {h}
    BY <1>11, <1>16
  <2>1. PICK k \in 1 .. Len(s) : s[k] = q
    BY <1>6, <2>0, RingMembers DEF s
  <2>2. r = InsertAt(s, k, t)
    BY <1>5, <1>6, <2>1, EnqueueIsInsertion DEF r, s
  <2>3. /\ Len(r) = Len(s) + 1
        /\ \A j \in 1 .. Len(s) + 1 : r[j] = IF j < k THEN s[j] ELSE IF j = k THEN t ELSE s[j - 1]
    <3>0. k \in 1 .. Len(s) + 1
      BY <1>8
    <3>1. /\ InsertAt(s, k, t) \in Seq(Nodes)
          /\ Len(InsertAt(s, k, t)) = Len(s) + 1
          /\ \A j \in 1 .. Len(s) + 1 :
               InsertAt(s, k, t)[j] = IF j < k THEN s[j] ELSE IF j = k THEN t ELSE s[j - 1]
      BY <1>5, <1>8, <3>0, InsertAtFields
    <3> QED  BY <2>2, <3>1
  <2>4. CASE k <= i
    <3>1. i + 1 \in 1 .. Len(r) + 1 /\ (i + 1 = Len(r) + 1 <=> i = Len(s) + 1)
      BY <1>8, <1>9, <2>3
    <3>2. i # Len(s) + 1 => r[i + 1] = s[i]
      BY <1>8, <1>9, <2>3, <2>4
    <3>3. ASSUME NEW j \in 1 .. Len(r), r[j] \in walk.stayed
          PROVE  walk.calls[r[j]] = IF j < i + 1 THEN 1 ELSE 0
      <4>1. CASE j < k
        <5>1. j \in 1 .. Len(s) /\ r[j] = s[j] /\ j < i /\ j < i + 1
          BY <1>8, <1>9, <2>3, <2>4, <4>1
        <5> QED  BY <1>9, <3>3, <5>1
      <4>2. CASE j = k
        BY <1>10, <2>3, <3>3, <4>2
      <4>3. CASE j > k
        <5>1. j - 1 \in 1 .. Len(s) /\ r[j] = s[j - 1] /\ (j - 1 < i <=> j < i + 1)
          BY <1>8, <1>9, <2>3, <4>3
        <5> QED  BY <1>9, <3>3, <5>1
      <4> QED  BY <1>8, <2>3, <4>1, <4>2, <4>3
    <3> QED  BY <1>9, <1>13, <3>1, <3>2, <3>3
  <2>5. CASE k > i
    <3>1. i \in 1 .. Len(r) + 1 /\ i # Len(r) + 1 /\ i # Len(s) + 1 /\ r[i] = s[i]
      BY <1>8, <1>9, <2>3, <2>5
    <3>2. ASSUME NEW j \in 1 .. Len(r), r[j] \in walk.stayed
          PROVE  walk.calls[r[j]] = IF j < i THEN 1 ELSE 0
      <4>1. CASE j < k
        <5>1. j \in 1 .. Len(s) /\ r[j] = s[j]
          BY <1>8, <2>3, <4>1
        <5> QED  BY <1>9, <3>2, <5>1
      <4>2. CASE j = k
        BY <1>10, <2>3, <3>2, <4>2
      <4>3. CASE j > k
        <5>1. j - 1 \in 1 .. Len(s) /\ r[j] = s[j - 1] /\ ~ (j - 1 < i) /\ ~ (j < i)
          BY <1>8, <1>9, <2>3, <2>5, <4>3
        <5> QED  BY <1>9, <3>2, <5>1
      <4> QED  BY <1>8, <2>3, <4>1, <4>2, <4>3
    <3> QED  BY <1>9, <1>13, <3>1, <3>2
  <2> QED  BY <1>8, <1>9, <2>4, <2>5
<1> QED  BY <1>14, <1>15, <1>16

(* Taking out an item other than the saved one leaves what comes before    *)
(* and what comes after it as it was.                                      *)
LEMMA TakeDivides ==
  ASSUME WalkInv, NEW t \in Items, Take(t) PROVE WalkDivides'
<1> SUFFICES ASSUME walk'.active, ~ walk'.torn PROVE \E i \in Nat : Divided(links', walk', i)
  BY DEF WalkDivides
<1> DEFINE h == walk.header
           s == ItemsOf(links, h)
           r == ItemsOf(links', h)
<1>1. walk \in Walking /\ walk.active
  <2>1. walk # NoWalk
    BY DEF Take, NoWalk
  <2>2. walk \in Walking
    BY <2>1 DEF WalkInv, WalkType
  <2> QED  BY <2>2 DEF Walking
<1>2. walk' = [walk EXCEPT !.edits = @ + 1, !.stayed = @ \ {t}, !.torn = @ \/ t = walk.next]
  BY <1>1 DEF Take
<1>3. /\ walk'.header = h /\ walk'.next = walk.next /\ walk'.calls = walk.calls
      /\ walk'.stayed = walk.stayed \ {t} /\ walk.active /\ ~ walk.torn /\ t # walk.next
      /\ h \in Headers
  BY <1>1, <1>2 DEF Walking
<1>4. PICK i \in Nat : Divided(links, walk, i)
  BY <1>3 DEF WalkInv, WalkDivides
<1>5. t \in Nodes /\ links' = Dequeue(links, t)
  BY TakeRings DEF WalkInv
<1>6. links \in Links /\ Coherent(links) /\ h \in Nodes /\ t # h
  BY <1>3, NodesAssumption DEF WalkInv, RingsInv, LinksInv, RingsCoherent
<1>7. links' \in Links /\ Coherent(links')
  BY <1>5, <1>6, DequeueType, DequeueCoherent
<1>8. s \in Seq(Nodes) /\ Len(s) \in Nat
  BY <1>6, RingMembers
<1>9. /\ i \in 1 .. Len(s) + 1
      /\ walk.next = IF i = Len(s) + 1 THEN h ELSE s[i]
      /\ h \in walk.stayed => walk.calls[h] = 1
      /\ \A n \in walk.stayed \ {h} : n \in RingOf(links, h)
      /\ \A j \in 1 .. Len(s) : s[j] \in walk.stayed => walk.calls[s[j]] = IF j < i THEN 1 ELSE 0
  BY <1>4 DEF Divided
<1>11. PICK g \in Headers :
             /\ t \in RingOf(links, g) /\ t # g
             /\ RingOf(links', g) = RingOf(links, g) \ {t}
             /\ \A f \in Headers \ {g} : /\ ItemsOf(links', f) = ItemsOf(links, f)
                                         /\ RingOf(links', f) = RingOf(links, f)
  BY TakeRings DEF WalkInv
<1>12. \A n \in (walk.stayed \ {t}) \ {h} : n \in RingOf(links', h)
  BY <1>3, <1>9, <1>11
<1>13. ASSUME NEW k \in 1 .. Len(r) + 1,
              walk.next = IF k = Len(r) + 1 THEN h ELSE r[k],
              \A j \in 1 .. Len(r) : r[j] \in walk.stayed => walk.calls[r[j]] = IF j < k THEN 1 ELSE 0
       PROVE  \E m \in Nat : Divided(links', walk', m)
  <2>1. Len(r) \in Nat /\ k \in Nat
    BY <1>6, <1>7, RingMembers
  <2> HIDE DEF r, s, h
  <2>2. Divided(links', walk', k)
    BY <1>3, <1>9, <1>12, <1>13 DEF Divided, r
  <2> QED  BY <2>1, <2>2
<1> HIDE DEF r, s, h
<1>14. CASE g # h
  <2>1. r = s
    BY <1>3, <1>11, <1>14 DEF r, s
  <2> QED  BY <1>9, <1>13, <2>1
<1>15. CASE g = h
  <2>0. t \in RingOf(links, h) \ {h}
    BY <1>11, <1>15
  <2>1. PICK k \in 1 .. Len(s) : s[k] = t
    BY <1>6, <2>0, RingMembers DEF s
  <2>2. r = RemoveAt(s, k)
    BY <1>5, <1>6, <2>1, DequeueIsRemoval DEF r, s
  <2>3. /\ Len(r) = Len(s) - 1
        /\ \A j \in 1 .. Len(s) - 1 : r[j] = IF j < k THEN s[j] ELSE s[j + 1]
    BY <1>8, <2>2, RemoveAtFields
  <2>4. k # i
    BY <1>3, <1>8, <1>9, <2>1
  <2>5. CASE k < i
    <3>1. i - 1 \in 1 .. Len(r) + 1 /\ (i - 1 = Len(r) + 1 <=> i = Len(s) + 1)
      BY <1>8, <1>9, <2>3, <2>5
    <3>2. ASSUME i # Len(s) + 1 PROVE r[i - 1] = s[i]
      <4>1. i - 1 \in 1 .. Len(s) - 1 /\ ~ (i - 1 < k) /\ (i - 1) + 1 = i
        BY <1>8, <1>9, <2>5, <3>2
      <4>2. r[i - 1] = s[(i - 1) + 1]
        BY <2>3, <4>1
      <4> QED  BY <4>1, <4>2
    <3>3. ASSUME NEW j \in 1 .. Len(r), r[j] \in walk.stayed
          PROVE  walk.calls[r[j]] = IF j < i - 1 THEN 1 ELSE 0
      <4>1. CASE j < k
        <5>1. j \in 1 .. Len(s) /\ r[j] = s[j] /\ j < i /\ j < i - 1
          BY <1>8, <1>9, <2>3, <2>5, <4>1
        <5> QED  BY <1>9, <3>3, <5>1
      <4>2. CASE j >= k
        <5>1. j + 1 \in 1 .. Len(s) /\ r[j] = s[j + 1] /\ (j + 1 < i <=> j < i - 1)
          BY <1>8, <1>9, <2>3, <4>2
        <5> QED  BY <1>9, <3>3, <5>1
      <4> QED  BY <1>8, <2>3, <4>1, <4>2
    <3> QED  BY <1>9, <1>13, <3>1, <3>2, <3>3
  <2>6. CASE k > i
    <3>1. i \in 1 .. Len(r) + 1 /\ i # Len(r) + 1 /\ i # Len(s) + 1 /\ r[i] = s[i]
      BY <1>8, <1>9, <2>3, <2>6
    <3>2. ASSUME NEW j \in 1 .. Len(r), r[j] \in walk.stayed
          PROVE  walk.calls[r[j]] = IF j < i THEN 1 ELSE 0
      <4>1. CASE j < k
        <5>1. j \in 1 .. Len(s) /\ r[j] = s[j]
          BY <1>8, <2>3, <4>1
        <5> QED  BY <1>9, <3>2, <5>1
      <4>2. CASE j >= k
        <5>1. j + 1 \in 1 .. Len(s) /\ r[j] = s[j + 1] /\ ~ (j + 1 < i) /\ ~ (j < i)
          BY <1>8, <1>9, <2>3, <2>6, <4>2
        <5> QED  BY <1>9, <3>2, <5>1
      <4> QED  BY <1>8, <2>3, <4>1, <4>2
    <3> QED  BY <1>9, <1>13, <3>1, <3>2
  <2> QED  BY <1>8, <1>9, <2>4, <2>5, <2>6
<1> QED  BY <1>14, <1>15

(* Beginning a traversal, and its next step, divide the queue as they say. *)
LEMMA StartDivides ==
  ASSUME WalkInv, NEW h \in Headers, StartMap(h) PROVE WalkType' /\ WalkDivides'
<1> DEFINE s == ItemsOf(links, h)
           calls == CountCall([n \in Nodes |-> 0], h)
<1>1. links \in Links /\ Coherent(links) /\ h \in Nodes /\ links' = links
  BY NodesAssumption DEF WalkInv, RingsInv, LinksInv, RingsCoherent, StartMap
<1>2. /\ Spells(links, h, s) /\ RingOf(links, h) \subseteq Nodes
      /\ s \in Seq(Nodes)
      /\ \A j \in 1 .. Len(s) : s[j] \in RingOf(links, h) \ {h}
  BY <1>1, ItemsSpell, RingMembers
<1>3. /\ calls \in [Nodes -> Nat] /\ calls[h] = 1
      /\ \A n \in Nodes : n # h => calls[n] = 0
  BY <1>1 DEF CountCall
<1>4. links.succ[h] \in Nodes
  BY <1>1 DEF Links
<1> HIDE DEF calls
<1>5. walk' = [active |-> TRUE, header |-> h, item |-> h, next |-> links.succ[h],
               calls |-> calls, stayed |-> RingOf(links, h), torn |-> FALSE, edits |-> 0]
  BY DEF StartMap, calls
<1>6. walk' \in Walking
  BY <1>1, <1>2, <1>3, <1>4, <1>5 DEF Walking
<1> HIDE DEF s
<1>7. Len(s) \in Nat /\ 1 \in 1 .. Len(s) + 1 /\ (s = << >> <=> 1 = Len(s) + 1)
  BY <1>2
<1>8. links.succ[h] = IF 1 = Len(s) + 1 THEN h ELSE s[1]
  BY <1>2, <1>7 DEF Spells
<1>9. ASSUME NEW j \in 1 .. Len(s) PROVE calls[s[j]] = IF j < 1 THEN 1 ELSE 0
  <2>1. ~ (j < 1) /\ s[j] \in Nodes /\ s[j] # h
    BY <1>2, <1>7
  <2> QED  BY <1>3, <2>1
<1>10. Divided(links', walk', 1)
  BY <1>1, <1>3, <1>5, <1>7, <1>8, <1>9 DEF Divided, s
<1> QED  BY <1>6, <1>10 DEF WalkType, WalkDivides

LEMMA StepDivides ==
  ASSUME WalkInv, StepMap PROVE WalkType' /\ WalkDivides'
<1> DEFINE h == walk.header
           s == ItemsOf(links, h)
           n == walk.next
           calls == CountCall(walk.calls, n)
<1>1. walk \in Walking
  BY DEF WalkInv, WalkType, StepMap, NoWalk
<1>2. /\ h \in Headers /\ h \in Nodes /\ n \in Nodes /\ walk.calls \in [Nodes -> Nat]
      /\ links \in Links /\ Coherent(links) /\ links' = links /\ n # h
  BY <1>1, NodesAssumption DEF Walking, WalkInv, RingsInv, LinksInv, RingsCoherent, StepMap
<1>3. links.succ[n] \in Nodes
  BY <1>2 DEF Links
<1>4. /\ calls \in [Nodes -> Nat]
      /\ calls[n] = IF walk.calls[n] < 2 THEN walk.calls[n] + 1 ELSE walk.calls[n]
      /\ \A m \in Nodes : m # n => calls[m] = walk.calls[m]
  BY <1>2 DEF CountCall
<1> HIDE DEF calls
<1>5. walk' = [walk EXCEPT !.item = n, !.next = links.succ[n], !.calls = calls]
  BY DEF StepMap, calls
<1>6. /\ walk' \in Walking
      /\ walk'.header = h /\ walk'.next = links.succ[n] /\ walk'.calls = calls
      /\ walk'.stayed = walk.stayed /\ walk'.torn = walk.torn /\ walk.active
  BY <1>1, <1>2, <1>3, <1>4, <1>5 DEF Walking
<1>7. ASSUME ~ walk.torn PROVE \E i \in Nat : Divided(links', walk', i)
  <2>1. PICK i \in Nat : Divided(links, walk, i)
    BY <1>6, <1>7 DEF WalkInv, WalkDivides
  <2>2. /\ i \in 1 .. Len(s) + 1
        /\ n = IF i = Len(s) + 1 THEN h ELSE s[i]
        /\ h \in walk.stayed => walk.calls[h] = 1
        /\ \A m \in walk.stayed \ {h} : m \in RingOf(links, h)
        /\ \A j \in 1 .. Len(s) : s[j] \in walk.stayed => walk.calls[s[j]] = IF j < i THEN 1 ELSE 0
    BY <2>1 DEF Divided
  <2>3. /\ Spells(links, h, s) /\ s \in Seq(Nodes)
        /\ \A j, k \in 1 .. Len(s) : s[j] = s[k] => j = k
        /\ \A j \in 1 .. Len(s) : s[j] \in Nodes
    <3>1. /\ Spells(links, h, s)
          /\ \A j, k \in 1 .. Len(s) : s[j] = s[k] => j = k
      BY <1>2, ItemsSpell
    <3>2. s \in Seq(Nodes)
      BY <1>2, RingMembers
    <3> QED  BY <3>1, <3>2
  <2> HIDE DEF s, h, n
  <2>4. Len(s) \in Nat /\ i \in 1 .. Len(s) /\ n = s[i] /\ i + 1 \in 1 .. Len(s) + 1
        /\ (i + 1 = Len(s) + 1 <=> i = Len(s)) /\ i + 1 \in Nat
    BY <1>2, <2>2, <2>3
  <2>5. links.succ[n] = IF i + 1 = Len(s) + 1 THEN h ELSE s[i + 1]
    BY <2>3, <2>4 DEF Spells
  <2>6. h \in walk.stayed => calls[h] = 1
    BY <1>2, <1>4, <2>2
  <2>7. ASSUME NEW j \in 1 .. Len(s), s[j] \in walk.stayed
        PROVE  calls[s[j]] = IF j < i + 1 THEN 1 ELSE 0
    <3>1. CASE j = i
      <4>1. walk.calls[n] = 0 /\ j < i + 1
        BY <2>2, <2>4, <2>7, <3>1
      <4> QED  BY <1>4, <2>4, <3>1, <4>1
    <3>2. CASE j # i
      <4>1. s[j] # n /\ s[j] \in Nodes /\ (j < i <=> j < i + 1)
        BY <2>3, <2>4, <3>2
      <4> QED  BY <1>4, <2>2, <2>7, <4>1
    <3> QED  BY <3>1, <3>2
  <2>8. Divided(links', walk', i + 1)
    BY <1>2, <1>6, <2>2, <2>4, <2>5, <2>6, <2>7 DEF Divided, s
  <2> QED  BY <2>4, <2>8
<1> QED  BY <1>6, <1>7 DEF WalkType, WalkDivides

(* No step disturbs what a traversal has done and has yet to do. *)
LEMMA NextWalks == WalkInv /\ [Next]_vars => WalkInv'
<1> SUFFICES ASSUME WalkInv, [Next]_vars PROVE WalkInv'
  OBVIOUS
<1>1. RingsInv'
  BY NextRings DEF WalkInv
<1>2. ASSUME NEW t \in Items, NEW q \in Nodes, Put(t, q) PROVE WalkInv'
  <2>1. WalkType'
    <3>1. CASE walk = NoWalk
      BY <1>2, <3>1 DEF Put, WalkType, NoWalk
    <3>2. CASE walk \in Walking
      <4>1. PICK edits \in Nat : edits = walk.edits + 1
        BY <3>2 DEF Walking
      <4>2. walk' = [walk EXCEPT !.edits = edits]
        BY <1>2, <3>2, <4>1 DEF Put, Walking
      <4>3. walk' \in Walking
        BY <3>2, <4>2 DEF Walking
      <4> QED  BY <4>3 DEF WalkType
    <3> QED  BY <3>1, <3>2 DEF WalkInv, WalkType
  <2> QED  BY <1>1, <1>2, <2>1, PutDivides DEF WalkInv
<1>3. ASSUME NEW t \in Items, Take(t) PROVE WalkInv'
  <2>1. WalkType'
    <3>1. CASE walk = NoWalk
      BY <1>3, <3>1 DEF Take, WalkType, NoWalk
    <3>2. CASE walk \in Walking
      <4>1. PICK torn \in BOOLEAN : torn = (walk.torn \/ t = walk.next)
        OBVIOUS
      <4>2. PICK edits \in Nat : edits = walk.edits + 1
        BY <3>2 DEF Walking
      <4>3. PICK stayed \in SUBSET Nodes : stayed = walk.stayed \ {t}
        BY <3>2 DEF Walking
      <4>4. walk' = [walk EXCEPT !.edits = edits, !.stayed = stayed, !.torn = torn]
        BY <1>3, <3>2, <4>1, <4>2, <4>3 DEF Take, Walking
      <4>5. walk' \in Walking
        BY <3>2, <4>4 DEF Walking
      <4> QED  BY <4>5 DEF WalkType
    <3> QED  BY <3>1, <3>2 DEF WalkInv, WalkType
  <2> QED  BY <1>1, <1>3, <2>1, TakeDivides DEF WalkInv
<1>4. ASSUME NEW h \in Headers, StartMap(h) PROVE WalkInv'
  BY <1>1, <1>4, StartDivides DEF WalkInv
<1>5. CASE StepMap
  BY <1>1, <1>5, StepDivides DEF WalkInv
<1>6. CASE walk' = NoWalk
  BY <1>1, <1>6 DEF WalkInv, WalkType, WalkDivides, NoWalk
<1>7. CASE UNCHANGED vars
  BY <1>1, <1>7 DEF WalkInv, WalkType, WalkDivides, vars
<1> QED  BY <1>2, <1>3, <1>4, <1>5, <1>6, <1>7 DEF Next, EndMap, StopMap

(* map-queue has handed each member that stayed in the queue to its block  *)
(* once when it is through, whatever the block did to the queues, unless   *)
(* the item it would go on with was taken out.                             *)
THEOREM MapsVisitOnce == Spec => []MapVisitsOnce
<1>1. Init => WalkInv
  BY InitRings DEF Init, WalkInv, WalkType, WalkDivides, NoWalk
<1>2. ASSUME WalkInv PROVE MapVisitsOnce
  <2> SUFFICES ASSUME walk.active, walk.next = walk.header, ~ walk.torn, NEW n \in walk.stayed
               PROVE  walk.calls[n] = 1
    BY DEF MapVisitsOnce
  <2> DEFINE h == walk.header
             s == ItemsOf(links, h)
  <2>1. walk \in Walking
    BY <1>2 DEF WalkInv, WalkType, NoWalk
  <2>2. h \in Nodes /\ links \in Links /\ Coherent(links)
    BY <1>2, <2>1, NodesAssumption DEF Walking, WalkInv, RingsInv, LinksInv, RingsCoherent
  <2>3. PICK i \in Nat : Divided(links, walk, i)
    BY <1>2 DEF WalkInv, WalkDivides
  <2>4. /\ i \in 1 .. Len(s) + 1
        /\ h = IF i = Len(s) + 1 THEN h ELSE s[i]
        /\ h \in walk.stayed => walk.calls[h] = 1
        /\ \A m \in walk.stayed \ {h} : m \in RingOf(links, h)
        /\ \A j \in 1 .. Len(s) : s[j] \in walk.stayed => walk.calls[s[j]] = IF j < i THEN 1 ELSE 0
    BY <2>3 DEF Divided
  <2>5. CASE n = h
    BY <2>4, <2>5
  <2>6. CASE n # h
    <3>1. PICK j \in 1 .. Len(s) : s[j] = n
      BY <2>2, <2>4, <2>6, RingMembers
    <3>2. s \in Seq(Nodes) /\ \A k \in 1 .. Len(s) : s[k] # h
      BY <2>2, RingMembers
    <3> HIDE DEF s, h
    <3>3. j < i
      BY <2>4, <3>2
    <3> QED  BY <2>4, <3>1, <3>3
  <2> QED  BY <2>5, <2>6
<1> QED  BY <1>1, <1>2, NextWalks, PTL DEF Spec
============================================================================
