------------------------- MODULE MultitaskingProofs -----------------------
(***************************************************************************)
(* How the operations of the kernel keep every task in its place, for any  *)
(* number of tasks, conditions and semaphores; and that the invariant of   *)
(* the kernel holds of the whole task system, whatever its tasks do, as    *)
(* long as the foreground is not one of the tasks that wait for conditions *)
(* and semaphores.                                                         *)
(***************************************************************************)
EXTENDS Multitasking, RingLemmas

(***************************************************************************)
(* The operations of the kernel.                                           *)
(***************************************************************************)

(* A node of no ring can be put into any ring: the ring stays one ring.    *)
LEMMA EnqueueWellLinked ==
  ASSUME NEW L \in Links, NEW H \in [Nodes -> Homes], WellLinked(L, H),
         NEW t \in Nodes, NEW q \in Nodes, H[t] = "loose", H[q] # "loose"
  PROVE  WellLinked(Enqueue(L, t, q), [H EXCEPT ![t] = H[q]])
<1> DEFINE M == Enqueue(L, t, q)
           G == [H EXCEPT ![t] = H[q]]
<1>0. /\ Coherent(L) /\ Isolated(L, t) /\ t # q
      /\ \A n \in Nodes : H[L.succ[n]] = H[n]
  BY DEF WellLinked
<1>1. /\ L.pred[q] \in Nodes \ {t}
      /\ \A n \in Nodes :
           /\ M.succ[n] = IF n = t THEN q ELSE IF n = L.pred[q] THEN t ELSE L.succ[n]
           /\ M.pred[n] = IF n = q THEN t ELSE IF n = t THEN L.pred[q] ELSE L.pred[n]
  BY <1>0, EnqueueFields
<1>2. \A n \in Nodes : /\ L.succ[n] \in Nodes /\ L.pred[n] \in Nodes
                       /\ L.pred[L.succ[n]] = n /\ L.succ[L.pred[n]] = n
  BY <1>0 DEF Links, Coherent
<1>3. \A n \in Nodes : G[n] = IF n = t THEN H[q] ELSE H[n]
  OBVIOUS
<1>4. Coherent(M)
  BY <1>0, EnqueueCoherent
<1>5. M \in Links
  BY EnqueueType
<1> HIDE DEF M, G
<1>6. H[L.pred[q]] = H[q]
  BY <1>0, <1>2
<1>7. ASSUME NEW n \in Nodes PROVE G[M.succ[n]] = G[n]
  <2>1. CASE n = t
    BY <2>1, <1>0, <1>1, <1>3
  <2>2. CASE n = L.pred[q]
    BY <2>2, <1>1, <1>3, <1>6
  <2>3. CASE n # t /\ n # L.pred[q]
    <3>1. M.succ[n] = L.succ[n] /\ L.succ[n] \in Nodes
      BY <2>3, <1>1, <1>2
    <3>2. L.succ[n] # t
      BY <2>3, <1>0, <1>2 DEF Isolated
    <3> QED  BY <3>1, <3>2, <2>3, <1>0, <1>3
  <2> QED  BY <2>1, <2>2, <2>3
<1>8. ASSUME NEW n \in Nodes, G[n] = "loose" PROVE Isolated(M, n)
  <2>1. n # t /\ H[n] = "loose" /\ n # q /\ n # L.pred[q]
    BY <1>3, <1>6, <1>8
  <2>2. Isolated(L, n)
    BY <2>1 DEF WellLinked
  <2> QED  BY <1>1, <2>1, <2>2 DEF Isolated
<1>9. ASSUME NEW S \in SUBSET Nodes, NEW m \in S, NEW n \in Nodes,
             \A k \in S : G[k] = G[m] /\ M.succ[k] \in S,
             G[n] = G[m], G[m] # "loose"
      PROVE  n \in S
  <2> DEFINE R == S \ {t}
             m0 == IF m = t THEN q ELSE m
  <2>1. m0 \in R /\ H[m0] = G[m]
    BY <1>0, <1>1, <1>3, <1>9
  <2>2. ASSUME NEW k \in R PROVE H[k] = H[m0] /\ L.succ[k] \in R
    <3>1. H[k] = H[m0]
      BY <2>1, <2>2, <1>3, <1>9
    <3>2. M.succ[k] \in S
      BY <2>2, <1>9
    <3>3. CASE k = L.pred[q]
      <4>1. t \in S /\ L.succ[k] = q
        BY <3>2, <3>3, <1>1, <1>2, <2>2
      <4>2. q \in S
        BY <4>1, <1>1, <1>9
      <4> QED  BY <3>1, <4>1, <4>2, <1>0
    <3>4. CASE k # L.pred[q]
      <4>1. L.succ[k] \in S
        BY <3>2, <3>4, <1>1, <2>2
      <4>2. L.succ[k] # t
        <5>1. L.pred[t] = t
          BY <1>0 DEF Isolated
        <5> QED  BY <5>1, <1>2, <2>2
      <4> QED  BY <3>1, <4>1, <4>2
    <3> QED  BY <3>3, <3>4
  <2>3. \A p \in Nodes : H[p] = H[m0] => p \in R
    <3>1. R \in SUBSET Nodes /\ H[m0] # "loose"
      BY <2>1, <1>9
    <3> HIDE DEF R, m0
    <3> QED  BY <3>1, <2>1, <2>2 DEF WellLinked
  <2>4. CASE n # t
    BY <2>1, <2>3, <2>4, <1>3, <1>9
  <2>5. CASE n = t
    <3>1. H[q] = H[m0]
      BY <2>1, <2>5, <1>3, <1>9
    <3>2. L.pred[q] \in R
      BY <3>1, <2>3, <1>1, <1>6
    <3> QED  BY <3>2, <2>5, <1>1, <1>9
  <2> QED  BY <2>4, <2>5
<1>10. WellLinked(M, G)
  BY <1>4, <1>7, <1>8, <1>9 DEF WellLinked
<1> QED  BY <1>10 DEF M, G

(* Taking a node out of its ring leaves one ring of all the others. *)
LEMMA DequeueWellLinked ==
  ASSUME NEW L \in Links, NEW H \in [Nodes -> Homes], WellLinked(L, H),
         NEW t \in Nodes, H[t] # "loose"
  PROVE  WellLinked(Dequeue(L, t), [H EXCEPT ![t] = "loose"])
<1> DEFINE M == Dequeue(L, t)
           G == [H EXCEPT ![t] = "loose"]
<1>0. Coherent(L) /\ \A n \in Nodes : H[L.succ[n]] = H[n]
  BY DEF WellLinked
<1>1. \A n \in Nodes :
        /\ M.succ[n] = IF n = t THEN t ELSE IF n = L.pred[t] THEN L.succ[t] ELSE L.succ[n]
        /\ M.pred[n] = IF n = t THEN t ELSE IF n = L.succ[t] THEN L.pred[t] ELSE L.pred[n]
  BY <1>0, DequeueFields
<1>2. \A n \in Nodes : /\ L.succ[n] \in Nodes /\ L.pred[n] \in Nodes
                       /\ L.pred[L.succ[n]] = n /\ L.succ[L.pred[n]] = n
  BY <1>0 DEF Links, Coherent
<1>3. \A n \in Nodes : G[n] = IF n = t THEN "loose" ELSE H[n]
  OBVIOUS
<1>4. Coherent(M) /\ Isolated(M, t)
  BY <1>0, DequeueCoherent
<1> HIDE DEF M, G
<1>5. \A n \in Nodes : n # t => M.succ[n] # t
  BY <1>1, <1>2
<1>6. \A n \in Nodes : G[M.succ[n]] = G[n]
  BY <1>0, <1>1, <1>2, <1>3, <1>5
<1>7. ASSUME NEW n \in Nodes, G[n] = "loose" PROVE Isolated(M, n)
  <2>1. CASE n = t
    BY <2>1, <1>4
  <2>2. CASE n # t
    <3>1. H[n] = "loose" /\ Isolated(L, n)
      BY <2>2, <1>3, <1>7 DEF WellLinked
    <3>2. n # L.pred[t] /\ n # L.succ[t]
      BY <3>1, <2>2, <1>0, <1>2
    <3> QED  BY <3>1, <3>2, <2>2, <1>1 DEF Isolated
  <2> QED  BY <2>1, <2>2
<1>8. ASSUME NEW S \in SUBSET Nodes, NEW m \in S, NEW n \in Nodes,
             \A k \in S : G[k] = G[m] /\ M.succ[k] \in S,
             G[n] = G[m], G[m] # "loose"
      PROVE  n \in S
  <2>1. t \notin S /\ n # t /\ H[m] = G[m] /\ H[n] = G[m]
    BY <1>3, <1>8
  <2>2. \A k \in S : H[k] = H[m]
    BY <2>1, <1>3, <1>8
  <2>3. CASE L.pred[t] \in S
    <3> DEFINE R == S \cup {t}
    <3>1. H[t] = H[m]
      BY <2>2, <2>3, <1>0, <1>2
    <3>2. L.succ[t] \in S
      BY <2>1, <2>3, <1>1, <1>8
    <3>3. \A k \in R : H[k] = H[m] /\ L.succ[k] \in R
      BY <3>1, <3>2, <2>1, <2>2, <1>1, <1>8, <1>2
    <3>4. R \in SUBSET Nodes /\ m \in R
      OBVIOUS
    <3> HIDE DEF R
    <3>5. n \in R
      BY <3>3, <3>4, <2>1, <1>8 DEF WellLinked
    <3> QED  BY <3>5, <2>1 DEF R
  <2>4. CASE L.pred[t] \notin S
    <3>1. \A k \in S : H[k] = H[m] /\ L.succ[k] \in S
      BY <2>1, <2>2, <2>4, <1>1, <1>8
    <3> QED  BY <3>1, <2>1, <1>8 DEF WellLinked
  <2> QED  BY <2>3, <2>4
<1>9. WellLinked(M, G)
  BY <1>4, <1>6, <1>7, <1>8 DEF WellLinked
<1> QED  BY <1>9 DEF M, G
----------------------------------------------------------------------------
(***************************************************************************)
(* The invariant of the kernel: every operation of a running task that     *)
(* keeps to the rules of the manual takes it to itself.                    *)
(***************************************************************************)
KernelInv == /\ KernelTypeOK
             /\ WellLinked(links, home)
             /\ HeadersAtHome
             /\ StatusFitsHome
             /\ RunnersLinked
             /\ NoLostSignal

(* The invariant holds when only the foreground exists. *)
LEMMA KernelInitInv ==
  ASSUME NEW initial \in [Semaphores -> Nat], KernelInit(initial) PROVE KernelInv
<1> USE KernelAssumption DEF KernelInit
<1>1. \A n \in Nodes : links.succ[n] = n /\ links.pred[n] = n
  BY DEF EmptyLinks
<1>2. KernelTypeOK
  BY DEF KernelTypeOK, EmptyLinks, Links, Status, Homes, Headers
<1>3. \A n \in Nodes : home[n] = IF n \in Headers THEN n
                                ELSE IF n = foreground THEN "run" ELSE "loose"
  OBVIOUS
<1>4. WellLinked(links, home)
  <2>1. \A m, n \in Nodes : home[n] = home[m] /\ home[m] # "loose" => n = m
    BY <1>3
  <2> QED  BY <1>1, <2>1 DEF WellLinked, Coherent, Isolated
<1>5. HeadersAtHome /\ RunnersLinked
  BY <1>3 DEF HeadersAtHome, RunnersLinked
<1>6. StatusFitsHome
  BY <1>3 DEF StatusFitsHome
<1>7. NoLostSignal
  BY <1>1 DEF NoLostSignal, IsEmptyQueue, Headers
<1> QED  BY <1>2, <1>4, <1>5, <1>6, <1>7 DEF KernelInv

(* The word "resume" given a live task makes it the running task, and      *)
(* leaves the virtual machine if that is another one.                      *)
LEMMA ResumeTask ==
  ASSUME NEW x \in Tasks, NEW st, st[x] # "TERMINATED", running \in BOOLEAN,
         Resume(x, st)
  PROVE  /\ tp' = x /\ running' \in BOOLEAN
         /\ running' = IF x = tp THEN running ELSE FALSE
<1>1. x \notin Semaphores
  BY KernelAssumption DEF Headers
<1>2. StatusWordSet(x, st) = {st[x] # "TERMINATED"}
  BY <1>1 DEF StatusWordSet
<1>3. StatusWordSet(x, st) = {TRUE}
  BY <1>2
<1> QED  BY <1>3 DEF Resume

(* The successor of the running task is a live task of the same ring. *)
LEMMA NextIsTask ==
  ASSUME KernelInv
  PROVE  /\ links.succ[tp] \in Tasks
         /\ home[links.succ[tp]] = "run"
         /\ status[links.succ[tp]] # "TERMINATED"
<1>1. tp \in Nodes /\ links.succ[tp] \in Nodes
  BY KernelAssumption DEF KernelInv, KernelTypeOK, Links
<1>2. home[links.succ[tp]] = "run"
  BY <1>1 DEF KernelInv, WellLinked, RunnersLinked
<1>3. links.succ[tp] \in Tasks
  BY <1>1, <1>2, KernelAssumption DEF KernelInv, HeadersAtHome
<1> QED  BY <1>2, <1>3 DEF KernelInv, StatusFitsHome

(* A semaphore's queue is empty exactly when no node has it as its home. *)
LEMMA EmptyIffNoOneHome ==
  ASSUME KernelInv, NEW h \in Headers
  PROVE  IsEmptyQueue(links, h) <=> \A n \in Nodes : home[n] = h => n = h
<1>1. h \in Nodes /\ home[h] = h /\ h # "loose" /\ links.succ[h] \in Nodes
  BY KernelAssumption DEF KernelInv, HeadersAtHome, KernelTypeOK, Links
<1>2. home[links.succ[h]] = h
  BY <1>1 DEF KernelInv, WellLinked
<1>3. ASSUME links.succ[h] = h, NEW n \in Nodes, home[n] = h PROVE n = h
  <2> DEFINE S == {h}
  <2>1. \A k \in S : home[k] = home[h] /\ links.succ[k] \in S
    BY <1>3
  <2>2. S \in SUBSET Nodes /\ h \in S
    BY <1>1
  <2> HIDE DEF S
  <2>3. n \in S
    BY <1>1, <1>3, <2>1, <2>2 DEF KernelInv, WellLinked
  <2> QED  BY <2>3 DEF S
<1> QED  BY <1>1, <1>2, <1>3 DEF IsEmptyQueue

(* detach only passes the machine on to the next runnable task. *)
LEMMA DetachKeeps ==
  ASSUME KernelInv, Detach
  PROVE  KernelInv' /\ running' = IF tp' = tp THEN running ELSE FALSE
<1>0. Resume(links.succ[tp], status) /\ running \in BOOLEAN
  BY DEF Detach, DetachIn, KernelInv, KernelTypeOK
<1>1. /\ tp' \in Tasks /\ home[tp'] = "run" /\ running' \in BOOLEAN
      /\ running' = IF tp' = tp THEN running ELSE FALSE
  <2>1. PICK x \in Tasks : x = links.succ[tp] /\ home[x] = "run" /\ status[x] # "TERMINATED"
    BY NextIsTask
  <2>2. /\ tp' = x /\ running' \in BOOLEAN
        /\ running' = IF x = tp THEN running ELSE FALSE
    BY <1>0, <2>1, ResumeTask
  <2> QED  BY <2>1, <2>2
<1>2. UNCHANGED <<links, status, tasking, count, home>>
  BY DEF Detach
<1> QED  BY <1>1, <1>2 DEF KernelInv, KernelTypeOK, HeadersAtHome, StatusFitsHome,
                          RunnersLinked, NoLostSignal

(* Entering the virtual machine again changes only its flag. *)
LEMMA EnterInnerKeeps == ASSUME KernelInv, EnterInner PROVE KernelInv'
  BY DEF EnterInner, KernelInv, KernelTypeOK, HeadersAtHome, StatusFitsHome,
         RunnersLinked, NoLostSignal

(* A new task object is in no ring, and making it changes no link. *)
LEMMA MakeTaskKeeps ==
  ASSUME KernelInv, NEW t \in Tasks, MakeTask(t) PROVE KernelInv'
<1>1. t \in Nodes /\ home[t] = "loose" /\ t # tp
  BY KernelAssumption DEF MakeTask, KernelInv, StatusFitsHome, RunnersLinked
<1>2. Isolated(links, t)
  BY <1>1 DEF KernelInv, WellLinked
<1>3. links' = links /\ home' = home
  BY <1>1, <1>2 DEF MakeTask, Isolated, KernelInv, KernelTypeOK, Links
<1>4. /\ status' = [status EXCEPT ![t] = "READY"]
      /\ UNCHANGED <<tp, running, tasking, count>>
  BY DEF MakeTask
<1>5. KernelTypeOK'
  BY <1>3, <1>4 DEF KernelInv, KernelTypeOK, Status
<1>6. StatusFitsHome'
  BY <1>1, <1>3, <1>4 DEF KernelInv, KernelTypeOK, StatusFitsHome
<1> QED  BY <1>3, <1>4, <1>5, <1>6 DEF KernelInv, HeadersAtHome, RunnersLinked, NoLostSignal

(* A scheduled task is put between the running task and the next one, and  *)
(* is the one resumed.                                                     *)
LEMMA ScheduleKeeps ==
  ASSUME KernelInv, NEW t \in Tasks, status[t] = "READY", Schedule(t)
  PROVE  /\ KernelInv'
         /\ t # tp /\ tp' = t /\ running' = FALSE
         /\ home' = [home EXCEPT ![t] = "run"]
         /\ status' = [status EXCEPT ![t] = "RUNNING"]
<1> DEFINE q == links.succ[tp]
           L == Enqueue(links, t, q)
<1>0. /\ links \in Links /\ home \in [Nodes -> Homes] /\ WellLinked(links, home)
      /\ Coherent(links)
      /\ t \in Nodes /\ tp \in Nodes /\ tp \in Tasks /\ home[t] = "loose"
  BY KernelAssumption DEF KernelInv, KernelTypeOK, WellLinked, StatusFitsHome
<1>1. q \in Nodes /\ home[q] = "run" /\ links.pred[q] = tp /\ t # q /\ t # tp
  BY <1>0, NextIsTask, KernelAssumption
     DEF KernelInv, RunnersLinked, Coherent
<1>2. Isolated(links, t)
  BY <1>0 DEF WellLinked
<1>3. L \in Links /\ WellLinked(L, [home EXCEPT ![t] = home[q]])
  BY <1>0, <1>1, EnqueueType, EnqueueWellLinked
<1>4. \A n \in Nodes : L.succ[n] = IF n = t THEN q ELSE IF n = tp THEN t ELSE links.succ[n]
  BY <1>0, <1>1, <1>2, EnqueueFields
<1>5. /\ links' = L /\ home' = [home EXCEPT ![t] = home[q]]
      /\ Resume(L.succ[tp], status)
      /\ status' = [status EXCEPT ![tp'] = "RUNNING"]
      /\ UNCHANGED <<tasking, count>>
  BY DEF Schedule, DetachIn
<1> HIDE DEF q, L
<1>6. L.succ[tp] = t
  BY <1>0, <1>1, <1>4
<1>7. tp' = t /\ running' \in BOOLEAN /\ running' = FALSE
  BY <1>1, <1>5, <1>6, ResumeTask DEF KernelInv, KernelTypeOK
<1>8. KernelTypeOK'
  BY <1>0, <1>1, <1>3, <1>5, <1>7 DEF KernelInv, KernelTypeOK, Status, Homes
<1>9. WellLinked(links, home)'
  BY <1>3, <1>5
<1>10. HeadersAtHome'
  BY <1>5, KernelAssumption DEF KernelInv, KernelTypeOK, HeadersAtHome
<1>11. StatusFitsHome'
  BY <1>0, <1>1, <1>5, <1>7, KernelAssumption DEF KernelInv, KernelTypeOK, StatusFitsHome
<1>12. RunnersLinked'
  BY <1>0, <1>1, <1>5, <1>7, KernelAssumption DEF KernelInv, KernelTypeOK, RunnersLinked
<1>13. NoLostSignal'
  BY <1>0, <1>4, <1>5, KernelAssumption DEF KernelInv, NoLostSignal, IsEmptyQueue, Headers
<1> QED  BY <1>1, <1>5, <1>7, <1>8, <1>9, <1>10, <1>11, <1>12, <1>13 DEF KernelInv

(* A task that is not the foreground is not alone in its ring. *)
LEMMA NotAlone ==
  ASSUME KernelInv, tp # foreground
  PROVE  links.succ[tp] # tp
<1> SUFFICES ASSUME links.succ[tp] = tp PROVE FALSE
  OBVIOUS
<1> DEFINE S == {tp}
<1>1. /\ S \in SUBSET Nodes /\ tp \in S /\ foreground \in Nodes
      /\ \A k \in S : home[k] = home[tp] /\ links.succ[k] \in S
  BY KernelAssumption DEF KernelInv, KernelTypeOK
<1>2. home[foreground] = home[tp] /\ home[tp] # "loose"
  BY DEF KernelInv, RunnersLinked
<1> HIDE DEF S
<1>3. foreground \in S
  BY <1>1, <1>2 DEF KernelInv, WellLinked
<1> QED  BY <1>3 DEF S

(* A task terminates after the next one was resumed: it is unlinked from   *)
(* a ring it no longer runs in.                                            *)
LEMMA TerminateKeeps ==
  ASSUME KernelInv, Terminate
  PROVE  /\ KernelInv' /\ running' = FALSE
         /\ tp # foreground => /\ tp' # tp
                              /\ home' = [home EXCEPT ![tp] = "loose"]
                              /\ status' = [status EXCEPT ![tp] = "TERMINATED"]
<1>1. CASE tp = foreground
  BY <1>1 DEF Terminate, KernelInv, KernelTypeOK, HeadersAtHome, StatusFitsHome,
              RunnersLinked, NoLostSignal
<1>2. CASE tp # foreground
  <2> DEFINE L == Dequeue(links, tp)
  <2>0. /\ links \in Links /\ home \in [Nodes -> Homes] /\ WellLinked(links, home)
        /\ Coherent(links) /\ tp \in Nodes /\ tp \in Tasks /\ home[tp] = "run"
    BY KernelAssumption DEF KernelInv, KernelTypeOK, WellLinked, RunnersLinked
  <2>1. L \in Links /\ WellLinked(L, [home EXCEPT ![tp] = "loose"])
    BY <2>0, DequeueType, DequeueWellLinked
  <2>2. \A n \in Nodes : L.succ[n] = IF n = tp THEN tp
                        ELSE IF n = links.pred[tp] THEN links.succ[tp] ELSE links.succ[n]
    BY <2>0, DequeueFields
  <2>3. /\ links' = L /\ home' = [home EXCEPT ![tp] = "loose"]
        /\ Resume(links.succ[tp], status)
        /\ status' = [status EXCEPT ![tp] = "TERMINATED"]
        /\ UNCHANGED <<tasking, count>>
    BY <1>2 DEF Terminate, DetachIn
  <2> HIDE DEF L
  <2>4. tp' = links.succ[tp] /\ running' \in BOOLEAN /\ tp' \in Tasks /\ home[tp'] = "run"
    BY <2>3, NextIsTask, ResumeTask DEF KernelInv, KernelTypeOK
  <2>5. tp' # tp
    BY <1>2, <2>4, NotAlone
  <2>5a. running' = FALSE
    BY <2>3, <2>4, <2>5, NextIsTask, ResumeTask DEF KernelInv, KernelTypeOK
  <2>6. KernelTypeOK'
    BY <2>0, <2>1, <2>3, <2>4 DEF KernelInv, KernelTypeOK, Status, Homes
  <2>7. HeadersAtHome'
    BY <2>0, <2>3, KernelAssumption DEF KernelInv, HeadersAtHome
  <2>8. StatusFitsHome'
    BY <2>0, <2>3, KernelAssumption DEF KernelInv, KernelTypeOK, StatusFitsHome
  <2>9. RunnersLinked'
    BY <1>2, <2>0, <2>3, <2>4, <2>5, KernelAssumption DEF KernelInv, RunnersLinked
  <2>10. NoLostSignal'
    <3> SUFFICES ASSUME NEW s \in Semaphores, count[s] > 0 PROVE L.succ[s] = s
      BY <2>3 DEF NoLostSignal, IsEmptyQueue
    <3>1. links.succ[s] = s /\ s \in Nodes /\ s # tp
      BY <2>0, KernelAssumption DEF KernelInv, NoLostSignal, IsEmptyQueue, Headers
    <3>2. s # links.pred[tp]
      BY <2>0, <3>1 DEF Coherent
    <3> QED  BY <2>2, <3>1, <3>2
  <2> QED  BY <1>2, <2>1, <2>3, <2>5, <2>5a, <2>6, <2>7, <2>8, <2>9, <2>10 DEF KernelInv
<1> QED  BY <1>1, <1>2

(* A background task that waits moves from the ring of runnable tasks to   *)
(* the end of the queue, and the task that followed it is resumed.         *)
LEMMA AwaitKeeps ==
  ASSUME KernelInv, tp # foreground, NEW q \in Headers,
         q \in Semaphores => count[q] = 0, Await(q)
  PROVE  /\ KernelInv'
         /\ tp' # tp /\ running' = FALSE
         /\ home' = [home EXCEPT ![tp] = q]
         /\ status' = [status EXCEPT ![tp] = "WAITING"]
<1> DEFINE D == Dequeue(links, tp)
           HD == [home EXCEPT ![tp] = "loose"]
           E == Enqueue(D, tp, q)
           st == [status EXCEPT ![tp] = "WAITING"]
           next == links.succ[tp]
<1>0. /\ links \in Links /\ home \in [Nodes -> Homes] /\ WellLinked(links, home)
      /\ Coherent(links) /\ tp \in Nodes /\ tp \in Tasks /\ home[tp] = "run"
      /\ status \in [Tasks -> Status] /\ q \in Nodes /\ home[q] = q /\ q # tp
      /\ q # "loose" /\ q # "run"
  BY KernelAssumption DEF KernelInv, KernelTypeOK, WellLinked, RunnersLinked, HeadersAtHome
<1>1. D \in Links /\ WellLinked(D, HD) /\ Coherent(D)
  BY <1>0, DequeueType, DequeueWellLinked, DequeueCoherent
<1>2. \A n \in Nodes : D.succ[n] = IF n = tp THEN tp
                      ELSE IF n = links.pred[tp] THEN links.succ[tp] ELSE links.succ[n]
  BY <1>0, DequeueFields
<1>3. HD \in [Nodes -> Homes] /\ HD[tp] = "loose" /\ HD[q] = q
  BY <1>0 DEF Homes
<1>4. /\ links' = E /\ status' = st /\ home' = [home EXCEPT ![tp] = q]
      /\ Resume(next, st) /\ UNCHANGED <<tasking, count>>
  BY <1>0 DEF Await
<1>5. next \in Tasks /\ home[next] = "run" /\ next # tp /\ st[next] # "TERMINATED"
  BY <1>0, NextIsTask, NotAlone
<1> HIDE DEF D
<1>6. E \in Links /\ WellLinked(E, [HD EXCEPT ![tp] = HD[q]])
  BY <1>0, <1>1, <1>3, EnqueueType, EnqueueWellLinked
<1>7. Isolated(D, tp)
  BY <1>0, <1>1, <1>3 DEF WellLinked
<1>8. \A n \in Nodes : E.succ[n] = IF n = tp THEN q
                                    ELSE IF n = D.pred[q] THEN tp ELSE D.succ[n]
  BY <1>0, <1>1, <1>7, EnqueueFields
<1>9. [HD EXCEPT ![tp] = HD[q]] = [home EXCEPT ![tp] = q]
  BY <1>0, <1>3
<1> HIDE DEF E, HD
<1>10. tp' = next /\ running' \in BOOLEAN /\ running' = FALSE
  BY <1>4, <1>5, ResumeTask DEF KernelInv, KernelTypeOK
<1>11. KernelTypeOK'
  BY <1>0, <1>4, <1>5, <1>6, <1>10 DEF KernelInv, KernelTypeOK, Status, Homes
<1>12. WellLinked(links, home)'
  BY <1>4, <1>6, <1>9
<1>13. HeadersAtHome'
  BY <1>0, <1>4, KernelAssumption DEF KernelInv, HeadersAtHome
<1>14. StatusFitsHome'
  BY <1>0, <1>4, KernelAssumption DEF KernelInv, StatusFitsHome
<1>15. RunnersLinked'
  BY <1>0, <1>4, <1>5, <1>10, KernelAssumption DEF KernelInv, RunnersLinked
<1>16. NoLostSignal'
  <2> SUFFICES ASSUME NEW s \in Semaphores, count[s] > 0 PROVE E.succ[s] = s
    BY <1>4 DEF NoLostSignal, IsEmptyQueue
  <2>1. links.succ[s] = s /\ s \in Nodes /\ s # tp /\ s # q
    BY <1>0, KernelAssumption DEF KernelInv, NoLostSignal, IsEmptyQueue, Headers
  <2>2. s # links.pred[tp]
    BY <1>0, <2>1 DEF Coherent
  <2>3. D.succ[s] = s
    BY <1>2, <2>1, <2>2
  <2>4. s # D.pred[q]
    BY <1>0, <1>1, <2>1, <2>3 DEF Coherent
  <2> QED  BY <1>8, <2>1, <2>3, <2>4
<1> QED  BY <1>4, <1>5, <1>10, <1>11, <1>12, <1>13, <1>14, <1>15, <1>16 DEF KernelInv

(* The first waiting task moves from the queue to the place right after    *)
(* the running task, and is the one resumed.                               *)
LEMMA CauseKeeps ==
  ASSUME KernelInv, NEW q \in Headers, Cause(q)
  PROVE  /\ KernelInv'
         /\ ~ IsEmptyQueue(links, q) =>
              \E t \in Tasks :
                /\ t = links.succ[q] /\ home[t] = q
                /\ t # tp /\ tp' = t /\ running' = FALSE
                /\ home' = [home EXCEPT ![t] = "run"]
                /\ status' = [status EXCEPT ![t] = "RUNNING"]
                /\ UNCHANGED <<tasking, count>>
<1>1. CASE IsEmptyQueue(links, q)
  BY <1>1 DEF Cause, kernelVars, KernelInv, KernelTypeOK, HeadersAtHome, StatusFitsHome,
              RunnersLinked, NoLostSignal
<1>2. CASE ~ IsEmptyQueue(links, q)
  <2> DEFINE t == links.succ[q]
             D == Dequeue(links, t)
             HD == [home EXCEPT ![t] = "loose"]
             n == D.succ[tp]
             E == Enqueue(D, t, n)
             st == [status EXCEPT ![t] = "RUNNING"]
  <2>0. /\ links \in Links /\ home \in [Nodes -> Homes] /\ WellLinked(links, home)
        /\ Coherent(links) /\ tp \in Nodes /\ tp \in Tasks /\ home[tp] = "run"
        /\ status \in [Tasks -> Status] /\ q \in Nodes /\ home[q] = q
        /\ q # "loose" /\ q # "run"
    BY KernelAssumption DEF KernelInv, KernelTypeOK, WellLinked, RunnersLinked, HeadersAtHome
  <2>1. t \in Nodes /\ home[t] = q /\ t # q /\ t # tp
    BY <1>2, <2>0 DEF WellLinked, Links, IsEmptyQueue
  <2>2. t \in Tasks
    BY <2>1, KernelAssumption DEF KernelInv, HeadersAtHome
  <2>3. D \in Links /\ WellLinked(D, HD) /\ Coherent(D)
    BY <2>0, <2>1, DequeueType, DequeueWellLinked, DequeueCoherent
  <2>4. \A m \in Nodes : D.succ[m] = IF m = t THEN t
                        ELSE IF m = links.pred[t] THEN links.succ[t] ELSE links.succ[m]
    BY <2>0, <2>1, DequeueFields
  <2>5. HD \in [Nodes -> Homes] /\ HD[t] = "loose" /\ HD[tp] = "run"
    BY <2>0, <2>1 DEF Homes
  <2>6. /\ links' = E /\ status' = st /\ home' = [home EXCEPT ![t] = home[n]]
        /\ Resume(E.succ[tp], st) /\ UNCHANGED <<tasking, count>>
    BY <1>2 DEF Cause, Activate, DetachIn
  <2>7. \A m \in Nodes : HD[m] = IF m = t THEN "loose" ELSE home[m]
    BY <2>0
  <2> HIDE DEF D, HD
  <2>8. n \in Nodes /\ HD[n] = "run" /\ D.pred[n] = tp
    BY <2>0, <2>3, <2>5 DEF Links, WellLinked, Coherent
  <2>9. n # t /\ home[n] = "run"
    BY <2>5, <2>7, <2>8
  <2> HIDE DEF n
  <2>10. E \in Links /\ WellLinked(E, [HD EXCEPT ![t] = HD[n]])
    BY <2>1, <2>3, <2>5, <2>8, EnqueueType, EnqueueWellLinked
  <2>11. Isolated(D, t)
    BY <2>1, <2>3, <2>5 DEF WellLinked
  <2>12. \A m \in Nodes : E.succ[m] = IF m = t THEN n
                                      ELSE IF m = tp THEN t ELSE D.succ[m]
    BY <2>1, <2>3, <2>8, <2>9, <2>11, EnqueueFields
  <2>13. [HD EXCEPT ![t] = HD[n]] = [home EXCEPT ![t] = home[n]]
    BY <2>8, <2>9 DEF HD
  <2> HIDE DEF E
  <2>14. E.succ[tp] = t
    BY <2>0, <2>1, <2>12
  <2>15. tp' = t /\ running' \in BOOLEAN /\ running' = FALSE
    BY <2>0, <2>1, <2>2, <2>6, <2>14, ResumeTask DEF KernelInv, KernelTypeOK
  <2>16. KernelTypeOK'
    BY <2>0, <2>2, <2>6, <2>9, <2>10, <2>15 DEF KernelInv, KernelTypeOK, Status, Homes
  <2>17. WellLinked(links, home)'
    BY <2>6, <2>10, <2>13
  <2>18. HeadersAtHome'
    BY <2>0, <2>2, <2>6, KernelAssumption DEF KernelInv, HeadersAtHome
  <2>19. StatusFitsHome'
    BY <2>0, <2>1, <2>2, <2>6, <2>9, KernelAssumption DEF KernelInv, StatusFitsHome
  <2>20. RunnersLinked'
    BY <2>0, <2>1, <2>2, <2>6, <2>9, <2>15, KernelAssumption DEF KernelInv, RunnersLinked
  <2>21. NoLostSignal'
    <3> SUFFICES ASSUME NEW s \in Semaphores, count[s] > 0 PROVE E.succ[s] = s
      BY <2>6 DEF NoLostSignal, IsEmptyQueue
    <3>1. links.succ[s] = s /\ s \in Nodes /\ s # tp /\ s # t
      BY <2>0, <2>2, KernelAssumption DEF KernelInv, NoLostSignal, IsEmptyQueue, Headers
    <3>2. s # links.pred[t]
      BY <2>0, <2>1, <3>1 DEF Coherent
    <3> QED  BY <2>4, <2>12, <3>1, <3>2
  <2>22. KernelInv'
    BY <2>16, <2>17, <2>18, <2>19, <2>20, <2>21 DEF KernelInv
  <2>23. home' = [home EXCEPT ![t] = "run"]
    BY <2>6, <2>9
  <2> QED  BY <2>1, <2>2, <2>6, <2>15, <2>22, <2>23
<1> QED  BY <1>1, <1>2

(* A signal counts only where the queue is empty. *)
LEMMA SignalKeeps ==
  ASSUME KernelInv, NEW s \in Semaphores, Signal(s) PROVE KernelInv'
<1>1. CASE Cause(s)
  BY <1>1, CauseKeeps DEF Headers
<1>2. CASE IsEmptyQueue(links, s) /\ ~ Cause(s)
  <2>1. /\ count' = [count EXCEPT ![s] = @ + 1]
        /\ UNCHANGED <<links, status, tp, running, tasking, home>>
    BY <1>2 DEF Signal
  <2> QED  BY <1>2, <2>1 DEF KernelInv, KernelTypeOK, HeadersAtHome, StatusFitsHome,
                            RunnersLinked, NoLostSignal, IsEmptyQueue
<1> QED  BY <1>1, <1>2 DEF Signal

(* A wait blocks only where the counter is zero. *)
LEMMA WaitKeeps ==
  ASSUME KernelInv, tp # foreground, NEW s \in Semaphores, Wait(s) PROVE KernelInv'
<1>1. CASE WouldWait(s) /\ Await(s)
  BY <1>1, AwaitKeeps DEF WouldWait, Headers
<1>2. CASE ~ WouldWait(s)
  <2>1. /\ count' = [count EXCEPT ![s] = @ - 1] /\ count[s] # 0
        /\ UNCHANGED <<links, status, tp, running, tasking, home>>
    BY <1>2 DEF Wait, WouldWait
  <2>2. count' \in [Semaphores -> Nat] /\ \A r \in Semaphores : count'[r] > 0 => count[r] > 0
    BY <2>1 DEF KernelInv, KernelTypeOK
  <2> QED  BY <2>1, <2>2 DEF KernelInv, KernelTypeOK, HeadersAtHome, StatusFitsHome,
                            RunnersLinked, NoLostSignal, IsEmptyQueue
<1> QED  BY <1>1, <1>2 DEF Wait

(* What wait and signal do, as a reader of the counters and of the places  *)
(* of the tasks sees it: the running task waits only where the counter is  *)
(* zero, and a signal that finds a waiting task puts it into the ring of   *)
(* runnable tasks.                                                         *)
LEMMA WaitEffect ==
  ASSUME KernelInv, tp # foreground, NEW s \in Semaphores, Wait(s)
  PROVE  \/ count[s] = 0 /\ count' = count /\ home' = [home EXCEPT ![tp] = s]
         \/ /\ count[s] > 0 /\ count' = [count EXCEPT ![s] = @ - 1]
            /\ UNCHANGED <<home, tp>>
<1>1. CASE WouldWait(s) /\ Await(s)
  <2>1. count[s] = 0 /\ count' = count
    BY <1>1 DEF WouldWait, Await
  <2>2. home' = [home EXCEPT ![tp] = s]
    BY <1>1, <2>1, AwaitKeeps DEF Headers
  <2> QED  BY <2>1, <2>2
<1>2. CASE ~ WouldWait(s)
  BY <1>2 DEF Wait, WouldWait, KernelInv, KernelTypeOK
<1> QED  BY <1>1, <1>2 DEF Wait

LEMMA SignalEffect ==
  ASSUME KernelInv, NEW s \in Semaphores, Signal(s)
  PROVE  \/ /\ \A t \in Tasks : home[t] # s
            /\ count' = [count EXCEPT ![s] = @ + 1] /\ UNCHANGED <<home, tp>>
         \/ \E t \in Tasks : /\ home[t] = s /\ t # tp /\ tp' = t
                            /\ count' = count /\ home' = [home EXCEPT ![t] = "run"]
<1>1. CASE IsEmptyQueue(links, s)
  <2>1. \A t \in Tasks : home[t] # s
    BY <1>1, EmptyIffNoOneHome, KernelAssumption DEF Headers
  <2> QED  BY <1>1, <2>1 DEF Signal
<1>2. CASE ~ IsEmptyQueue(links, s)
  <2>1. Cause(s)
    BY <1>2 DEF Signal
  <2> QED  BY <1>2, <2>1, CauseKeeps DEF Headers
<1> QED  BY <1>1, <1>2
----------------------------------------------------------------------------
(***************************************************************************)
(* The queues of conditions and semaphores as sequences of waiting tasks.  *)
(***************************************************************************)
(* The ring of a node is everything that has the same home. *)
LEMMA RingIsHome ==
  ASSUME NEW L \in Links, NEW H \in [Nodes -> Homes], WellLinked(L, H),
         NEW q \in Nodes, H[q] # "loose"
  PROVE  RingOf(L, q) = {n \in Nodes : H[n] = H[q]}
<1> DEFINE at == StepsFrom(L, q)
           R == RingOf(L, q)
           T == {k \in Nat : H[at[k]] = H[q]}
<1>1. at \in [Nat -> Nodes] /\ at[0] = q /\ \A k \in Nat : at[k + 1] = L.succ[at[k]]
  BY StepsFromDef
<1>2. Coherent(L) /\ \A n \in Nodes : H[L.succ[n]] = H[n]
  BY DEF WellLinked
<1>3. R \subseteq Nodes /\ q \in R /\ \A n \in R : L.succ[n] \in R
  BY <1>2, RingMembers
<1>4. R = {at[k] : k \in 0 .. Cardinality(Nodes)}
  BY DEF RingOf
<1> HIDE DEF at, R
<1>5. 0 \in T /\ \A k \in Nat : k \in T => k + 1 \in T
  BY <1>1, <1>2
<1> HIDE DEF T
<1>6. Nat \subseteq T
  BY <1>5, NatInSet
<1>7. \A n \in R : H[n] = H[q]
  <2>1. \A k \in 0 .. Cardinality(Nodes) : k \in Nat
    OBVIOUS
  <2> QED  BY <1>4, <1>6, <2>1 DEF T
<1>8. \A n \in Nodes : H[n] = H[q] => n \in R
  BY <1>3, <1>7 DEF WellLinked
<1> QED  BY <1>3, <1>7, <1>8 DEF R

(* Putting a node of no ring elsewhere leaves the queue of a header alone. *)
LEMMA EnqueueOtherQueue ==
  ASSUME NEW L \in Links, NEW H \in [Nodes -> Homes], WellLinked(L, H),
         NEW h \in Headers, H[h] = h,
         NEW t \in Nodes, NEW q \in Nodes, H[t] = "loose", H[q] # "loose", H[q] # h
  PROVE  ItemsOf(Enqueue(L, t, q), h) = ItemsOf(L, h)
<1>1. h \in Nodes /\ h # "loose" /\ t # h /\ t # q
  BY KernelAssumption
<1>2. Coherent(L) /\ Isolated(L, t)
  BY DEF WellLinked
<1>3. q \notin RingOf(L, h)
  BY <1>1, RingIsHome
<1> QED  BY <1>1, <1>2, <1>3, EnqueueElsewhere

(* Taking a node out of another ring leaves the queue of a header alone. *)
LEMMA DequeueOtherQueue ==
  ASSUME NEW L \in Links, NEW H \in [Nodes -> Homes], WellLinked(L, H),
         NEW h \in Headers, H[h] = h, NEW t \in Nodes, H[t] # h
  PROVE  ItemsOf(Dequeue(L, t), h) = ItemsOf(L, h)
<1>1. h \in Nodes /\ h # "loose"
  BY KernelAssumption
<1>2. Coherent(L)
  BY DEF WellLinked
<1>3. t \notin RingOf(L, h)
  BY <1>1, RingIsHome
<1> QED  BY <1>1, <1>2, <1>3, DequeueElsewhere

\* The queue of every header but q stays as it is, with all of them where q
\* is no header.
OtherQueuesStay(q) ==
  \A h \in Headers \ {q} : ItemsOf(links', h) = ItemsOf(links, h)

(* A queue's items are the other nodes that have it as their home. *)
LEMMA QueueItems ==
  ASSUME KernelInv, NEW h \in Headers
  PROVE  /\ h \in Nodes /\ links \in Links /\ Coherent(links)
         /\ ItemsOf(links, h) \in Seq(Nodes)
         /\ \A i \in 1 .. Len(ItemsOf(links, h)) : home[ItemsOf(links, h)[i]] = h
<1>1. /\ h \in Nodes /\ home[h] = h /\ h # "loose" /\ links \in Links
      /\ home \in [Nodes -> Homes] /\ WellLinked(links, home) /\ Coherent(links)
  BY KernelAssumption DEF KernelInv, KernelTypeOK, HeadersAtHome, WellLinked
<1>2. RingOf(links, h) = {n \in Nodes : home[n] = h}
  BY <1>1, RingIsHome
<1>3. /\ ItemsOf(links, h) \in Seq(Nodes)
      /\ \A i \in 1 .. Len(ItemsOf(links, h)) : ItemsOf(links, h)[i] \in RingOf(links, h) \ {h}
  BY <1>1, RingMembers
<1> QED  BY <1>1, <1>2, <1>3

(* schedule and make_task do not touch the queues of waiting tasks. *)
LEMMA ScheduleQueues ==
  ASSUME KernelInv, NEW t \in Tasks, status[t] = "READY", Schedule(t)
  PROVE  OtherQueuesStay(tp)
<1> SUFFICES ASSUME NEW h \in Headers PROVE ItemsOf(links', h) = ItemsOf(links, h)
  BY DEF OtherQueuesStay
<1>1. /\ links \in Links /\ home \in [Nodes -> Homes] /\ WellLinked(links, home)
      /\ home[h] = h /\ h # "run" /\ t \in Nodes /\ home[t] = "loose"
  BY KernelAssumption DEF KernelInv, KernelTypeOK, HeadersAtHome, StatusFitsHome
<1>2. links.succ[tp] \in Nodes /\ home[links.succ[tp]] = "run"
  BY NextIsTask, KernelAssumption
<1>3. links' = Enqueue(links, t, links.succ[tp])
  BY DEF Schedule
<1> QED  BY <1>1, <1>2, <1>3, EnqueueOtherQueue

LEMMA MakeTaskLinks ==
  ASSUME KernelInv, NEW t \in Tasks, MakeTask(t) PROVE links' = links /\ home' = home
<1>1. t \in Nodes /\ home[t] = "loose"
  BY KernelAssumption DEF MakeTask, KernelInv, StatusFitsHome
<1>2. Isolated(links, t)
  BY <1>1 DEF KernelInv, WellLinked
<1> QED  BY <1>1, <1>2 DEF MakeTask, Isolated, KernelInv, KernelTypeOK, Links

(* terminate takes the task out of the ring of runnable tasks only. *)
LEMMA TerminateQueues ==
  ASSUME KernelInv, Terminate PROVE OtherQueuesStay(tp)
<1> SUFFICES ASSUME NEW h \in Headers PROVE ItemsOf(links', h) = ItemsOf(links, h)
  BY DEF OtherQueuesStay
<1>1. /\ links \in Links /\ home \in [Nodes -> Homes] /\ WellLinked(links, home)
      /\ home[h] = h /\ h # "run" /\ tp \in Nodes /\ home[tp] = "run"
  BY KernelAssumption DEF KernelInv, KernelTypeOK, HeadersAtHome, RunnersLinked
<1>2. links' = links \/ links' = Dequeue(links, tp)
  BY DEF Terminate
<1> QED  BY <1>1, <1>2, DequeueOtherQueue

(* await puts the running task last into the queue it waits in. *)
LEMMA AwaitQueues ==
  ASSUME KernelInv, NEW q \in Headers, Await(q)
  PROVE  /\ ItemsOf(links', q) = Append(ItemsOf(links, q), tp)
         /\ OtherQueuesStay(q)
<1> DEFINE D == Dequeue(links, tp)
           HD == [home EXCEPT ![tp] = "loose"]
<1>0. /\ links \in Links /\ home \in [Nodes -> Homes] /\ WellLinked(links, home)
      /\ tp \in Nodes /\ home[tp] = "run" /\ q \in Nodes
      /\ \A h \in Headers : home[h] = h /\ h # "run" /\ h # "loose" /\ h # tp
  BY KernelAssumption DEF KernelInv, KernelTypeOK, RunnersLinked, HeadersAtHome
<1>1. D \in Links /\ WellLinked(D, HD)
  BY <1>0, DequeueType, DequeueWellLinked
<1>2. /\ HD \in [Nodes -> Homes] /\ HD[tp] = "loose"
      /\ \A h \in Headers : HD[h] = h
  BY <1>0, KernelAssumption DEF Homes
<1>3. \A h \in Headers : ItemsOf(D, h) = ItemsOf(links, h)
  BY <1>0, DequeueOtherQueue
<1>4. links' = Enqueue(D, tp, q)
  BY DEF Await
<1> HIDE DEF D, HD
<1>5. Isolated(D, tp) /\ Coherent(D)
  BY <1>0, <1>1, <1>2 DEF WellLinked
<1>6. ItemsOf(links', q) = Append(ItemsOf(links, q), tp)
  BY <1>0, <1>1, <1>3, <1>4, <1>5, EnqueueIsAppend
<1>7. ASSUME NEW h \in Headers \ {q} PROVE ItemsOf(links', h) = ItemsOf(links, h)
  BY <1>0, <1>1, <1>2, <1>3, <1>4, EnqueueOtherQueue
<1> QED  BY <1>6, <1>7 DEF OtherQueuesStay

(* cause takes the first task out of the queue, if there is one. *)
LEMMA CauseQueues ==
  ASSUME KernelInv, NEW q \in Headers, Cause(q)
  PROVE  /\ OtherQueuesStay(q)
         /\ \/ IsEmptyQueue(links, q) /\ UNCHANGED kernelVars
            \/ /\ ItemsOf(links, q) # << >>
               /\ ItemsOf(links', q) = Tail(ItemsOf(links, q))
               /\ UNCHANGED count
<1>1. CASE IsEmptyQueue(links, q)
  BY <1>1 DEF Cause, kernelVars, OtherQueuesStay
<1>2. CASE ~ IsEmptyQueue(links, q)
  <2> DEFINE t == links.succ[q]
             s == ItemsOf(links, q)
             D == Dequeue(links, t)
             HD == [home EXCEPT ![t] = "loose"]
             n == D.succ[tp]
  <2>0. /\ links \in Links /\ home \in [Nodes -> Homes] /\ WellLinked(links, home)
        /\ Coherent(links) /\ tp \in Nodes /\ home[tp] = "run" /\ q \in Nodes
        /\ \A h \in Headers : home[h] = h /\ h # "run" /\ h # "loose" /\ h # tp
    BY KernelAssumption DEF KernelInv, KernelTypeOK, WellLinked, RunnersLinked, HeadersAtHome
  <2>1. t \in Nodes /\ home[t] = q /\ t # q /\ t # tp
    BY <1>2, <2>0 DEF WellLinked, Links, IsEmptyQueue
  <2>2. \A h \in Headers : t # h
    BY <2>0, <2>1
  <2>3. D \in Links /\ WellLinked(D, HD)
    BY <2>0, <2>1, DequeueType, DequeueWellLinked
  <2>4. /\ HD \in [Nodes -> Homes] /\ HD[t] = "loose" /\ HD[tp] = "run"
        /\ \A h \in Headers : HD[h] = h
    BY <2>0, <2>1, <2>2, KernelAssumption DEF Homes
  <2>5. links' = Enqueue(D, t, n) /\ UNCHANGED count
    BY <1>2 DEF Cause, Activate
  <2>6. Spells(links, q, s) /\ s \in Seq(Nodes)
    BY <2>0, ItemsSpell, RingMembers
  <2>7. s # << >> /\ t = s[1]
    BY <2>1, <2>6 DEF Spells
  <2> HIDE DEF s
  <2>8. 1 \in 1 .. Len(s) /\ t = s[1]
    BY <2>6, <2>7
  <2>9. ItemsOf(Dequeue(links, s[1]), q) = RemoveAt(s, 1)
    BY <2>0, <2>8, DequeueIsRemoval DEF s
  <2>10. RemoveAt(s, 1) = Tail(s)
    <3>1. /\ RemoveAt(s, 1) \in Seq(Nodes)
          /\ Len(RemoveAt(s, 1)) = Len(s) - 1
          /\ \A j \in 1 .. Len(s) - 1 : RemoveAt(s, 1)[j] = IF j < 1 THEN s[j] ELSE s[j + 1]
      BY <2>6, <2>8, RemoveAtFields
    <3>2. /\ Tail(s) \in Seq(Nodes) /\ Len(Tail(s)) = Len(s) - 1
          /\ \A j \in 1 .. Len(s) - 1 : Tail(s)[j] = s[j + 1]
      BY <2>6, <2>7
    <3>3. \A j \in 1 .. Len(s) - 1 : ~ (j < 1)
      OBVIOUS
    <3> QED  BY <3>1, <3>2, <3>3
  <2>11. ASSUME NEW h \in Headers \ {q} PROVE ItemsOf(D, h) = ItemsOf(links, h)
    <3>1. home[t] # h
      BY <2>1
    <3> QED  BY <2>0, <2>1, <3>1, DequeueOtherQueue
  <2>12. ItemsOf(D, q) = Tail(s)
    BY <2>8, <2>9, <2>10
  <2> HIDE DEF D, HD
  <2>13. n \in Nodes /\ HD[n] = "run"
    BY <2>0, <2>3, <2>4 DEF Links, WellLinked
  <2> HIDE DEF n, t
  <2>14. ASSUME NEW h \in Headers PROVE ItemsOf(links', h) = ItemsOf(D, h)
    BY <2>0, <2>1, <2>3, <2>4, <2>5, <2>13, EnqueueOtherQueue
  <2> QED  BY <2>5, <2>7, <2>11, <2>12, <2>14 DEF OtherQueuesStay, s
<1> QED  BY <1>1, <1>2

----------------------------------------------------------------------------
(***************************************************************************)
(* The task system.                                                        *)
(***************************************************************************)

\* The rule the theorems need.  Without it await finds no other runnable task
\* to resume when the last one waits.
ForegroundNeverWaits == foreground \notin Waiters

\* What the C code around the virtual machine adds to the kernel's invariant.
Inv == TypeOK /\ KernelInv

(* The invariant holds when only the foreground exists. *)
LEMMA InitInv == Init => Inv
<1> SUFFICES ASSUME Init PROVE Inv
  OBVIOUS
<1>1. KernelInv
  BY ClientAssumption, KernelInitInv DEF Init
<1>2. TypeOK
  BY <1>1 DEF Init, TypeOK, KernelInv, Loops
<1> QED  BY <1>1, <1>2 DEF Inv

(* A task of the ring may change its status to any other that a task of    *)
(* the ring can have, and resume a live task of the ring.                  *)
LEMMA StatusKeeps ==
  ASSUME KernelInv, NEW u \in Tasks, home[u] = "run",
         NEW v \in Status \ {"READY", "TERMINATED"},
         status' = [status EXCEPT ![u] = v],
         tp' \in Tasks, home[tp'] = "run", running' \in BOOLEAN, tasking' \in BOOLEAN,
         UNCHANGED <<links, count, home>>
  PROVE  KernelInv'
<1>1. KernelTypeOK'
  BY DEF KernelInv, KernelTypeOK, Status
<1>2. StatusFitsHome'
  BY KernelAssumption DEF KernelInv, KernelTypeOK, StatusFitsHome, Status, Homes
<1> QED  BY <1>1, <1>2 DEF KernelInv, HeadersAtHome, RunnersLinked, NoLostSignal

(* delay, in the running task and for as long as it lasts. *)
LEMMA DelayKeeps ==
  ASSUME Inv, (\E n \in 0 .. MaxDelay : DelayStart(n)) \/ DelayStep PROVE Inv'
<1> USE DEF Inv
<1>0. /\ tp \in Tasks /\ home[tp] = "run" /\ running \in BOOLEAN /\ tasking \in BOOLEAN
      /\ status \in [Tasks -> Status] /\ doing \in [Tasks -> Loops] /\ MaxDelay \in Nat
  BY ClientAssumption DEF KernelInv, KernelTypeOK, RunnersLinked, TypeOK
<1>1. ASSUME NEW n \in 0 .. MaxDelay, DelayStart(n) PROVE Inv'
  <2> DEFINE st == [status EXCEPT ![tp] = "DELAYED"]
             next == links.succ[tp]
  <2>1. status' = st /\ Resume(next, st) /\ UNCHANGED <<links, tasking, count, home, fillVars>>
        /\ doing' = [doing EXCEPT ![tp] = [op |-> "delay", left |-> IF n = 0 THEN 1 ELSE n]]
    BY <1>1 DEF DelayStart, DetachIn
  <2>2. next \in Tasks /\ home[next] = "run" /\ st[next] # "TERMINATED"
    BY <1>0, NextIsTask
  <2> HIDE DEF st, next
  <2>3. tp' = next /\ running' \in BOOLEAN
    BY <1>0, <2>1, <2>2, ResumeTask
  <2>4. KernelInv'
    BY <1>0, <2>1, <2>2, <2>3, StatusKeeps DEF st, Status
  <2>5. doing' \in [Tasks -> Loops]
    BY <1>0, <2>1 DEF Loops
  <2> QED  BY <2>1, <2>4, <2>5 DEF TypeOK, KernelInv, fillVars
<1>2. CASE DelayStep
  <2>1. UNCHANGED <<links, tasking, count, home, fillVars>> /\ doing[tp].op = "delay"
    BY <1>2 DEF DelayStep
  <2>2. CASE /\ doing[tp].left > 1
             /\ doing' = [doing EXCEPT ![tp].left = @ - 1]
             /\ DetachIn(links, status)
             /\ UNCHANGED status
    <3>1. Detach
      BY <2>1, <2>2 DEF Detach
    <3>2. KernelInv'
      BY <3>1, DetachKeeps
    <3>3. doing[tp] \in [op : {"delay"}, left : 1 .. MaxDelay + 1]
      BY <1>0, <2>1 DEF Loops, NoLoop
    <3>4. [doing[tp] EXCEPT !.left = @ - 1] \in Loops
      BY <1>0, <2>2, <3>3 DEF Loops
    <3>5. doing' \in [Tasks -> Loops]
      BY <1>0, <2>2, <3>4
    <3> QED  BY <2>1, <3>2, <3>5 DEF TypeOK, KernelInv, fillVars
  <2>3. CASE /\ doing' = [doing EXCEPT ![tp] = NoLoop]
             /\ status' = [status EXCEPT ![tp] = "RUNNING"]
             /\ UNCHANGED <<tp, running>>
    <3>1. KernelInv'
      BY <1>0, <2>1, <2>3, StatusKeeps DEF Status
    <3>2. doing' \in [Tasks -> Loops]
      BY <1>0, <2>3 DEF Loops
    <3> QED  BY <2>1, <3>1, <3>2 DEF TypeOK, KernelInv, fillVars
  <2> QED  BY <1>2, <2>2, <2>3 DEF DelayStep
<1> QED  BY <1>1, <1>2

(* join, in the running task and for as long as the other task lives. *)
LEMMA JoinKeeps ==
  ASSUME Inv, (\E t \in Tasks : JoinStart(t)) \/ JoinStep PROVE Inv'
<1> USE DEF Inv
<1>0. /\ tp \in Tasks /\ home[tp] = "run" /\ running \in BOOLEAN /\ tasking \in BOOLEAN
      /\ status \in [Tasks -> Status] /\ doing \in [Tasks -> Loops]
  BY DEF KernelInv, KernelTypeOK, RunnersLinked, TypeOK
<1>1. ASSUME NEW t \in Tasks, JoinStart(t) PROVE Inv'
  <2>1. /\ status' = [status EXCEPT ![tp] = "WAITING"]
        /\ doing' = [doing EXCEPT ![tp] = [op |-> "join", task |-> t]]
        /\ UNCHANGED <<links, tp, running, tasking, count, home, fillVars>>
    BY <1>1 DEF JoinStart
  <2>2. KernelInv'
    BY <1>0, <2>1, StatusKeeps DEF Status
  <2>3. doing' \in [Tasks -> Loops]
    BY <1>0, <2>1 DEF Loops
  <2> QED  BY <2>1, <2>2, <2>3 DEF TypeOK, KernelInv, fillVars
<1>2. CASE JoinStep
  <2>1. UNCHANGED <<links, tasking, count, home, fillVars>>
    BY <1>2 DEF JoinStep
  <2>2. CASE DetachIn(links, status) /\ UNCHANGED <<status, doing>>
    <3>1. Detach
      BY <2>1, <2>2 DEF Detach
    <3>2. KernelInv'
      BY <3>1, DetachKeeps
    <3> QED  BY <2>1, <2>2, <3>2 DEF TypeOK, KernelInv, fillVars
  <2>3. CASE /\ doing' = [doing EXCEPT ![tp] = NoLoop]
             /\ status' = [status EXCEPT ![tp] = "RUNNING"]
             /\ UNCHANGED <<tp, running>>
    <3>1. KernelInv'
      BY <1>0, <2>1, <2>3, StatusKeeps DEF Status
    <3>2. doing' \in [Tasks -> Loops]
      BY <1>0, <2>3 DEF Loops
    <3> QED  BY <2>1, <3>1, <3>2 DEF TypeOK, KernelInv, fillVars
  <2> QED  BY <1>2, <2>2, <2>3 DEF JoinStep
<1> QED  BY <1>1, <1>2

(* Every word a task may call keeps the invariant. *)
LEMMA TaskStepKeeps == ASSUME ForegroundNeverWaits, Inv, TaskStep PROVE Inv'
<1>0. KernelInv /\ TypeOK
  BY DEF Inv
<1>1. ASSUME KernelInv', UNCHANGED_REST PROVE Inv'
  BY <1>0, <1>1 DEF Inv, TypeOK, UNCHANGED_REST, fillVars, KernelInv
<1>2. CASE DoDetach
  BY <1>0, <1>1, <1>2, DetachKeeps DEF DoDetach
<1>3. CASE DoTerminate
  BY <1>0, <1>1, <1>3, TerminateKeeps DEF DoTerminate
<1>4. ASSUME NEW t \in Tasks, DoMakeTask(t) PROVE Inv'
  BY <1>0, <1>1, <1>4, MakeTaskKeeps DEF DoMakeTask
<1>5. ASSUME NEW t \in Tasks, DoSchedule(t) PROVE Inv'
  BY <1>0, <1>1, <1>5, ScheduleKeeps DEF DoSchedule
<1>6. ASSUME NEW c \in Conditions, DoAwait(c) PROVE Inv'
  <2>1. c \in Headers /\ c \notin Semaphores /\ tp # foreground
    BY <1>6, KernelAssumption DEF Headers, DoAwait, ForegroundNeverWaits
  <2> QED  BY <1>0, <1>1, <1>6, <2>1, AwaitKeeps DEF DoAwait
<1>7. ASSUME NEW c \in Conditions, DoCause(c) PROVE Inv'
  BY <1>0, <1>1, <1>7, CauseKeeps DEF DoCause, Headers
<1>8. ASSUME NEW s \in Semaphores, DoWait(s) PROVE Inv'
  <2>1. tp # foreground
    BY <1>8 DEF DoWait, ForegroundNeverWaits
  <2> QED  BY <1>0, <1>1, <1>8, <2>1, WaitKeeps DEF DoWait
<1>9. ASSUME NEW s \in Semaphores, DoSignal(s) PROVE Inv'
  BY <1>0, <1>1, <1>9, SignalKeeps DEF DoSignal
<1>10. CASE (\E n \in 0 .. MaxDelay : DelayStart(n)) \/ DelayStep
  BY <1>10, DelayKeeps
<1>11. CASE (\E t \in Tasks : JoinStart(t)) \/ JoinStep
  BY <1>11, JoinKeeps
<1> QED  BY <1>2, <1>3, <1>4, <1>5, <1>6, <1>7, <1>8, <1>9, <1>10, <1>11 DEF TaskStep

(* The foreground's C code keeps the invariant, also where it resumes the  *)
(* foreground out of turn.                                                 *)
LEMMA InterpreterKeeps == ASSUME Inv, Interpreter PROVE Inv'
<1>0. /\ KernelInv /\ TypeOK
      /\ tp \in Tasks /\ home[tp] = "run" /\ running \in BOOLEAN /\ tasking \in BOOLEAN
      /\ foreground \in Tasks /\ home[foreground] = "run"
  BY KernelAssumption DEF Inv, KernelInv, KernelTypeOK, RunnersLinked
<1>1. ASSUME KernelInv', UNCHANGED doing,
             phase' \in {"interpret", "command", "fill"}, caller' \in {"interpret", "command"},
             nonblocking' \in BOOLEAN
      PROVE  Inv'
  BY <1>0, <1>1 DEF Inv, TypeOK, KernelInv
<1>2. CASE Command
  <2>1. KernelInv'
    BY <1>0, <1>2 DEF Command, KernelInv, KernelTypeOK, HeadersAtHome, StatusFitsHome,
                      RunnersLinked, NoLostSignal
  <2> QED  BY <1>0, <1>1, <1>2, <2>1 DEF Command, TypeOK
<1>3. CASE CommandLoop
  BY <1>0, <1>1, <1>3, EnterInnerKeeps DEF CommandLoop, UNCHANGED_REST, fillVars, TypeOK
<1>4. CASE CommandEnd
  <2>1. KernelInv'
    BY <1>0, <1>4 DEF CommandEnd, kernelVars, KernelInv, KernelTypeOK, HeadersAtHome,
                      StatusFitsHome, RunnersLinked, NoLostSignal
  <2> QED  BY <1>0, <1>1, <1>4, <2>1 DEF CommandEnd, TypeOK
<1>5. CASE FillStart
  <2>1. /\ phase' = "fill" /\ caller' = phase /\ phase \in {"interpret", "command"}
        /\ nonblocking' \in BOOLEAN
        /\ UNCHANGED <<links, tp, running, tasking, count, home, doing>>
    BY <1>5 DEF FillStart
  <2>2. status' = [status EXCEPT ![tp] = "IOWAITING"] \/ status' = status
    BY <1>5 DEF FillStart
  <2>3. KernelInv'
    <3>1. CASE status' = [status EXCEPT ![tp] = "IOWAITING"]
      BY <1>0, <2>1, <3>1, StatusKeeps DEF Status
    <3>2. CASE status' = status
      BY <1>0, <2>1, <3>2 DEF KernelInv, KernelTypeOK, HeadersAtHome, StatusFitsHome,
                              RunnersLinked, NoLostSignal
    <3> QED  BY <2>2, <3>1, <3>2
  <2> QED  BY <1>1, <2>1, <2>3
<1>6. CASE FillEnd
  <2>1. /\ phase' = caller
        /\ UNCHANGED <<links, tasking, count, home, caller, nonblocking, doing>>
    BY <1>6 DEF FillEnd
  <2>2. CASE Resume(foreground, status) /\ status' = [status EXCEPT ![tp'] = "RUNNING"]
    <3>1. status[foreground] # "TERMINATED"
      BY <1>0 DEF KernelInv, StatusFitsHome
    <3>2. tp' = foreground /\ running' \in BOOLEAN
      BY <1>0, <2>2, <3>1, ResumeTask
    <3>3. status' = [status EXCEPT ![foreground] = "RUNNING"]
      BY <2>2, <3>2
    <3>4. KernelInv'
      BY <1>0, <2>1, <3>2, <3>3, StatusKeeps DEF Status
    <3> QED  BY <1>0, <1>1, <2>1, <3>4 DEF TypeOK
  <2>3. CASE UNCHANGED <<tp, running, status>>
    <3>1. KernelInv'
      BY <1>0, <2>1, <2>3 DEF KernelInv, KernelTypeOK, HeadersAtHome, StatusFitsHome,
                              RunnersLinked, NoLostSignal
    <3> QED  BY <1>0, <1>1, <2>1, <3>1 DEF TypeOK
  <2> QED  BY <1>6, <2>2, <2>3 DEF FillEnd
<1>7. CASE FillDetach
  BY <1>0, <1>1, <1>7, DetachKeeps DEF FillDetach, UNCHANGED_REST, fillVars, TypeOK
<1>8. CASE FillInner
  <2>1. KernelInv'
    BY <1>0, <1>8 DEF FillInner, KernelInv, KernelTypeOK, HeadersAtHome, StatusFitsHome,
                      RunnersLinked, NoLostSignal
  <2> QED  BY <1>0, <1>1, <1>8, <2>1 DEF FillInner, fillVars, TypeOK
<1> QED  BY <1>2, <1>3, <1>4, <1>5, <1>6, <1>7, <1>8 DEF Interpreter

(* Every step keeps the invariant: a word of a task, the interpreter's C    *)
(* code, or nothing at all.                                                *)
LEMMA NextInv == ForegroundNeverWaits /\ Inv /\ [Next]_vars => Inv'
<1>1. CASE UNCHANGED vars
  BY <1>1 DEF vars, kernelVars, Inv, TypeOK, KernelInv, KernelTypeOK, HeadersAtHome,
              StatusFitsHome, RunnersLinked, NoLostSignal
<1> QED  BY <1>1, TaskStepKeeps, InterpreterKeeps DEF Next

(* The invariant holds in every state of every behaviour. *)
LEMMA InvInvariant == ASSUME ForegroundNeverWaits PROVE Spec => []Inv
<1>1. Inv /\ [Next]_vars => Inv'
  BY NextInv
<1> QED  BY <1>1, InitInv, PTL DEF Spec

(* Every variable of the task system keeps its type, whatever the tasks    *)
(* call: no counter of a semaphore goes below zero, no link is dangling.   *)
THEOREM TypeCorrect ==
  ASSUME ForegroundNeverWaits PROVE Spec => []TypeOK
<1>1. Inv => TypeOK
  BY DEF Inv
<1> QED  BY <1>1, InvInvariant, PTL

(* Rings, statuses and the running task stay as the kernel needs them at   *)
(* every switch: src/multi-tasking.v and lib/multi-tasking.f83.            *)
THEOREM TasksStayInPlace ==
  ASSUME ForegroundNeverWaits PROVE Spec => []TasksInPlace
<1>1. Inv => TasksInPlace
  BY DEF Inv, KernelInv, TasksInPlace
<1> QED  BY <1>1, InvInvariant, PTL

(* A semaphore whose counter is positive has no task waiting for it.       *)
THEOREM NoSignalIsLost ==
  ASSUME ForegroundNeverWaits PROVE Spec => []NoLostSignal
<1>1. Inv => NoLostSignal
  BY DEF Inv, KernelInv
<1> QED  BY <1>1, InvInvariant, PTL

(* The running task is never one that waits in a queue.                    *)
THEOREM WaitersDoNotRun ==
  ASSUME ForegroundNeverWaits PROVE Spec => []WaitingTaskDoesNotRun
<1>1. Inv => WaitingTaskDoesNotRun
  BY KernelAssumption DEF Inv, KernelInv, RunnersLinked, WaitingTaskDoesNotRun
<1> QED  BY <1>1, InvInvariant, PTL

(* The links from the running task lead to every task that was put into    *)
(* the ring of runnable tasks and has not left it, and to nothing else.    *)
THEOREM NoTaskIsLost ==
  ASSUME ForegroundNeverWaits PROVE Spec => []NoTaskLost
<1>1. ASSUME Inv PROVE NoTaskLost
  <2>1. /\ links \in Links /\ home \in [Nodes -> Homes] /\ WellLinked(links, home)
        /\ tp \in Nodes /\ home[tp] = "run"
    BY <1>1, KernelAssumption DEF Inv, KernelInv, KernelTypeOK, RunnersLinked
  <2> QED  BY <2>1, RingIsHome DEF NoTaskLost
<1> QED  BY <1>1, InvInvariant, PTL
----------------------------------------------------------------------------
(***************************************************************************)
(* The queues of the semaphores are queues of waiting tasks.               *)
(***************************************************************************)
\* No queue of a semaphore is touched, nor its counter.
SemaphoresStay ==
  /\ \A s \in Semaphores : ItemsOf(links', s) = ItemsOf(links, s)
  /\ count' = count

(* The words of a task that name no semaphore leave all of them alone. *)
LEMMA TaskStepStays ==
  ASSUME ForegroundNeverWaits, Inv, TaskStep,
         \A s \in Semaphores : ~ DoWait(s) /\ ~ DoSignal(s)
  PROVE  SemaphoresStay
<1>0. /\ KernelInv /\ \A s \in Semaphores : s \in Headers
      /\ \A c \in Conditions : c \in Headers /\ c \notin Semaphores
      /\ tp \notin Semaphores
  BY KernelAssumption DEF Inv, KernelInv, KernelTypeOK, Headers
<1>1. CASE DoDetach
  BY <1>1 DEF DoDetach, Detach, SemaphoresStay
<1>2. CASE DoTerminate
  <2>1. count' = count
    BY <1>2 DEF DoTerminate, Terminate
  <2> QED  BY <1>0, <1>2, <2>1, TerminateQueues DEF DoTerminate, OtherQueuesStay, SemaphoresStay
<1>3. ASSUME NEW t \in Tasks, DoMakeTask(t) PROVE SemaphoresStay
  <2>1. count' = count
    BY <1>3 DEF DoMakeTask, MakeTask
  <2> QED  BY <1>0, <1>3, <2>1, MakeTaskLinks DEF DoMakeTask, SemaphoresStay
<1>4. ASSUME NEW t \in Tasks, DoSchedule(t) PROVE SemaphoresStay
  <2>1. count' = count
    BY <1>4 DEF DoSchedule, Schedule
  <2> QED  BY <1>0, <1>4, <2>1, ScheduleQueues DEF DoSchedule, OtherQueuesStay, SemaphoresStay
<1>5. ASSUME NEW c \in Conditions, DoAwait(c) PROVE SemaphoresStay
  <2>1. count' = count
    BY <1>5 DEF DoAwait, Await
  <2> QED  BY <1>0, <1>5, <2>1, AwaitQueues DEF DoAwait, OtherQueuesStay, SemaphoresStay
<1>6. ASSUME NEW c \in Conditions, DoCause(c) PROVE SemaphoresStay
  <2>1. count' = count
    BY <1>6 DEF DoCause, Cause, Activate, kernelVars
  <2> QED  BY <1>0, <1>6, <2>1, CauseQueues DEF DoCause, OtherQueuesStay, SemaphoresStay
<1>7. ASSUME UNCHANGED <<links, count>> PROVE SemaphoresStay
  BY <1>7 DEF SemaphoresStay
<1>8. CASE DelayStep
  BY <1>7, <1>8 DEF DelayStep
<1>9. CASE JoinStep
  BY <1>7, <1>9 DEF JoinStep
<1>10. ASSUME NEW t \in Tasks, JoinStart(t) PROVE SemaphoresStay
  BY <1>7, <1>10 DEF JoinStart
<1>11. ASSUME NEW n \in 0 .. MaxDelay, DelayStart(n) PROVE SemaphoresStay
  BY <1>7, <1>11 DEF DelayStart
<1> QED  BY <1>1, <1>2, <1>3, <1>4, <1>5, <1>6, <1>8, <1>9, <1>10, <1>11 DEF TaskStep

(* The foreground's C code does not know semaphores. *)
LEMMA InterpreterStays == Interpreter => SemaphoresStay
<1> SUFFICES ASSUME Interpreter PROVE UNCHANGED <<links, count>>
  BY DEF SemaphoresStay
<1> QED  BY DEF Interpreter, Command, CommandLoop, EnterInner, CommandEnd, kernelVars,
               FillStart, FillEnd, FillDetach, Detach, FillInner

(* wait passes a counter above zero, or puts the task last into the queue. *)
LEMMA WaitIsAbstract ==
  ASSUME ForegroundNeverWaits, Inv, NEW s \in Semaphores, DoWait(s)
  PROVE  Abstract!Pass(s) \/ Abstract!Block(tp, s)
<1> DEFINE waiting == [r \in Semaphores |-> ItemsOf(links, r)]
<1>0. /\ KernelInv /\ s \in Headers /\ count \in [Semaphores -> Nat]
      /\ \A r \in Semaphores : r \in Headers
  BY DEF Inv, KernelInv, KernelTypeOK, Headers
<1>1. CASE count[s] = 0
  <2>1. Await(s)
    BY <1>1 DEF DoWait, Wait, WouldWait
  <2>2. ItemsOf(links', s) = Append(ItemsOf(links, s), tp) /\ OtherQueuesStay(s)
    BY <1>0, <2>1, AwaitQueues
  <2>3. waiting' = [waiting EXCEPT ![s] = Append(ItemsOf(links, s), tp)]
    BY <1>0, <2>2 DEF OtherQueuesStay
  <2>4. ASSUME NEW r \in Semaphores, NEW i \in DOMAIN ItemsOf(links, r)
        PROVE  ItemsOf(links, r)[i] # tp
    <3>1. /\ ItemsOf(links, r) \in Seq(Nodes)
          /\ \A j \in 1 .. Len(ItemsOf(links, r)) : home[ItemsOf(links, r)[j]] = r
      BY <1>0, QueueItems
    <3>2. home[ItemsOf(links, r)[i]] = r
      BY <3>1
    <3>3. home[tp] = "run" /\ r # "run"
      BY <1>0, KernelAssumption DEF KernelInv, RunnersLinked
    <3> QED  BY <3>2, <3>3
  <2>5. ~ Abstract!Waits(tp)
    BY <2>4 DEF Abstract!Waits
  <2>6. count' = count
    BY <2>1 DEF Await
  <2> QED  BY <1>1, <2>3, <2>5, <2>6 DEF Abstract!Block
<1>2. CASE count[s] # 0
  <2>1. /\ count' = [count EXCEPT ![s] = @ - 1] /\ links' = links /\ count[s] > 0
    BY <1>0, <1>2 DEF DoWait, Wait, WouldWait
  <2> QED  BY <2>1 DEF Abstract!Pass
<1> QED  BY <1>1, <1>2

(* signal lets the first waiting task go on, or counts. *)
LEMMA SignalIsAbstract ==
  ASSUME Inv, NEW s \in Semaphores, DoSignal(s)
  PROVE  Abstract!Wake(s) \/ Abstract!Count(s)
<1> DEFINE waiting == [r \in Semaphores |-> ItemsOf(links, r)]
<1>0. /\ KernelInv /\ s \in Headers /\ \A r \in Semaphores : r \in Headers
  BY DEF Inv, Headers
<1>1. CASE IsEmptyQueue(links, s)
  <2>1. Spells(links, s, ItemsOf(links, s))
    BY <1>0, QueueItems, ItemsSpell
  <2>2. ItemsOf(links, s) = << >>
    <3> DEFINE q == ItemsOf(links, s)
    <3>1. /\ q \in Seq(Nodes) /\ links.succ[s] = IF q = << >> THEN s ELSE q[1]
          /\ \A i \in 1 .. Len(q) : q[i] # s
      BY <2>1 DEF Spells
    <3>2. links.succ[s] = s
      BY <1>1 DEF IsEmptyQueue
    <3> HIDE DEF q
    <3>3. q # << >> => 1 \in 1 .. Len(q)
      BY <3>1
    <3>4. q = << >>
      BY <3>1, <3>2, <3>3
    <3> QED  BY <3>4 DEF q
  <2>3. count' = [count EXCEPT ![s] = @ + 1] /\ links' = links
    BY <1>1 DEF DoSignal, Signal
  <2> QED  BY <2>2, <2>3 DEF Abstract!Count
<1>2. CASE ~ IsEmptyQueue(links, s)
  <2>1. Cause(s)
    BY <1>2 DEF DoSignal, Signal
  <2>2. /\ OtherQueuesStay(s) /\ ItemsOf(links, s) # << >>
        /\ ItemsOf(links', s) = Tail(ItemsOf(links, s))
        /\ count' = count
    BY <1>0, <1>2, <2>1, CauseQueues
  <2>3. waiting' = [waiting EXCEPT ![s] = Tail(ItemsOf(links, s))]
    BY <1>0, <2>2 DEF OtherQueuesStay
  <2> QED  BY <2>2, <2>3 DEF Abstract!Wake
<1> QED  BY <1>1, <1>2

(* Counters and queues implement semaphores with first-come first-served   *)
(* waiting (lib/multi-tasking.f83: wait, signal): no step loses a signal   *)
(* or a waiter, or lets one overtake another.                              *)
THEOREM SemaphoresImplemented ==
  ASSUME ForegroundNeverWaits PROVE Spec => ImplementsSemaphores
<1> DEFINE waiting == [s \in Semaphores |-> ItemsOf(links, s)]
<1>1. Init => Abstract!Init
  <2> SUFFICES ASSUME Init PROVE Abstract!Init
    OBVIOUS
  <2>1. links = EmptyLinks /\ count = InitialCount
    BY DEF Init, KernelInit
  <2>2. ASSUME NEW s \in Semaphores PROVE ItemsOf(links, s) = << >>
    <3>1. s \in Nodes /\ links \in Links /\ Coherent(links)
      BY InitInv, QueueItems DEF Inv, Headers
    <3>2. links.succ[s] = s
      BY <2>1, <3>1 DEF EmptyLinks
    <3>3. Spells(links, s, << >>)
      BY <3>1, <3>2 DEF Spells
    <3> QED  BY <3>1, <3>3, SpellsUnique
  <2> QED  BY <2>1, <2>2 DEF Abstract!Init
<1>2. Inv /\ [Next]_vars => [Abstract!Next]_<<count, waiting>>
  <2> SUFFICES ASSUME Inv, [Next]_vars PROVE [Abstract!Next]_<<count, waiting>>
    OBVIOUS
  <2>1. ASSUME NEW s \in Semaphores, DoWait(s) PROVE Abstract!Next
    <3>1. tp \in Tasks
      BY DEF Inv, KernelInv, KernelTypeOK
    <3> QED  BY <2>1, <3>1, WaitIsAbstract DEF Abstract!Next
  <2>2. ASSUME NEW s \in Semaphores, DoSignal(s) PROVE Abstract!Next
    BY <2>2, SignalIsAbstract DEF Abstract!Next
  <2>3. ASSUME SemaphoresStay PROVE UNCHANGED <<count, waiting>>
    BY <2>3 DEF SemaphoresStay
  <2>4. CASE UNCHANGED vars
    BY <2>4 DEF vars, kernelVars
  <2> QED  BY <2>1, <2>2, <2>3, <2>4, TaskStepStays, InterpreterStays DEF Next
<1>3. Spec => []Inv
  BY InvInvariant
<1> QED  BY <1>1, <1>2, <1>3, PTL DEF Spec, ImplementsSemaphores, Abstract!Spec, Abstract!vars
----------------------------------------------------------------------------
(***************************************************************************)
(* Why a task has the status it has.                                       *)
(***************************************************************************)
\* A task that is not in the ring is in no loop of its own: it comes back to
\* the ring with the status RUNNING.
AbsentInNoLoop == \A t \in Tasks : home[t] # "run" => doing[t] = NoLoop

\* The foreground's C code runs between the words of the foreground, so that
\* the foreground is in no loop there, and takes the machine only from it.
InterpreterInNoLoop ==
  /\ phase = "interpret" => tp = foreground /\ ~ running /\ doing[foreground] = NoLoop
  /\ phase = "fill" => /\ doing[foreground] = NoLoop
                       /\ ~ nonblocking => tp = foreground
                       /\ caller = "interpret" /\ tp = foreground => ~ running
                       /\ caller = "command" => tasking
  /\ phase = "command" /\ ~ tasking
       => tp = foreground /\ ~ running /\ doing[foreground] = NoLoop

LoopInv == Inv /\ StatusExplained /\ AbsentInNoLoop /\ InterpreterInNoLoop

(* Nobody is in a loop when only the foreground exists. *)
LEMMA InitLoops == Init => LoopInv
<1> SUFFICES ASSUME Init PROVE LoopInv
  OBVIOUS
<1>1. \A t \in Tasks : doing[t] = NoLoop /\ status[t] \in {"RUNNING", "TERMINATED"}
  BY DEF Init, KernelInit
<1>2. StatusExplained
  BY <1>1 DEF StatusExplained, NoLoop
<1> QED  BY <1>1, <1>2, InitInv, KernelAssumption
         DEF LoopInv, AbsentInNoLoop, InterpreterInNoLoop, Init, KernelInit

(* A task that takes the machine, or hands it on, does not come between    *)
(* the foreground and its C code.                                          *)
LEMMA MachineStep ==
  ASSUME LoopInv, InMachine, UNCHANGED <<phase, caller, nonblocking, tasking>>,
         tp' \in Tasks,
         running' = IF tp' = tp THEN running ELSE FALSE,
         \A t \in Tasks \ {tp} : doing'[t] = doing[t]
  PROVE  InterpreterInNoLoop'
<1>1. running /\ (phase = "fill" => tp # foreground)
  BY DEF InMachine
<1>2. phase # "interpret" /\ (phase = "command" => tasking)
  BY <1>1 DEF LoopInv, InterpreterInNoLoop
<1>3. foreground \in Tasks
  BY KernelAssumption
<1>4. ASSUME phase = "fill" PROVE InterpreterInNoLoop'
  <2>1. doing'[foreground] = doing[foreground]
    BY <1>1, <1>3, <1>4
  <2> QED  BY <1>1, <1>4, <2>1 DEF LoopInv, InterpreterInNoLoop
<1> QED  BY <1>2, <1>4 DEF InterpreterInNoLoop, LoopInv, Inv, TypeOK

(* A step that concerns one task keeps its status explained. *)
LEMMA OneTask ==
  ASSUME LoopInv, NEW u \in Tasks,
         \A t \in Tasks \ {u} : /\ home'[t] = home[t] /\ status'[t] = status[t]
                                /\ doing'[t] = doing[t],
         home'[u] = "run" => /\ status'[u] = "DELAYED" <=> doing'[u].op = "delay"
                             /\ status'[u] = "WAITING" <=> doing'[u].op = "join",
         home'[u] # "run" => doing'[u] = NoLoop
  PROVE  StatusExplained' /\ AbsentInNoLoop'
<1>1. ASSUME NEW t \in Tasks, home'[t] = "run"
      PROVE  /\ status'[t] = "DELAYED" <=> doing'[t].op = "delay"
             /\ status'[t] = "WAITING" <=> doing'[t].op = "join"
  <2>1. CASE t = u
    BY <1>1, <2>1
  <2>2. CASE t # u
    BY <1>1, <2>2 DEF LoopInv, StatusExplained
  <2> QED  BY <2>1, <2>2
<1>2. ASSUME NEW t \in Tasks, home'[t] # "run" PROVE doing'[t] = NoLoop
  BY <1>2 DEF LoopInv, AbsentInNoLoop
<1> QED  BY <1>1, <1>2 DEF StatusExplained, AbsentInNoLoop

(* The words of the kernel, called by a task that is in no loop. *)
LEMMA WordLoops ==
  ASSUME ForegroundNeverWaits, LoopInv, Free, UNCHANGED_REST,
         \/ Detach \/ Terminate
         \/ \E t \in Tasks : MakeTask(t) \/ (status[t] = "READY" /\ Schedule(t))
         \/ \E c \in Conditions : tp \in Waiters /\ Await(c)
         \/ \E h \in Headers : Cause(h)
         \/ \E s \in Semaphores : tp \in Waiters /\ Wait(s)
         \/ \E s \in Semaphores : Signal(s)
  PROVE  StatusExplained' /\ AbsentInNoLoop' /\ (Inv' => InterpreterInNoLoop')
<1>0. /\ KernelInv /\ tp \in Tasks /\ home[tp] = "run" /\ foreground \in Tasks
      /\ doing[tp] = NoLoop /\ InMachine /\ running
      /\ home \in [Nodes -> Homes] /\ status \in [Tasks -> Status] /\ Tasks \subseteq Nodes
      /\ \A h \in Headers : h # "run" /\ h \notin Tasks
      /\ UNCHANGED <<phase, caller, nonblocking, doing>>
  BY KernelAssumption
     DEF LoopInv, Inv, KernelInv, KernelTypeOK, RunnersLinked, Free, InMachine,
         UNCHANGED_REST, fillVars
<1>1. ASSUME NEW t \in Tasks, doing[t] = NoLoop,
             home' = home \/ home' = [home EXCEPT ![t] = "run"],
             \A u \in Tasks \ {t} : status'[u] = status[u],
             status'[t] \notin {"DELAYED", "WAITING"}
      PROVE  StatusExplained' /\ AbsentInNoLoop'
  <2>1. \A u \in Tasks \ {t} : home'[u] = home[u]
    BY <1>0, <1>1
  <2> QED  BY <1>0, <1>1, <2>1, OneTask DEF NoLoop
<1>2. ASSUME UNCHANGED <<status, home>> PROVE StatusExplained' /\ AbsentInNoLoop'
  BY <1>0, <1>2 DEF LoopInv, StatusExplained, AbsentInNoLoop
<1>3. ASSUME running' = IF tp' = tp THEN running ELSE FALSE, UNCHANGED tasking
      PROVE  Inv' => InterpreterInNoLoop'
  <2> SUFFICES ASSUME Inv' PROVE InterpreterInNoLoop'
    OBVIOUS
  <2>1. tp' \in Tasks
    BY DEF Inv, KernelInv, KernelTypeOK
  <2> QED  BY <1>0, <1>3, <2>1, MachineStep
<1>4. CASE Detach
  <2>1. UNCHANGED <<status, home, tasking>>
    BY <1>4 DEF Detach
  <2> QED  BY <1>0, <1>2, <1>3, <1>4, <2>1, DetachKeeps
<1>5. CASE Terminate
  <2>1. CASE tp = foreground
    <3>1. UNCHANGED <<status, home, tp>> /\ running' = FALSE /\ tasking' = FALSE
      BY <1>5, <2>1 DEF Terminate
    <3>2. phase = "command"
      BY <1>0, <2>1 DEF LoopInv, Inv, TypeOK, InMachine, InterpreterInNoLoop
    <3> QED  BY <1>0, <1>2, <2>1, <3>1, <3>2 DEF InterpreterInNoLoop
  <2>2. CASE tp # foreground
    <3>1. /\ home' = [home EXCEPT ![tp] = "loose"] /\ tp' # tp /\ running' = FALSE
          /\ status' = [status EXCEPT ![tp] = "TERMINATED"]
      BY <1>0, <1>5, <2>2, TerminateKeeps
    <3>2. UNCHANGED tasking
      BY <1>5, <2>2 DEF Terminate
    <3>3. /\ \A u \in Tasks \ {tp} : home'[u] = home[u] /\ status'[u] = status[u]
          /\ home'[tp] = "loose" /\ doing'[tp] = NoLoop
      BY <1>0, <3>1
    <3> QED  BY <1>0, <1>3, <3>1, <3>2, <3>3, OneTask
  <2> QED  BY <2>1, <2>2
<1>6. ASSUME NEW t \in Tasks, MakeTask(t)
      PROVE  StatusExplained' /\ AbsentInNoLoop' /\ (Inv' => InterpreterInNoLoop')
  <2>1. home' = home
    BY <1>0, <1>6, MakeTaskLinks
  <2>2. /\ status' = [status EXCEPT ![t] = "READY"]
        /\ status[t] = "TERMINATED" /\ UNCHANGED <<tp, running, tasking>>
    BY <1>6 DEF MakeTask
  <2>3. home[t] = "loose"
    BY <1>0, <2>2 DEF KernelInv, StatusFitsHome
  <2>4. doing[t] = NoLoop
    BY <2>3 DEF LoopInv, AbsentInNoLoop
  <2> QED  BY <1>0, <1>1, <1>3, <2>1, <2>2, <2>4
<1>7. ASSUME NEW t \in Tasks, status[t] = "READY", Schedule(t)
      PROVE  StatusExplained' /\ AbsentInNoLoop' /\ (Inv' => InterpreterInNoLoop')
  <2>1. /\ t # tp /\ tp' = t /\ running' = FALSE
        /\ home' = [home EXCEPT ![t] = "run"]
        /\ status' = [status EXCEPT ![t] = "RUNNING"]
    BY <1>0, <1>7, ScheduleKeeps
  <2>2. home[t] = "loose" /\ UNCHANGED tasking
    BY <1>0, <1>7 DEF KernelInv, StatusFitsHome, Schedule
  <2>3. doing[t] = NoLoop
    BY <2>2 DEF LoopInv, AbsentInNoLoop
  <2> QED  BY <1>0, <1>1, <1>3, <2>1, <2>2, <2>3
<1>8. ASSUME NEW q \in Headers, tp \in Waiters, q \in Semaphores => count[q] = 0, Await(q)
      PROVE  StatusExplained' /\ AbsentInNoLoop' /\ (Inv' => InterpreterInNoLoop')
  <2>1. tp # foreground
    BY <1>8 DEF ForegroundNeverWaits
  <2>2. /\ tp' # tp /\ running' = FALSE
        /\ home' = [home EXCEPT ![tp] = q]
        /\ status' = [status EXCEPT ![tp] = "WAITING"]
    BY <1>0, <1>8, <2>1, AwaitKeeps
  <2>3. UNCHANGED tasking
    BY <1>8 DEF Await
  <2>4. /\ \A u \in Tasks \ {tp} : home'[u] = home[u] /\ status'[u] = status[u]
        /\ home'[tp] # "run" /\ doing'[tp] = NoLoop
    BY <1>0, <2>2
  <2> QED  BY <1>0, <1>3, <2>2, <2>3, <2>4, OneTask
<1>9. ASSUME NEW q \in Headers, Cause(q)
      PROVE  StatusExplained' /\ AbsentInNoLoop' /\ (Inv' => InterpreterInNoLoop')
  <2>1. CASE IsEmptyQueue(links, q)
    <3>1. UNCHANGED <<status, home, tp, running, tasking>>
      BY <1>9, <2>1 DEF Cause, kernelVars
    <3> QED  BY <1>2, <1>3, <3>1
  <2>2. CASE ~ IsEmptyQueue(links, q)
    <3>1. PICK t \in Tasks :
                /\ home[t] = q /\ t # tp /\ tp' = t /\ running' = FALSE
                /\ home' = [home EXCEPT ![t] = "run"]
                /\ status' = [status EXCEPT ![t] = "RUNNING"]
                /\ UNCHANGED tasking
      BY <1>0, <1>9, <2>2, CauseKeeps
    <3>2. doing[t] = NoLoop
      BY <1>0, <3>1 DEF LoopInv, AbsentInNoLoop
    <3> QED  BY <1>0, <1>1, <1>3, <3>1, <3>2
  <2> QED  BY <2>1, <2>2
<1>10. ASSUME NEW s \in Semaphores, tp \in Waiters, Wait(s)
       PROVE  StatusExplained' /\ AbsentInNoLoop' /\ (Inv' => InterpreterInNoLoop')
  <2>1. CASE WouldWait(s) /\ Await(s)
    BY <1>8, <1>10, <2>1 DEF WouldWait, Headers
  <2>2. CASE UNCHANGED <<links, status, tp, running, tasking, home>>
    BY <1>2, <1>3, <2>2
  <2> QED  BY <1>10, <2>1, <2>2 DEF Wait
<1>11. ASSUME NEW s \in Semaphores, Signal(s)
       PROVE  StatusExplained' /\ AbsentInNoLoop' /\ (Inv' => InterpreterInNoLoop')
  <2>1. CASE Cause(s)
    BY <1>9, <2>1 DEF Headers
  <2>2. CASE UNCHANGED <<links, status, tp, running, tasking, home>>
    BY <1>2, <1>3, <2>2
  <2> QED  BY <1>11, <2>1, <2>2 DEF Signal
<1>12. ASSUME NEW c \in Conditions, tp \in Waiters, Await(c)
       PROVE  StatusExplained' /\ AbsentInNoLoop' /\ (Inv' => InterpreterInNoLoop')
  BY <1>8, <1>12, KernelAssumption DEF Headers
<1> QED  BY <1>4, <1>5, <1>6, <1>7, <1>9, <1>10, <1>11, <1>12

(* delay and join: the status tells the loop, for as long as it lasts. *)
LEMMA LoopLoops ==
  ASSUME LoopInv, Inv',
         \/ \E n \in 0 .. MaxDelay : DelayStart(n)
         \/ DelayStep \/ JoinStep
         \/ \E t \in Tasks : JoinStart(t)
  PROVE  LoopInv'
<1>0. /\ KernelInv /\ tp \in Tasks /\ tp' \in Tasks /\ home[tp] = "run" /\ running \in BOOLEAN
      /\ status \in [Tasks -> Status] /\ doing \in [Tasks -> Loops]
  BY DEF LoopInv, Inv, TypeOK, KernelInv, KernelTypeOK, RunnersLinked
<1>1. InMachine /\ UNCHANGED <<phase, caller, nonblocking, tasking, home, links, count>>
  BY DEF DelayStart, DelayStep, JoinStart, JoinStep, Free, fillVars
<1>2. ASSUME NEW v, NEW d, status' = [status EXCEPT ![tp] = v], doing' = [doing EXCEPT ![tp] = d],
             v = "DELAYED" <=> d.op = "delay", v = "WAITING" <=> d.op = "join",
             running' = IF tp' = tp THEN running ELSE FALSE
      PROVE  LoopInv'
  <2>1. /\ \A t \in Tasks \ {tp} : /\ home'[t] = home[t] /\ status'[t] = status[t]
                                   /\ doing'[t] = doing[t]
        /\ home'[tp] = "run" /\ status'[tp] = v /\ doing'[tp] = d
    BY <1>0, <1>1, <1>2
  <2>2. StatusExplained' /\ AbsentInNoLoop'
    BY <1>0, <1>2, <2>1, OneTask
  <2>3. InterpreterInNoLoop'
    BY <1>0, <1>1, <1>2, <2>1, MachineStep
  <2> QED  BY <2>2, <2>3 DEF LoopInv
<1>3. /\ status[tp] = "DELAYED" <=> doing[tp].op = "delay"
      /\ status[tp] = "WAITING" <=> doing[tp].op = "join"
  BY <1>0 DEF LoopInv, StatusExplained
<1>4. ASSUME DetachIn(links, status), UNCHANGED status
      PROVE  running' = IF tp' = tp THEN running ELSE FALSE
  <2>1. Detach
    BY <1>1, <1>4 DEF Detach
  <2> QED  BY <1>0, <2>1, DetachKeeps
<1>5. ASSUME NEW n \in 0 .. MaxDelay, DelayStart(n) PROVE LoopInv'
  <2> DEFINE st == [status EXCEPT ![tp] = "DELAYED"]
  <2>1. /\ status' = st /\ Resume(links.succ[tp], st)
        /\ doing' = [doing EXCEPT ![tp] = [op |-> "delay", left |-> IF n = 0 THEN 1 ELSE n]]
    BY <1>5 DEF DelayStart, DetachIn
  <2>2. PICK x \in Tasks : x = links.succ[tp] /\ st[x] # "TERMINATED"
    BY <1>0, NextIsTask
  <2> HIDE DEF st
  <2>3. running' = IF tp' = tp THEN running ELSE FALSE
    BY <1>0, <2>1, <2>2, ResumeTask
  <2>4. PICK d : d = [op |-> "delay", left |-> IF n = 0 THEN 1 ELSE n]
    OBVIOUS
  <2>5. d.op = "delay" /\ status' = [status EXCEPT ![tp] = "DELAYED"]
        /\ doing' = [doing EXCEPT ![tp] = d]
    BY <2>1, <2>4 DEF st
  <2> QED  BY <1>2, <2>3, <2>5
<1>6. CASE DelayStep
  <2>1. doing[tp].op = "delay"
    BY <1>6 DEF DelayStep
  <2>2. CASE /\ doing' = [doing EXCEPT ![tp].left = @ - 1]
             /\ DetachIn(links, status) /\ UNCHANGED status
    <3>1. PICK d : d = [doing[tp] EXCEPT !.left = @ - 1]
      OBVIOUS
    <3>2. doing[tp] \in [op : {"delay"}, left : 1 .. MaxDelay + 1]
      BY <1>0, <2>1 DEF Loops, NoLoop
    <3>3. d.op = "delay"
      BY <3>1, <3>2
    <3>4. doing' = [doing EXCEPT ![tp] = d] /\ status' = [status EXCEPT ![tp] = "DELAYED"]
      BY <1>0, <1>3, <2>1, <2>2, <3>1
    <3>5. running' = IF tp' = tp THEN running ELSE FALSE
      BY <1>4, <2>2
    <3> QED  BY <1>2, <3>3, <3>4, <3>5
  <2>3. CASE /\ doing' = [doing EXCEPT ![tp] = NoLoop]
             /\ status' = [status EXCEPT ![tp] = "RUNNING"]
             /\ UNCHANGED <<tp, running>>
    BY <1>2, <2>3 DEF NoLoop
  <2> QED  BY <1>6, <2>2, <2>3 DEF DelayStep
<1>7. ASSUME NEW t \in Tasks, JoinStart(t) PROVE LoopInv'
  <2>1. /\ status' = [status EXCEPT ![tp] = "WAITING"]
        /\ doing' = [doing EXCEPT ![tp] = [op |-> "join", task |-> t]]
        /\ UNCHANGED <<tp, running>>
    BY <1>7 DEF JoinStart
  <2> QED  BY <1>2, <2>1
<1>8. CASE JoinStep
  <2>1. CASE DetachIn(links, status) /\ UNCHANGED <<status, doing>>
    <3>1. StatusExplained' /\ AbsentInNoLoop'
      BY <1>1, <2>1 DEF LoopInv, StatusExplained, AbsentInNoLoop
    <3>2. running' = IF tp' = tp THEN running ELSE FALSE
      BY <1>4, <2>1
    <3>3. InterpreterInNoLoop'
      BY <1>0, <1>1, <2>1, <3>2, MachineStep
    <3> QED  BY <3>1, <3>3 DEF LoopInv
  <2>2. CASE /\ doing' = [doing EXCEPT ![tp] = NoLoop]
             /\ status' = [status EXCEPT ![tp] = "RUNNING"]
             /\ UNCHANGED <<tp, running>>
    BY <1>2, <2>2 DEF NoLoop
  <2> QED  BY <1>8, <2>1, <2>2 DEF JoinStep
<1> QED  BY <1>5, <1>6, <1>7, <1>8

(* The foreground's C code changes only the status of the foreground, and  *)
(* that only while the foreground is in no loop.                           *)
LEMMA InterpreterLoops == ASSUME LoopInv, Inv', Interpreter PROVE LoopInv'
<1>0. /\ KernelInv /\ tp \in Tasks /\ running \in BOOLEAN /\ tasking \in BOOLEAN
      /\ foreground \in Tasks /\ home[foreground] = "run"
      /\ status \in [Tasks -> Status] /\ status[foreground] # "TERMINATED"
      /\ phase \in {"interpret", "command", "fill"} /\ caller \in {"interpret", "command"}
  BY KernelAssumption
     DEF LoopInv, Inv, TypeOK, KernelInv, KernelTypeOK, RunnersLinked, StatusFitsHome
<1>1. UNCHANGED <<home, doing>>
  BY DEF Interpreter, Command, CommandLoop, EnterInner, CommandEnd, kernelVars, UNCHANGED_REST,
         FillStart, FillEnd, FillDetach, Detach, FillInner
<1>2. ASSUME UNCHANGED status PROVE StatusExplained' /\ AbsentInNoLoop'
  BY <1>1, <1>2 DEF LoopInv, StatusExplained, AbsentInNoLoop
<1>3. ASSUME NEW v \in {"IOWAITING", "RUNNING"}, status' = [status EXCEPT ![foreground] = v],
             doing[foreground] = NoLoop
      PROVE  StatusExplained' /\ AbsentInNoLoop'
  <2>1. /\ \A t \in Tasks \ {foreground} : /\ home'[t] = home[t] /\ status'[t] = status[t]
                                           /\ doing'[t] = doing[t]
        /\ home'[foreground] = "run" /\ status'[foreground] = v /\ doing'[foreground] = NoLoop
    BY <1>0, <1>1, <1>3
  <2> QED  BY <1>0, <1>3, <2>1, OneTask DEF NoLoop
<1>4. CASE Command
  BY <1>0, <1>2, <1>4 DEF Command, LoopInv, InterpreterInNoLoop
<1>5. CASE CommandLoop
  BY <1>0, <1>2, <1>5 DEF CommandLoop, EnterInner, UNCHANGED_REST, fillVars, LoopInv,
                          InterpreterInNoLoop
<1>6. CASE CommandEnd
  BY <1>0, <1>2, <1>6 DEF CommandEnd, kernelVars, LoopInv, InterpreterInNoLoop
<1>7. CASE FillStart
  <2>1. /\ phase = "interpret" \/ (phase = "command" /\ Free /\ tp = foreground)
        /\ phase' = "fill" /\ caller' = phase /\ UNCHANGED <<tp, running, tasking, doing>>
        /\ nonblocking' \in BOOLEAN
    BY <1>7 DEF FillStart
  <2>2. tp = foreground /\ doing[foreground] = NoLoop
    BY <2>1 DEF LoopInv, InterpreterInNoLoop, Free
  <2>3. phase = "command" => tasking
    BY <2>1 DEF LoopInv, InterpreterInNoLoop, Free, InMachine
  <2>4. status' = [status EXCEPT ![foreground] = "IOWAITING"] \/ UNCHANGED status
    BY <1>7, <2>2 DEF FillStart
  <2>5. InterpreterInNoLoop'
    BY <1>0, <2>1, <2>2, <2>3 DEF LoopInv, InterpreterInNoLoop
  <2> QED  BY <1>2, <1>3, <2>2, <2>4, <2>5 DEF LoopInv
<1>8. CASE FillEnd
  <2>1. /\ phase = "fill" /\ phase' = caller
        /\ UNCHANGED <<tasking, caller, nonblocking, doing>>
    BY <1>8 DEF FillEnd, Polling
  <2>2. CASE Resume(foreground, status) /\ status' = [status EXCEPT ![tp'] = "RUNNING"]
    <3>1. tp' = foreground /\ running' = IF foreground = tp THEN running ELSE FALSE
      BY <1>0, <2>2, ResumeTask
    <3>2. InterpreterInNoLoop'
      BY <1>0, <2>1, <3>1 DEF LoopInv, InterpreterInNoLoop
    <3> QED  BY <1>3, <2>1, <2>2, <3>1, <3>2 DEF LoopInv, InterpreterInNoLoop
  <2>3. CASE ~ Sharing /\ UNCHANGED <<tp, running, status>>
    <3>1. tp = foreground
      BY <2>1, <2>3 DEF Sharing, LoopInv, InterpreterInNoLoop
    <3>2. InterpreterInNoLoop'
      BY <1>0, <2>1, <2>3, <3>1 DEF LoopInv, InterpreterInNoLoop
    <3> QED  BY <1>2, <2>3, <3>2 DEF LoopInv
  <2> QED  BY <1>8, <2>2, <2>3 DEF FillEnd
<1>9. CASE FillDetach
  <2>1. /\ phase = "fill" /\ Sharing /\ tp = foreground /\ Detach
        /\ UNCHANGED <<phase, caller, nonblocking, doing, tasking, status>>
    BY <1>9 DEF FillDetach, Polling, UNCHANGED_REST, fillVars, Detach
  <2>2. running' = IF tp' = tp THEN running ELSE FALSE
    BY <1>0, <2>1, DetachKeeps
  <2>3. InterpreterInNoLoop'
    BY <1>0, <2>1, <2>2 DEF Sharing, LoopInv, InterpreterInNoLoop
  <2> QED  BY <1>2, <2>1, <2>3 DEF LoopInv
<1>10. CASE FillInner
  BY <1>0, <1>2, <1>10 DEF FillInner, Polling, fillVars, LoopInv, InterpreterInNoLoop
<1> QED  BY <1>4, <1>5, <1>6, <1>7, <1>8, <1>9, <1>10 DEF Interpreter

(* A task of the ring is DELAYED only inside delay and WAITING only inside *)
(* join (lib/multi-tasking.f83), however it came to run.                   *)
THEOREM StatusIsExplained ==
  ASSUME ForegroundNeverWaits PROVE Spec => []StatusExplained
<1>1. ASSUME LoopInv, [Next]_vars PROVE LoopInv'
  <2>0. Inv'
    BY <1>1, NextInv DEF LoopInv
  <2>1. CASE TaskStep
    <3>1. CASE \/ \E n \in 0 .. MaxDelay : DelayStart(n)
               \/ DelayStep \/ JoinStep
               \/ \E t \in Tasks : JoinStart(t)
      BY <1>1, <2>0, <3>1, LoopLoops
    <3>2. CASE \/ DoDetach \/ DoTerminate
               \/ \E t \in Tasks : DoMakeTask(t) \/ DoSchedule(t)
               \/ \E c \in Conditions : DoAwait(c) \/ DoCause(c)
               \/ \E s \in Semaphores : DoWait(s) \/ DoSignal(s)
      <4>1. /\ Free /\ UNCHANGED_REST
            /\ \/ Detach \/ Terminate
               \/ \E t \in Tasks : MakeTask(t) \/ (status[t] = "READY" /\ Schedule(t))
               \/ \E c \in Conditions : tp \in Waiters /\ Await(c)
               \/ \E h \in Headers : Cause(h)
               \/ \E s \in Semaphores : tp \in Waiters /\ Wait(s)
               \/ \E s \in Semaphores : Signal(s)
        BY <3>2 DEF DoDetach, DoTerminate, DoMakeTask, DoSchedule, DoAwait, DoCause, DoWait,
                    DoSignal, Headers
      <4> QED  BY <1>1, <2>0, <4>1, WordLoops DEF LoopInv
    <3> QED  BY <2>1, <3>1, <3>2 DEF TaskStep
  <2>2. CASE Interpreter
    BY <1>1, <2>0, <2>2, InterpreterLoops
  <2>3. CASE UNCHANGED vars
    BY <1>1, <2>0, <2>3 DEF vars, kernelVars, LoopInv, StatusExplained, AbsentInNoLoop,
                            InterpreterInNoLoop
  <2> QED  BY <1>1, <2>1, <2>2, <2>3 DEF Next
<1>2. LoopInv => StatusExplained
  BY DEF LoopInv
<1> QED  BY <1>1, <1>2, InitLoops, PTL DEF Spec
============================================================================
