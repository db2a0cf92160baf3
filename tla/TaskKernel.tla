---------------------------- MODULE TaskKernel ----------------------------
(***************************************************************************)
(* The multi-tasking kernel of src/multi-tasking.v and the synchronization *)
(* words lib/multi-tasking.f83 builds on it, as operations of the running  *)
(* task.  Tasks are not time-shared: the task in tp keeps the virtual      *)
(* machine until one of its own operations resumes another task, so every  *)
(* operator below is one uninterrupted stretch of code, up to and          *)
(* including the switch.                                                   *)
(*                                                                         *)
(* Runnable tasks form a ring that has no header: a task's successor is    *)
(* the next one to be resumed.  Waiting tasks are linked in the queue of a *)
(* condition variable or of a semaphore.                                   *)
(***************************************************************************)
EXTENDS QueueLinks, Integers

CONSTANTS Tasks,
          foreground,    \* the task of the interpreter
          Conditions,    \* addresses of plain condition variables
          Semaphores     \* addresses of semaphores, each with its condition

VARIABLES links,         \* queue field of every task and of every condition
          status,        \* status field of every task
          tp,            \* the running task
          running,       \* cleared to make the virtual machine's loop return
          tasking,       \* cleared when the foreground is through
          count,         \* counter of every semaphore
          home           \* history: the ring every node was last put into

kernelVars == <<links, status, tp, running, tasking, count, home>>

Headers == Conditions \cup Semaphores
Background == Tasks \ {foreground}

ASSUME KernelAssumption == /\ foreground \in Tasks
                           /\ Conditions \cap Semaphores = {}
                           /\ Tasks \cap Headers = {}
                           /\ Nodes = Tasks \cup Headers
                           /\ "run" \notin Nodes /\ "loose" \notin Nodes

Status == {"TERMINATED", "READY", "RUNNING", "IOWAITING", "WAITING", "DELAYED"}

\* A node is in the ring of runnable tasks, in the queue of a header, or in none.
Homes == {"run", "loose"} \cup Headers

KernelTypeOK == /\ links \in Links
                /\ status \in [Tasks -> Status]
                /\ tp \in Tasks
                /\ running \in BOOLEAN /\ tasking \in BOOLEAN
                /\ count \in [Semaphores -> Nat]
                /\ home \in [Nodes -> Homes]

\* kernel_initiate, and the struct.init of every condition and semaphore.  A
\* task that is not allocated is TERMINATED here until make_task returns it.
KernelInit(initial) ==
  /\ links = EmptyLinks
  /\ status = [t \in Tasks |-> IF t = foreground THEN "RUNNING" ELSE "TERMINATED"]
  /\ tp = foreground
  /\ running = FALSE /\ tasking = FALSE
  /\ count = initial
  /\ home = [n \in Nodes |-> IF n \in Headers THEN n
                             ELSE IF n = foreground THEN "run" ELSE "loose"]

(***************************************************************************)
(* resume ( task -- ) tests the status word of its parameter.  Where a     *)
(* header is taken for a task that word is what lies behind the header: a  *)
(* semaphore's counter, and for a plain condition anything.                *)
(***************************************************************************)
StatusWordSet(x, st) == CASE x \in Tasks      -> {st[x] # "TERMINATED"}
                          [] x \in Semaphores -> {count[x] # 0}
                          [] OTHER            -> BOOLEAN

Resume(x, st) ==
  \E alive \in StatusWordSet(x, st) :
    IF alive /\ x # tp THEN tp' = x /\ running' = FALSE
                       ELSE UNCHANGED <<tp, running>>

\* detach, in the middle of an operation that has changed links and status.
DetachIn(L, st) == Resume(L.succ[tp], st)

Detach == DetachIn(links, status) /\ UNCHANGED <<links, status, tasking, count, home>>

\* task: a new task object, or a terminated one that was freed, is READY.
MakeTask(t) ==
  /\ t # foreground /\ status[t] = "TERMINATED"
  /\ status' = [status EXCEPT ![t] = "READY"]
  /\ links' = [succ |-> [links.succ EXCEPT ![t] = t],
               pred |-> [links.pred EXCEPT ![t] = t]]
  /\ home' = [home EXCEPT ![t] = "loose"]
  /\ UNCHANGED <<tp, running, tasking, count>>

\* schedule ( task -- ): the status is set after the switch, of whichever
\* task is then running.
Schedule(t) ==
  LET q == links.succ[tp]
      L == Enqueue(links, t, q)
  IN  /\ links' = L
      /\ home' = [home EXCEPT ![t] = home[q]]
      /\ DetachIn(L, status)
      /\ status' = [status EXCEPT ![tp'] = "RUNNING"]
      /\ UNCHANGED <<tasking, count>>

\* Mutant of terminate: the task is unlinked before it looks for the next one.
TerminateUnlinkedFirst ==
  /\ LET L == Dequeue(links, tp) IN links' = L /\ DetachIn(L, status)
  /\ status' = [status EXCEPT ![tp] = "TERMINATED"]
  /\ home' = [home EXCEPT ![tp] = "loose"]
  /\ UNCHANGED <<tasking, count>>

\* terminate: the foreground only leaves the virtual machine; any other task
\* resumes the next one before it is unlinked.
Terminate ==
  \/ /\ tp = foreground
     /\ running' = FALSE /\ tasking' = FALSE
     /\ UNCHANGED <<links, status, tp, count, home>>
  \/ /\ tp # foreground
     /\ DetachIn(links, status)
     /\ status' = [status EXCEPT ![tp] = "TERMINATED"]
     /\ links' = Dequeue(links, tp)
     /\ home' = [home EXCEPT ![tp] = "loose"]
     /\ UNCHANGED <<tasking, count>>

\* Mutant of deactivate: the task is not taken out of the ring it is in.
AwaitStillLinked(q) ==
  LET st == [status EXCEPT ![tp] = "WAITING"]
  IN  /\ links' = Enqueue(links, tp, q)
      /\ status' = st
      /\ home' = [home EXCEPT ![tp] = home[q]]
      /\ Resume(links.succ[tp], st)
      /\ UNCHANGED <<tasking, count>>

\* deactivate ( queue task -- ) of the running task, as await calls it: the
\* next runnable task is looked up before the task leaves its ring.
Await(q) ==
  LET st   == [status EXCEPT ![tp] = "WAITING"]
      next == links.succ[tp]
  IN  /\ links' = Enqueue(Dequeue(links, tp), tp, q)
      /\ status' = st
      /\ home' = [home EXCEPT ![tp] = home[q]]
      /\ Resume(next, st)
      /\ UNCHANGED <<tasking, count>>

\* activate ( task -- ) in the middle of cause, which has taken the task out of
\* its queue: it is put right after the running one, and resumed.
Activate(L1, t) ==
  LET n  == L1.succ[tp]
      L2 == Enqueue(L1, t, n)
      st == [status EXCEPT ![t] = "RUNNING"]
  IN  /\ links' = L2
      /\ status' = st
      /\ home' = [home EXCEPT ![t] = home[n]]
      /\ DetachIn(L2, st)
      /\ UNCHANGED <<tasking, count>>

\* Mutant of cause: the task that came last is the one to go on.
CauseLast(q) ==
  IF IsEmptyQueue(links, q) THEN UNCHANGED kernelVars
  ELSE LET t == links.pred[q] IN Activate(Dequeue(links, t), t)

\* cause ( condition -- ): the first waiting task goes on, if there is one.
Cause(q) ==
  \/ /\ IsEmptyQueue(links, q)
     /\ UNCHANGED kernelVars
  \/ /\ ~ IsEmptyQueue(links, q)
     /\ LET t == links.succ[q] IN Activate(Dequeue(links, t), t)

\* Mutant of signal: it counts without looking for a waiting task.
SignalOnlyCounts(s) == /\ count' = [count EXCEPT ![s] = @ + 1]
                       /\ UNCHANGED <<links, status, tp, running, tasking, home>>

\* signal ( semaphore -- ): with a task waiting the counter stays as it is.
Signal(s) ==
  \/ /\ IsEmptyQueue(links, s)
     /\ count' = [count EXCEPT ![s] = @ + 1]
     /\ UNCHANGED <<links, status, tp, running, tasking, home>>
  \/ ~ IsEmptyQueue(links, s) /\ Cause(s)

\* ?wait ( semaphore -- bool)
WouldWait(s) == count[s] = 0

\* Mutant of wait: the counter is decremented whatever it is.
WaitUnchecked(s) == /\ count' = [count EXCEPT ![s] = @ - 1]
                    /\ UNCHANGED <<links, status, tp, running, tasking, home>>

\* wait ( semaphore -- ): the counter is not looked at again after waiting.
Wait(s) ==
  \/ WouldWait(s) /\ Await(s)
  \/ /\ ~ WouldWait(s)
     /\ count' = [count EXCEPT ![s] = @ - 1]
     /\ UNCHANGED <<links, status, tp, running, tasking, home>>

\* docommand calls doinner again after each switch, until tasking is cleared.
EnterInner == /\ tasking /\ ~ running
              /\ running' = TRUE
              /\ UNCHANGED <<links, status, tp, tasking, count, home>>
----------------------------------------------------------------------------
(***************************************************************************)
(* The parts of the kernel's invariant.                                    *)
(***************************************************************************)
\* The nodes of one home, and only they, form one ring: links lead to nodes of
\* the same home, a set of them that no link leaves is all of them, and a node
\* without a home points to itself.
WellLinked(L, H) ==
  /\ Coherent(L)
  /\ \A n \in Nodes : H[L.succ[n]] = H[n]
  /\ \A n \in Nodes : H[n] = "loose" => Isolated(L, n)
  /\ \A S \in SUBSET Nodes : \A m \in S, n \in Nodes :
       /\ \A k \in S : H[k] = H[m] /\ L.succ[k] \in S
       /\ H[n] = H[m] /\ H[m] # "loose"
       => n \in S

HeadersAtHome == \A h \in Headers : home[h] = h

\* Who is where: a task that was never scheduled or has terminated is in no
\* ring, a task in the queue of a condition is WAITING.
StatusFitsHome ==
  \A t \in Tasks :
    /\ (status[t] \in {"READY", "TERMINATED"}) <=> (home[t] = "loose")
    /\ home[t] \in Headers => status[t] = "WAITING"

\* The running task and the foreground are in the ring of runnable tasks.
RunnersLinked == home[tp] = "run" /\ home[foreground] = "run"

\* A semaphore that could be taken has no task waiting for it.
NoLostSignal == \A s \in Semaphores : count[s] > 0 => IsEmptyQueue(links, s)
============================================================================
