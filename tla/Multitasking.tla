--------------------------- MODULE Multitasking ---------------------------
(***************************************************************************)
(* The whole task system: the interpreter of the foreground task (src/     *)
(* kernel.c, docommand and doinner; src/io.c, io_fillbuf) and any number   *)
(* of tasks that call the words of the kernel in any order a program may.  *)
(***************************************************************************)
EXTENDS TaskKernel

CONSTANTS Waiters,       \* the tasks that call await or wait
          InitialCount,  \* what each semaphore is initiated with
          MaxCount,      \* bound on a semaphore's counter
          MaxDelay       \* bound on the parameter of delay

ASSUME ClientAssumption == /\ Waiters \subseteq Tasks
                           /\ InitialCount \in [Semaphores -> Nat]
                           /\ MaxCount \in Nat /\ MaxDelay \in Nat

VARIABLES phase,         \* where the foreground's C code is
          caller,        \* the phase io_fillbuf returns to
          nonblocking,   \* io_fillbuf: other tasks run while it waits
          doing          \* the loop each task is in: delay, join or none

vars == <<kernelVars, phase, caller, nonblocking, doing>>

NoLoop == [op |-> "none"]
Loops == {NoLoop} \cup [op : {"delay"}, left : 1 .. MaxDelay + 1]
                  \cup [op : {"join"}, task : Tasks]

TypeOK == /\ KernelTypeOK
          /\ phase \in {"interpret", "command", "fill"}
          /\ caller \in {"interpret", "command"}
          /\ nonblocking \in BOOLEAN
          /\ doing \in [Tasks -> Loops]

Init == /\ KernelInit(InitialCount)
        /\ phase = "interpret" /\ caller = "interpret"
        /\ nonblocking = FALSE
        /\ doing = [t \in Tasks |-> NoLoop]

fillVars == <<phase, caller, nonblocking>>
----------------------------------------------------------------------------
(***************************************************************************)
(* The operations of the running task, inside the virtual machine.         *)
(***************************************************************************)
InMachine == running /\ tp \in Tasks /\ ~ (phase = "fill" /\ tp = foreground)
Free == InMachine /\ doing[tp] = NoLoop
UNCHANGED_REST == UNCHANGED <<fillVars, doing>>

DoDetach == Free /\ Detach /\ UNCHANGED_REST
DoMakeTask(t) == /\ Free /\ \A u \in Tasks : doing[u] # [op |-> "join", task |-> t]
                 /\ MakeTask(t) /\ UNCHANGED_REST
DoSchedule(t) == Free /\ status[t] = "READY" /\ Schedule(t) /\ UNCHANGED_REST
DoTerminate == Free /\ Terminate /\ UNCHANGED_REST
DoAwait(c) == Free /\ tp \in Waiters /\ Await(c) /\ UNCHANGED_REST
DoCause(c) == Free /\ Cause(c) /\ UNCHANGED_REST
DoWait(s) == Free /\ tp \in Waiters /\ Wait(s) /\ UNCHANGED_REST
DoSignal(s) == /\ Free /\ (count[s] < MaxCount \/ ~ IsEmptyQueue(links, s))
               /\ Signal(s) /\ UNCHANGED_REST

\* delay ( n -- ): a do loop detaches at least once.
DelayStart(n) ==
  /\ Free
  /\ LET st == [status EXCEPT ![tp] = "DELAYED"]
     IN  status' = st /\ DetachIn(links, st)
  /\ doing' = [doing EXCEPT ![tp] = [op |-> "delay", left |-> IF n = 0 THEN 1 ELSE n]]
  /\ UNCHANGED <<links, tasking, count, home, fillVars>>

\* Mutant of delay: the status is not set back.
DelayStepNoReset ==
  /\ InMachine /\ doing[tp].op = "delay"
  /\ \/ /\ doing[tp].left > 1
        /\ doing' = [doing EXCEPT ![tp].left = @ - 1]
        /\ DetachIn(links, status)
     \/ /\ doing[tp].left = 1
        /\ doing' = [doing EXCEPT ![tp] = NoLoop]
        /\ UNCHANGED <<tp, running>>
  /\ UNCHANGED <<links, status, tasking, count, home, fillVars>>

DelayStep ==
  /\ InMachine /\ doing[tp].op = "delay"
  /\ \/ /\ doing[tp].left > 1
        /\ doing' = [doing EXCEPT ![tp].left = @ - 1]
        /\ DetachIn(links, status)
        /\ UNCHANGED status
     \/ /\ doing[tp].left = 1
        /\ doing' = [doing EXCEPT ![tp] = NoLoop]
        /\ status' = [status EXCEPT ![tp] = "RUNNING"]
        /\ UNCHANGED <<tp, running>>
  /\ UNCHANGED <<links, tasking, count, home, fillVars>>

\* join ( task -- ): the status of the other task is polled at every turn.
JoinStart(t) ==
  /\ Free
  /\ status' = [status EXCEPT ![tp] = "WAITING"]
  /\ doing' = [doing EXCEPT ![tp] = [op |-> "join", task |-> t]]
  /\ UNCHANGED <<links, tp, running, tasking, count, home, fillVars>>

\* Mutants of join: the loop does not detach; its condition is inverted.
JoinStepBusy ==
  /\ InMachine /\ doing[tp].op = "join"
  /\ status[doing[tp].task] = "TERMINATED"
  /\ doing' = [doing EXCEPT ![tp] = NoLoop]
  /\ status' = [status EXCEPT ![tp] = "RUNNING"]
  /\ UNCHANGED <<links, tp, running, tasking, count, home, fillVars>>
JoinStepInverted ==
  /\ InMachine /\ doing[tp].op = "join"
  /\ \/ /\ status[doing[tp].task] = "TERMINATED"
        /\ DetachIn(links, status)
        /\ UNCHANGED <<status, doing>>
     \/ /\ status[doing[tp].task] # "TERMINATED"
        /\ doing' = [doing EXCEPT ![tp] = NoLoop]
        /\ status' = [status EXCEPT ![tp] = "RUNNING"]
        /\ UNCHANGED <<tp, running>>
  /\ UNCHANGED <<links, tasking, count, home, fillVars>>

JoinStep ==
  /\ InMachine /\ doing[tp].op = "join"
  /\ \/ /\ status[doing[tp].task] # "TERMINATED"
        /\ DetachIn(links, status)
        /\ UNCHANGED <<status, doing>>
     \/ /\ status[doing[tp].task] = "TERMINATED"
        /\ doing' = [doing EXCEPT ![tp] = NoLoop]
        /\ status' = [status EXCEPT ![tp] = "RUNNING"]
        /\ UNCHANGED <<tp, running>>
  /\ UNCHANGED <<links, tasking, count, home, fillVars>>

TaskStep == \/ DoDetach \/ DoTerminate \/ DelayStep \/ JoinStep
            \/ \E t \in Tasks : DoMakeTask(t) \/ DoSchedule(t) \/ JoinStart(t)
            \/ \E c \in Conditions : DoAwait(c) \/ DoCause(c)
            \/ \E s \in Semaphores : DoWait(s) \/ DoSignal(s)
            \/ \E n \in 0 .. MaxDelay : DelayStart(n)
----------------------------------------------------------------------------
(***************************************************************************)
(* The foreground's C code around the virtual machine.                     *)
(***************************************************************************)
\* docommand: the word pushed a return address, so the machine is run.
Command == /\ phase = "interpret"
           /\ phase' = "command" /\ tasking' = TRUE
           /\ UNCHANGED <<links, status, tp, running, count, home, caller, nonblocking, doing>>

CommandLoop == phase = "command" /\ EnterInner /\ UNCHANGED_REST

\* The loop of docommand ends when the foreground has terminated.
CommandEnd == /\ phase = "command" /\ ~ tasking /\ ~ running
              /\ phase' = "interpret"
              /\ UNCHANGED <<kernelVars, caller, nonblocking, doing>>

\* io_fillbuf, entered by the interpreter or by a word that reads input: with
\* other tasks to run the foreground is IOWAITING and the file non-blocking.
FillStart ==
  /\ phase = "interpret" \/ (phase = "command" /\ Free /\ tp = foreground)
  /\ phase' = "fill" /\ caller' = phase
  /\ nonblocking' = (links.succ[tp] # tp)
  /\ status' = IF nonblocking' THEN [status EXCEPT ![tp] = "IOWAITING"] ELSE status
  /\ UNCHANGED <<links, tp, running, tasking, count, home, doing>>

\* Control is in io_fillbuf's own loop: not inside a doinner it has called.
Polling == phase = "fill" /\ (tp = foreground \/ ~ running)

\* The file is set back to blocking input after a turn of the other tasks that
\* leaves the foreground alone.  Before the first turn it is not alone.
Sharing == nonblocking /\ ~ (tp = foreground /\ links.succ[tp] = tp)

\* The read has delivered characters, or the end of the file.
FillEnd ==
  /\ Polling
  /\ phase' = caller
  /\ \/ /\ Sharing
        /\ Resume(foreground, status)
        /\ status' = [status EXCEPT ![tp'] = "RUNNING"]
     \/ ~ Sharing /\ UNCHANGED <<tp, running, status>>
  /\ UNCHANGED <<links, tasking, count, home, caller, nonblocking, doing>>

\* Nothing to read yet: the foreground detaches, ...
FillDetach == Polling /\ Sharing /\ tp = foreground /\ Detach /\ UNCHANGED_REST

\* ... and any other task is run until it switches.
FillInner == /\ Polling /\ Sharing /\ tp # foreground
             /\ running' = TRUE
             /\ UNCHANGED <<links, status, tp, tasking, count, home, fillVars, doing>>

Interpreter == \/ Command \/ CommandLoop \/ CommandEnd
               \/ FillStart \/ FillEnd \/ FillDetach \/ FillInner

Next == TaskStep \/ Interpreter
----------------------------------------------------------------------------
(***************************************************************************)
(* Fairness.  The machine and the interpreter go on executing.  A task     *)
(* that gets to run over and over sometimes detaches: the manual requires  *)
(* applications "to periodically call the task switch function" (man/man3/ *)
(* multi-tasking.3:13-17).  Nothing is assumed about the input.            *)
(***************************************************************************)
Fairness == /\ WF_vars(DelayStep) /\ WF_vars(JoinStep)
            /\ WF_vars(CommandLoop) /\ WF_vars(CommandEnd)
            /\ WF_vars(Command \/ (phase = "interpret" /\ FillStart))
            /\ WF_vars(FillDetach) /\ WF_vars(FillInner)
            /\ \A t \in Tasks : SF_vars(tp = t /\ DoDetach)

Spec == Init /\ [][Next]_vars
FairSpec == Spec /\ Fairness
----------------------------------------------------------------------------
(***************************************************************************)
(* The rings are closed and coherent, every task is in the ring its status *)
(* tells, and the running task and the foreground stay in the ring of      *)
(* runnable tasks: schedule, await, cause and terminate relink and switch  *)
(* in an order that keeps all of this at every switch.                     *)
(***************************************************************************)
TasksInPlace == /\ WellLinked(links, home) /\ HeadersAtHome
                /\ StatusFitsHome /\ RunnersLinked

(***************************************************************************)
(* No runnable task is lost: from the running task, detach after detach    *)
(* reaches every task that was put into the ring and has not left it.      *)
(***************************************************************************)
NoTaskLost == RingOf(links, tp) = {n \in Nodes : home[n] = "run"}

(***************************************************************************)
(* A status other than RUNNING has its cause: DELAYED and WAITING tasks of *)
(* the ring are inside delay and join, also after any interleaving with    *)
(* tasks that cause, schedule or resume them.                              *)
(***************************************************************************)
StatusExplained ==
  \A t \in Tasks : home[t] = "run" =>
    /\ status[t] = "DELAYED" <=> doing[t].op = "delay"
    /\ status[t] = "WAITING" <=> doing[t].op = "join"

(***************************************************************************)
(* The counters and queues of the semaphores implement semaphores with     *)
(* first-come first-served waiting: no signal and no waiter is lost or     *)
(* overtaken.                                                              *)
(***************************************************************************)
Abstract == INSTANCE SemaphoreSpec
              WITH value <- count,
                   waiting <- [s \in Semaphores |-> ItemsOf(links, s)]

(* Every operation on a semaphore is wait or signal of the abstract one. *)
ImplementsSemaphores == Abstract!Spec

(***************************************************************************)
(* Once input stops arriving, every runnable task gets the machine again   *)
(* and again: insertions right after the running task do not starve the    *)
(* tasks behind it.  (Arriving input makes io_fillbuf resume the           *)
(* foreground out of turn.)                                                *)
(***************************************************************************)
EveryTaskRuns ==
  <>[][~ FillEnd]_vars => \A t \in Tasks : home[t] = "run" ~> tp = t

(***************************************************************************)
(* A join returns once the other task has terminated.                      *)
(***************************************************************************)
JoinReturns ==
  <>[][~ FillEnd]_vars =>
    \A t, u \in Tasks :
      doing[t] = [op |-> "join", task |-> u] /\ status[u] = "TERMINATED"
        ~> doing[t] = NoLoop

(***************************************************************************)
(* multi-tasking.3:429-434 and 238-241: a task that waits is placed into   *)
(* the queue and the next runnable task is resumed, so the running task is *)
(* never one that waits in a queue.                                        *)
(***************************************************************************)
WaitingTaskDoesNotRun == home[tp] \notin Headers
============================================================================
