--------------------------- MODULE SemaphoreSpec --------------------------
(***************************************************************************)
(* What the semaphores promise (man/man3/multi-tasking.3, "wait" and       *)
(* "signal"): a counter that never goes below zero, and tasks that wait    *)
(* for it in the order they came.  A signal lets the first waiting task    *)
(* go on, and counts only when nobody waits.                               *)
(***************************************************************************)
EXTENDS Naturals, Sequences

CONSTANTS Tasks, Semaphores, InitialCount

VARIABLES value, waiting

vars == <<value, waiting>>

Init == value = InitialCount /\ waiting = [s \in Semaphores |-> << >>]

Waits(t) == \E s \in Semaphores : \E i \in DOMAIN waiting[s] : waiting[s][i] = t

Pass(s) == value[s] > 0 /\ value' = [value EXCEPT ![s] = @ - 1] /\ UNCHANGED waiting

Block(t, s) == /\ value[s] = 0 /\ ~ Waits(t)
               /\ waiting' = [waiting EXCEPT ![s] = Append(@, t)]
               /\ UNCHANGED value

Wake(s) == /\ waiting[s] # << >>
           /\ waiting' = [waiting EXCEPT ![s] = Tail(@)]
           /\ UNCHANGED value

Count(s) == waiting[s] = << >> /\ value' = [value EXCEPT ![s] = @ + 1] /\ UNCHANGED waiting

Next == \E s \in Semaphores : \/ Pass(s) \/ Wake(s) \/ Count(s)
                              \/ \E t \in Tasks : Block(t, s)

Spec == Init /\ [][Next]_vars
============================================================================
