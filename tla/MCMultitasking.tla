--------------------------- MODULE MCMultitasking --------------------------
\* The foreground and two tasks, one condition variable and one semaphore.
EXTENDS Multitasking

CONSTANTS fg, a, b, cond, sem

MCTasks == {fg, a, b}
MCConditions == {cond}
MCSemaphores == {sem}
MCNodes == MCTasks \cup MCConditions \cup MCSemaphores
MCInitialCount == [s \in MCSemaphores |-> 0]
MCBackground == {a, b}
============================================================================
