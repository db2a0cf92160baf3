SPECIFICATION Spec
CONSTANTS
  fg = fg
  a = a
  b = b
  cond = cond
  sem = sem
  Tasks <- MCTasks
  foreground = fg
  Conditions <- MCConditions
  Semaphores <- MCSemaphores
  Nodes <- MCNodes
  Waiters <- MCTasks
  InitialCount <- MCInitialCount
  MaxCount = 1
  MaxDelay = 2
INVARIANT WaitingTaskDoesNotRun
CHECK_DEADLOCK FALSE
