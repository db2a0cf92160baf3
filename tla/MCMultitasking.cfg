SPECIFICATION FairSpec
CONSTANTS
  fg = fg
  a = a
  b = b
  cond = cond
  sem = sem
  Tasks <- MCTasks
  foreground = fg
  Conditions <- MCConditions
  Semaphores <- MCSemaphores
  Nodes <- MCNodes
  Waiters <- MCBackground
  InitialCount <- MCInitialCount
  MaxCount = 1
  MaxDelay = 2
INVARIANTS TypeOK TasksInPlace NoTaskLost StatusExplained NoLostSignal
PROPERTIES ImplementsSemaphores EveryTaskRuns JoinReturns
