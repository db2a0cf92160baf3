SPECIFICATION ClientsSpec
CONSTANTS
  fg = fg
  a = a
  b = b
  d = d
  sent = sent
  received = received
  none = none
  chan = chan
  Tasks <- MCTasks
  foreground = fg
  Conditions = {}
  Semaphores <- MCSemaphores
  Nodes <- MCNodes
  Chans <- MCChans
  SentOf <- MCSentOf
  ReceivedOf <- MCReceivedOf
  Messages <- MCMessages
  NoMessage = none
  server = a
  partner = b
INVARIANTS ReadsAreFresh SendIsSynchronous OneSenderAtATime
PROPERTIES ImplementsBuffer EveryMessageTaken NobodyStuck
