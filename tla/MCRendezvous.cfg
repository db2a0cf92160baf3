SPECIFICATION RdvSpec
CONSTANTS
  fg = fg
  a = a
  b = b
  acceptor = acceptor
  none = none
  Tasks <- MCTasks
  foreground = fg
  Conditions = {}
  Semaphores <- MCSemaphores
  Nodes <- MCNodes
  Chans <- MCChans
  SentOf <- MCSentOf
  ReceivedOf <- MCReceivedOf
  Messages <- MCMessages
  NoMessage = none
  Rdvs <- MCRdvs
  ArgOf <- MCArgOf
  ResOf <- MCResOf
  ClientsOf <- MCOneClient
  ServiceSets <- MCServiceSets
INVARIANTS ArgumentIsPassed ResultIsOwn AskedAcceptDoesNotWait
PROPERTY EveryCallReturns
