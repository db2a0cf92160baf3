SPECIFICATION Spec
CONSTANTS
  Stdin = Stdin
  Context = Context
  Endings <- MCEndings
  Sessions <- MCSessions
  Disks <- MCDisks
  Env <- MCEnv
  Dictionary <- MCDictionary
  Code <- MCCode
  CommandLines <- MCCommandLines
  BufSize = 2
  InfStackSize = 3
  PathsSize = 3
  Half = 16
  MaxAborts = 1
INVARIANTS
  TypeOK
  OpenedOnce
  LinesNotAhead
  NumbersReadBack
PROPERTIES
  ImplementsSource
  SessionEnds
