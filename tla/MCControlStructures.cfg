SPECIFICATION Spec
CONSTANTS
  MaxWords = 7
INVARIANTS
  FramesMatchText
PROPERTY
  RunsAsWritten
