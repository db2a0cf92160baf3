SPECIFICATION Spec
CONSTANTS
  Nil = Nil
  Terminate = Terminate
  Junk = Junk
  Tasks = {foreground, a}
  foreground = foreground
  plain = plain
  framed = framed
  protected = protected
  both = both
  Words <- MCWords
  Framed <- MCFramed
  Protected <- MCProtected
  arguments <- MCArguments
  locals <- MCLocals
  main = plain
  a = a
  x = x
  y = y
  u = u
  Pushed <- MCPushed
  Signals = {e}
  MaxOwn = 1
  MaxCalls <- MCMaxCalls
  AbortsAnywhere = TRUE
INVARIANT ArmedFrameExists
