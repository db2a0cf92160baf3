SPECIFICATION Spec
CONSTANTS
  h1 = h1
  h2 = h2
  i1 = i1
  i2 = i2
  i3 = i3
  Headers <- MCHeaders
  Items <- MCItems
  Nodes <- MCNodes
  MaxEdits = 2
INVARIANTS RingsCoherent MapVisitsOnce SizeAndMembersAgree
PROPERTIES MapEnds ImplementsQueueSpec PutsWhereAsked
