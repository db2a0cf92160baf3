SPECIFICATION Spec
SYMMETRY NamesSymmetry
CONSTANTS
  forth = forth
  Vocs = {forth, v1}
  Names = {f, g}
  hash <- MCHash
  ContextSize = 2
  ModesUsed = {"compilation", "private"}
  MaxEntries = 5
  Rules = {"search", "names", "brackets", "abort", "forget", "flush"}
INVARIANTS
  FindAgrees
  DefinitionsStay
  LocalsRemoved
  ForwardsResolved
