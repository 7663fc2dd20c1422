CONSTANTS
  BUFLEN = 2
  ShortLen = 3
  LongLen = 5
  Files <- MCFiles
  Inputs <- MCInputs
  Capacity = 2
  CellMod = 3
  SizeMod = 1000
  MaxOut = 5
SPECIFICATION MainSpec
INVARIANTS
  FailsOnUnmatchedEnd
PROPERTIES
  ImplementsMachine
  Returns
