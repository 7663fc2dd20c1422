CONSTANTS
  BUFLEN = 3
  ShortLen = 3
  LoopLen = 5
  Files <- MCFiles
  Inputs <- MCInputs
  INT8_MAX = 9
  INT32_MAX = 63
  Capacity = 11
  CellMod = 4
  MaxOut = 4
SPECIFICATION MainSpec
INVARIANTS
  JumpsLand
  WildOnlyIfStrayed
PROPERTIES
  ImplementsMachine
  Returns
