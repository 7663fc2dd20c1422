CONSTANTS
  TapeSize = 3
  CellMod = 4
  Fuel = 12
  ShortLen = 1
  LoopLen = 1
  Texts <- Neighbours
  Inputs <- MCInputs
SPECIFICATION Spec
INVARIANT DeadCodeIsDead
