CONSTANTS
  TapeSize = 3
  CellMod = 4
  Fuel = 12
  ShortLen = 4
  LoopLen = 6
  Texts <- MCTexts
  Inputs <- MCInputs
SPECIFICATION Spec
INVARIANTS
  PassesPreserve
  PassesReduce
  ParsesAll
