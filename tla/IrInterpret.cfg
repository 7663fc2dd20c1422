CONSTANTS
  Capacity = 2
  CellMod = 3
  SizeMod = 1000
  MaxOut = 8
  MaxLen = 4
  Programs <- MCPrograms
  Inputs <- MCInputs
SPECIFICATION Spec
INVARIANTS
  TypeOK
  IpInRange
  RightMovesStay
PROPERTY StraightLineHalts
