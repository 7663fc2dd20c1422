CONSTANTS
  Capacity = 2
  CellMod = 3
  SizeMod = 1000
  MaxOut = 8
  MaxLen = 2
  Programs <- MCPrograms
  Inputs <- MCInputs
SPECIFICATION Spec
INVARIANT SpInRange
