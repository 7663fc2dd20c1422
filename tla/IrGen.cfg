CONSTANTS
  BUFLEN = 3
  ShortLen = 4
  LongLen = 7
  Files <- MCFiles
SPECIFICATION Spec
INVARIANTS
  TypeOK
  PatchesOpen
  DeltasMatch
  ProperNesting
  Contracted
  ParsedWellFormed
  DumpsSource
PROPERTY ParseTerminates
