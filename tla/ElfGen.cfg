CONSTANTS
  Hashes <- MCHashes
  TextLengths <- MCTextLengths
  PAGE_SIZE = 4096
  EhdrSize = 52
  PhdrSize = 32
  ShdrSize = 40
  TextAddr = 134512640
  BssLength = 30000
SPECIFICATION Spec
INVARIANTS
  WritesDisjoint
  TablesFound
  Loadable
