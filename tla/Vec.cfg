CONSTANTS
  Vecs = {v, w}
  Value = {a, b}
  Addr = {Own, p, q, r}
  Own = Own
  NULL = NULL
  Pool = Pool
  Junk = Junk
  MemSizes = {1, 2}
  PoolLen = 1
  MaxLen = 3
SPECIFICATION Spec
SYMMETRY Symmetry
CONSTRAINTS
  WithinLimits
  FewElements
INVARIANTS
  TypeOK
  ListSound
  ContentsExact
  SafeWithinLimits
  UsageExact
