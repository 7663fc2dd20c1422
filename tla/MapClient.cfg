CONSTANTS
  k1 = k1
  k2 = k2
  k3 = k3
  Keys = {k1, k2, k3}
  Values = {1, 2}
  CountMod = 4
  Hashes <- MCHashes
SPECIFICATION Spec
INVARIANTS
  TypeOK
  ChainsSound
  CountExact
PROPERTIES
  ImplementsMap
  IterationComplete
