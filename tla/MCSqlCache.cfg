SPECIFICATION Spec
CONSTANTS
  k1 = k1  k2 = k2
  l1 = l1  l2 = l2
  m1 = m1  m2 = m2
  NoKey = NoKey
  Keys <- MCKeys
  Loaders <- MCLoaders
  Mutators <- MCMutators
  Sizes = {1, 2}
  MaxBytes = 2
  MaxVersion = 2
  MaxClears = 3
SYMMETRY Symmetry
INVARIANTS
  TypeOK
  Coherent
  ReadYourWrites
  Accounting
