SPECIFICATION FairSpec
CONSTANTS
  k1 = k1  k2 = k2
  l1 = l1  l2 = l2
  m1 = m1  m2 = m2
  NoKey = NoKey
  Keys = {k1}
  Loaders = {l1}
  Mutators <- MCMutators
  Sizes = {1}
  MaxBytes = 1
  MaxVersion = 3
  MaxClears = 3
PROPERTIES
  StaleIsTransient
  CacheIsTransparent
