SPECIFICATION Spec
CONSTANTS
  p1 = p1  p2 = p2  r1 = r1  r2 = r2  w1 = w1
  s1 = s1  v1 = v1  b1 = b1
  NoRef = NoRef
  NoMemo = NoMemo
  Roots = {p1}
  Searches = {s1}
  Locs = {}
  Blocks = {}
  Requests = {r1, r2}
  Writers = {w1}
  MaxRows = 1
  MaxId = 3
  MaxStatements = 2
SYMMETRY Symmetry
INVARIANTS
  TypeOK
  PurgeIsFinal
  NoOrphan
  OneLayerPerHash
