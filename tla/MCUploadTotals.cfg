SPECIFICATION Spec
CONSTANTS
  c1 = c1  c2 = c2  c3 = c3
  NoPid = NoPid
  Clients = {c1, c2}
  SymChunks <- OneEach
  ObjChunks <- OneMore
  Window = 2
  MaxPid = 1
  MaxFaults = 0
INVARIANT ResumeMatchesTotals
