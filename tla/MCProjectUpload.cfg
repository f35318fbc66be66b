SPECIFICATION FairSpec
CONSTANTS
  c1 = c1  c2 = c2  c3 = c3
  NoPid = NoPid
  Clients = {c1, c2, c3}
  SymChunks <- OneMore
  ObjChunks <- OneEach
  Window = 2
  MaxPid = 3
  MaxFaults = 2
INVARIANTS
  TypeOK
  CompleteIsWhole
  ExactlyOnce
  SymbolsFirst
  AcknowledgedIsThere
PROPERTIES
  CompleteIsFrozen
  UploadCompletes
