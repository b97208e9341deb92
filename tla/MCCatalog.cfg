SPECIFICATION CatSpec
CONSTANTS
  Document = {d1}
  Snapshot = {s1, s2}
  StrictSnapshot = {s1}
  Ingester = {g1, g2}
  ChunkId = {1, 2}
  MaxChunks = 1
  LinkKind = {"direct", "pending"}
SYMMETRY Symmetry
INVARIANTS
  OnlyAStopStrands
  AloneRunsTellTheTruth
PROPERTIES
  IndexedForGood
  ImplementsDocumentLog
CHECK_DEADLOCK FALSE
