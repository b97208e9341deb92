SPECIFICATION RetrievalSpec
CONSTANTS
  Doc = {1, 2}
  Manual = {2}
  PartsOf <- MCPartsOf
  Unit = {1, 2}
  Questions <- MCQuestions
  Profiles = {"collapse", "repair"}
  PoolSize = 2
  MinEvidence = 2
  MaxEvidence = 2
  TopK = {1, 2}
  MaxHits = 1
  MaxReads = 2
  MaxVersion <- MCMaxVersion
  Document = {1, 2, 3, 4}
  Chunk = {1, 2, 3, 4, 5, 6, 7}
  ChunkHome <- MCChunkHome
  MaxVersions <- MCMaxVersions
  Requests <- MCRequests
  Window = 4
  VersionLimit = 3
  TitleLimit = 3
  RerankLimit = 3
  Parents <- CParents
  ControlsB <- CControlsB
  ControlsC <- CControlsC
  ParentOf <- CParentOf
  Expected <- CExpected
  HomeOf <- CHomeOf
  Readings <- CReadings
  PoolSizes <- CPoolSizes
  FinalSize = 3
  MinHits = 3
  MaxLatency = 2
  MaxQueries = 12
  Denominator = 3
  Changes <- CChanges
  Settings <- CSettings
  Paths <- CPaths
  MaxEvents = 2
INVARIANTS
  SelectionKeepsEveryUnit
  SupportedMeansRead
  CitedInTheWindow
  BestRawMatchIsCited
  NumbersYieldToAgreement
  NoPlaceIsLost
  PassedWithNothingLeft
CHECK_DEADLOCK FALSE
