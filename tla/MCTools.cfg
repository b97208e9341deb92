SPECIFICATION ToolsSpec
CONSTANTS
  Cases <- MCCases
  SourceOf <- MCSourceOf
  ExpectedDocs <- MCExpectedDocs
  ExpectedSources <- MCExpectedSources
  Citable <- MCCitable
  Rounds = 1
  Arguments <- MCArguments
  ForeignRun = {f}
  k1 = k1
  k2 = k2
  None = None
  Importer = {p1, p2}
  Artifact <- MCArtifact
  Parents <- M2Parents
  ControlsB <- M2ControlsB
  ControlsC <- M2ControlsC
  ParentOf <- M2ParentOf
  Expected <- M2Expected
  NumberSource <- M2Source
  Findable <- M2Findable
  IdentityControls <- M2Controls
  Limits <- M2Limits
  Inventories <- M2Inventories
  MaxFaults = 2
  Version = {1, 2}
  Citation = {1}
  Target = {1, 5, 8, 12}
  BatchSize = 1
SYMMETRY Symmetry
INVARIANTS
  DuplicatesOnlyFromRaces
  AnswersMatchTheRegistry
  CleansUpItsOwn
  ExitZeroReportsAll
  OnlyScoresBlock
  StrictMeansVerified
  LeavesNothingBehind
  LeftoversAreReported
PROPERTIES
  ShadowNeverRecovers
  FillIsComplete
CHECK_DEADLOCK FALSE
