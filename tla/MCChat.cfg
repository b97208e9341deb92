SPECIFICATION ChatSpec
CONSTANTS
  Document = {d1}
  Snapshot = {s1, s2}
  StrictSnapshot = {s1, s2}
  Ingester = {g1}
  ChunkId = {1, 2}
  MaxChunks = 2
  Backfill = {b1}
  Reader = {r1}
  BatchSize = 1
INVARIANTS
  ExactRunsMissOnlyTheNew
  BackfillCoversItsStart
  AnswersCiteTheirEvidence
PROPERTIES
  ImplementsGroundedAnswer
  EveryQuestionIsAnswered
CHECK_DEADLOCK FALSE
