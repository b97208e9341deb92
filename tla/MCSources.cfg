SPECIFICATION ClientsSpec
CONSTANTS
  Ref = {q1, q2}
  Text = {t1, t2}
  Endpoint = {e1, e2}
  NoEndpoint = NoEndpoint
  MaxAttempts = 2
  MaxChanges = 2
  HealthMaxAttempts = 2
  RetryAfterMax = 8
  Pauses = {0, 4, 40}
  Contracts <- MCContracts
  Registries <- MCRegistries
  Capabilities <- MCCapabilities
  Days = {0, 400, 731}
  NoRecord = NoRecord
INVARIANTS
  FetchedWasServed
  ExitZeroMeansDone
  VerdictIsEarned
  KeptRecordsHold
PROPERTIES
  RunsEnd
CHECK_DEADLOCK FALSE
