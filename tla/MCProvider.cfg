SPECIFICATION ClientSpec
CONSTANTS
  HealthMaxAttempts = 2
  RetryAfterMax = 8
  Pauses = {0, 4, 40}
INVARIANTS HealthIsNormalized
CHECK_DEADLOCK FALSE
