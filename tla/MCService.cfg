SPECIFICATION ServiceSpec
CONSTANTS
  i1 = i1
  Identity = {i1}
  Delivery = {d1, d2, d3}
  IdentityOf <- MCIdentityOf
  Conv = {c1}
  MaxOrdinal = 3
  MaxTime = 1
  LeaseTicks = 1
  RetentionTicks = 2
  RetainedLimit = 2
  PlanLimit = 2
  BindingLeaseTicks = 1
  Worker = {w1, w2}
  Lines = {}
  AnswerText = {"line"}
  MayStop = TRUE
  MayOverlap = TRUE
  MayRepeat = TRUE
SYMMETRY Symmetry
INVARIANTS
  OneRunPerMessage
  AcknowledgedMeansAccepted
CHECK_DEADLOCK FALSE
