SPECIFICATION FairSpec
CONSTANTS
  i1 = i1
  Identity = {i1}
  Delivery = {d1, d2}
  IdentityOf <- MCIdentityOf
  Conv = {c1, c2}
  MaxOrdinal = 2
  MaxTime = 1
  LeaseTicks = 1
  RetentionTicks = 2
  RetainedLimit = 2
  PlanLimit = 2
  BindingLeaseTicks = 1
  Worker = {w1, w2}
  Lines = {}
  AnswerText = {"line"}
  MayStop = FALSE
  MayOverlap = TRUE
  MayRepeat = FALSE
PROPERTIES
  ReservedReplyIsSent
CHECK_DEADLOCK FALSE
