SPECIFICATION FairSpec
CONSTANTS
  i1 = i1
  Identity = {i1}
  Delivery = {d1}
  IdentityOf <- MCIdentityOf
  Conv = {c1, c2}
  MaxOrdinal = 2
  MaxTime = 0
  LeaseTicks = 1
  RetentionTicks = 2
  RetainedLimit = 2
  PlanLimit = 2
  BindingLeaseTicks = 1
  Worker = {w1, w2}
  Lines = {}
  AnswerText = {"line", "lines"}
  MayStop = FALSE
  MayOverlap = FALSE
  MayRepeat = FALSE
PROPERTIES
  AnswersAreStored
CHECK_DEADLOCK FALSE
