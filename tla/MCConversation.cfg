SPECIFICATION Spec
CONSTANTS
  Conv = {c1}
  Delivery = {d1, d2, d3}
  LeaseTicks = 1
  RetentionTicks = 2
  RetainedLimit = 2
  PlanLimit = 2
  MaxOrdinal = 5
  MaxTime = 3
INVARIANTS
  SummaryEndsWhereRowsBegin
PROPERTIES
  ImplementsLog
CHECK_DEADLOCK FALSE
