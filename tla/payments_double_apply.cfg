SPECIFICATION Spec
CONSTANTS
  o1 = o1
  o2 = o2
  Order = {o1, o2}
  Req = {1}
  Kind <- TwoPlans
  Days = 2
  MaxTime = 2
  BatchSize = 1
  PendingAnswers = TRUE
  Returns = {}
  Null = Null
CHECK_DEADLOCK FALSE
INVARIANT
  NoDoubleApply
