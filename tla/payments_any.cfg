SPECIFICATION Spec
CONSTANTS
  o1 = o1
  o2 = o2
  Order = {o1, o2}
  Req = {1, 2}
  Kind <- PlanAndAddon
  Days = 2
  MaxTime = 2
  BatchSize = 2
  PendingAnswers = TRUE
  Returns = {"refunded", "partial"}
  Null = Null
CHECK_DEADLOCK FALSE
INVARIANTS
  OneCaptureCall
  CapturedMeansPaid
PROPERTY
  RetryOnlyUnpaid
