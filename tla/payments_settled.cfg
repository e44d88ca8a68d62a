SPECIFICATION FairSpec
CONSTANTS
  o1 = o1
  o2 = o2
  Order = {o1, o2}
  Req = {1, 2}
  Kind <- TwoPlans
  Days = 2
  MaxTime = 2
  BatchSize = 1
  PendingAnswers = FALSE
  Returns = {"refunded", "reversed"}
  Null = Null
CHECK_DEADLOCK FALSE
INVARIANTS
  FailedMeansUnpaid
  GrantBalance
  AccessWithinPaid
PROPERTIES
  StuckIsSettled
  PaidIsGranted
