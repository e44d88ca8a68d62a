SPECIFICATION CronSpec
CONSTANTS
  Worker = {w1, w2}
  Null = Null
  TrialDays = 1
  PlanDays = 2
  Retention = 1
  MaxTime = 4
  MaxDate = 4
  MaxCharges = 1
  MaxEdits = 1
  MayGrant = TRUE
  MayTakeBack = FALSE
CHECK_DEADLOCK FALSE
PROPERTIES
  RetentionKept
  StatusCatchesUp
