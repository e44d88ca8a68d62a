SPECIFICATION Spec
CONSTANTS
  Worker = {w1}
  Null = Null
  TrialDays = 1
  PlanDays = 2
  Retention = 1
  MaxTime = 4
  MaxDate = 4
  MaxCharges = 0
  MaxEdits = 2
  MayGrant = FALSE
  MayTakeBack = TRUE
CHECK_DEADLOCK FALSE
PROPERTY RetentionKept
