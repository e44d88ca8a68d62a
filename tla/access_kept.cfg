SPECIFICATION Spec
CONSTANTS
  Worker = {w1, w2}
  Null = Null
  TrialDays = 1
  PlanDays = 1
  Retention = 3
  MaxTime = 1
  MaxDate = 3
  MaxCharges = 2
  MaxEdits = 2
  MayGrant = FALSE
  MayTakeBack = TRUE
CHECK_DEADLOCK FALSE
SYMMETRY Symmetry
INVARIANT MirrorAgrees
PROPERTY AccessKept
