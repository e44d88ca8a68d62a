SPECIFICATION AnySpec
CONSTANTS
  Account = {v1, v2}
  Worker = {w1, w2}
  Email = {e1, e2}
  Contact <- Shared
  Hash <- HashOf
  m1 = m1
  e1 = e1
  p1 = p1
  s1 = s1
  s2 = s2
  None = None
INVARIANTS
  AllTyped
  OneTrialPerIdentity
  RemovedWasAbandoned
  LinksFollowEmail
  SpinsWithinBudget
  NoticeKept
  NoticedOnce
  CreditedAsCharged
  CreditedOnce
  RefusalIsShown
  OneRun
SYMMETRY Symmetric
CHECK_DEADLOCK FALSE
