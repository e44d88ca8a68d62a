SPECIFICATION WebhookSpec
CONSTANTS
  Sub = {s1, s2}
  Sale = {i1}
  Worker = {w1}
  NoSub = NoSub
  MaxChanges = 2
  MaxErrors = 1
  MaySuspend = FALSE
  MayBan = TRUE
PROPERTIES
  BilledOnce
  SalesSettled
