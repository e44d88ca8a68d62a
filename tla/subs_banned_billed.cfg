SPECIFICATION WebhookSpec
CONSTANTS
  Sub = {s1, s2}
  Sale = {i1}
  Worker = {w1}
  NoSub = NoSub
  MaxChanges = 1
  MaxErrors = 0
  MaySuspend = FALSE
  MayBan = TRUE
PROPERTY BannedIsNotBilled
