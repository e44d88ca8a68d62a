SPECIFICATION ReturningSpec
CONSTANTS
  Sub = {s1, s2}
  Sale = {i1}
  Worker = {w1, w2}
  NoSub = NoSub
  MaxChanges = 2
  MaxErrors = 0
  MaySuspend = TRUE
  MayBan = FALSE
PROPERTIES
  EndIsShown
  SlotIsFreed
  CurrentFollows
