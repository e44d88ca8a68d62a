SPECIFICATION AnySpec
CONSTANTS
  Purchase = {x1, x2, x3}
  Vehicle = {w1, w2}
  Invoice = {w1, w2}
  Worker = {w1, w2}
  Mobile = {m1}
  USD = USD
  ZAR = ZAR
  None = None
INVARIANTS
  AllTyped
  OldPasswordOut
  TotalsAgree
  CooldownKept
  ClosedOnRequest
  HistoryKept
PROPERTIES
  OneSession
  BillingPage
SYMMETRY Symmetric
CHECK_DEADLOCK FALSE
