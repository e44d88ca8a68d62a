SPECIFICATION FairSpec
CONSTANTS
  Event = {e1, e2}
  Worker = {w1, w2, w3}
  MaxFaults = 3
  NoEvent = NoEvent
INVARIANTS
  ProcessedTookEffect
  AckedIsHandled
PROPERTIES
  OneHandling
  EventuallyApplied
