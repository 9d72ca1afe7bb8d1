SPECIFICATION FairSpec
CONSTANTS
  Event = {e1}
  NumHandlers = 2
  Worker = {w1, w2}
  BatchSize = 2
  MaxRetries = 1
  MaxPublishes = 2
  Faults <- Traceable
  NoCopy = NoCopy
CHECK_DEADLOCK FALSE
INVARIANT NoSilentLoss
PROPERTY EventuallySettled
