SPECIFICATION Spec
CONSTANTS
  Event = {e1}
  NumHandlers = 2
  Worker = {w1, w2}
  BatchSize = 1
  MaxRetries = 1
  MaxPublishes = 2
  Faults <- AllFaults
  NoCopy = NoCopy
CHECK_DEADLOCK FALSE
INVARIANTS OneCallAtATime NeverCalledAgain
PROPERTY ImplementsHandlerOnce
