SPECIFICATION Spec
CONSTANTS
  Worker = {w1, w2}
  Request = {q1, q2}
  Incomplete = {i1}
  Poison = {p1}
  Unreadable = {q1}
  Blank = {q2}
  Prefetch = 2
  MaxDrops = 1
  MaxOutages = 1
INVARIANTS NoRequestLost AnsweredAgainOnlyAfterDrop
PROPERTY EveryRequestAnswered
CHECK_DEADLOCK FALSE
