SPECIFICATION Spec
CONSTANTS
  Delivery = {d1, d2}
  Request = {r1, r2}
  MaxChanges = 2
  MaxLost = 1
  MaxUsers = 3
  Faults = {"db"}
SYMMETRY Symmetry
INVARIANTS RemovalIsAnnounced ServedAsStored SyncedWhenSettled
PROPERTY IdentityIsStable
CHECK_DEADLOCK FALSE
