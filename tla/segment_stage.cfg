SPECIFICATION Spec
CONSTANTS
  Durations <- Thresholds
  PlanConfig <- DefaultsCappedAtThree
  MaxRetries = 2
  Faults = {"load", "storage", "unreadable", "fail_tx", "commit_tx", "lost_reply", "crash", "expiry"}
INVARIANTS FanOutIsWhole AnnouncedIsStored AttemptsAnnounced PlanCovers
CHECK_DEADLOCK FALSE
