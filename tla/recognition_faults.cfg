SPECIFICATION Spec
CONSTANTS
  f1 = f1
  f2 = f2
  m1 = m1
  m2 = m2
  Frame = {f1}
  Message = {m1}
  FrameOf <- Single
  Results = {"secret", "plain", "faint", "empty", "failed"}
  Engine = "jev"
  Threshold = 0
  MaxRetries = 2
  Faults = {"extract", "load", "work", "ready_tx", "fail_tx", "lost_reply", "crash"}
INVARIANTS ChainUnbroken NoLeakDismissed
CHECK_DEADLOCK FALSE
