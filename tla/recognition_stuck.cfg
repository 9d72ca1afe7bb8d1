SPECIFICATION FairSpec
CONSTANTS
  f1 = f1
  f2 = f2
  m1 = m1
  m2 = m2
  Frame = {f1, f2}
  Message = {m1, m2}
  FrameOf <- OnePerFrame
  Results = {"secret"}
  Engine = "local"
  Threshold = 0
  MaxRetries = 1
  Faults = {}
PROPERTY EndOfOCRAnnounced
CHECK_DEADLOCK FALSE
