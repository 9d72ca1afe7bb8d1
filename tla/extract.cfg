SPECIFICATION FairSpec
CONSTANTS
  s1 = s1
  s2 = s2
  f1 = f1
  f2 = f2
  f3 = f3
  HashBits = {1, 2}
  Candidates <- UpToFive
  SelectionParams <- Rates
  Segment = {s1, s2}
  Frame = {f1, f2, f3}
  SegmentOf <- TwoSegments
  IndexOf <- IndexInSegment
  MaxRetries = 1
  Faults = {"unreadable", "retryable", "lost_reply", "fail_tx", "crash", "downstream"}
INVARIANTS CounterIsExact AnnouncedOnce SuccessIsComplete CompleteIsConcluded SliceStillThere SelectionCovers
PROPERTIES ExtractionDecided JobDecidedOnce ImplementsExtractionPhase
CHECK_DEADLOCK FALSE
