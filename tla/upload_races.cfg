SPECIFICATION FairSpec
CONSTANTS
  Video = {v1, v2}
  MaxPuts = 1
  MaxRetries = 1
INVARIANTS StartedOnce IngestSettles
PROPERTIES ExpiredStaysUnstarted PendingEnds
CHECK_DEADLOCK FALSE
