SPECIFICATION QueriesSpec
CONSTANTS
  MaxVideos = 4
  MaxFrames = 2
  Limits = {0, 1, 2, 3, 5}
  DefaultLimit = 2
  MaxLimit = 3
INVARIANTS NoneSkipped DetailNeverShort
CHECK_DEADLOCK FALSE
