SPECIFICATION FairSpec
CONSTANTS
  Frame = {f1, f2}
  Blurrable = {f1}
  MaxLost = 1
  MaxRetries = 1
  MaxOutages = 1
INVARIANT CountIsBacked
PROPERTIES SuccessStaysShown SuccessReachesClient
CHECK_DEADLOCK FALSE
