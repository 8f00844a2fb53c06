SPECIFICATION TaskSpec
CONSTANTS
  CanFail = TRUE
  MaxRuns = 2
  MaxRequests = 1
PROPERTY StopAlwaysReturns
CHECK_DEADLOCK FALSE
