SPECIFICATION Spec
CONSTANTS
  HistoryLimit = 1
  MaxCalls = 3
  MaxQueue = 1
  MaxClock = 1
INVARIANT DismissedIsGone
CHECK_DEADLOCK FALSE
