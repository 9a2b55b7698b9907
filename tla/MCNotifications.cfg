SPECIFICATION Spec
CONSTANTS
  HistoryLimit = 2
  MaxCalls = 3
  MaxQueue = 1
  MaxClock = 1
INVARIANTS LoopAgrees EndsToldOnce HistoryAgrees
PROPERTY OverdueLeave
CHECK_DEADLOCK FALSE
