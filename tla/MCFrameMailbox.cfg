SPECIFICATION Spec
CONSTANTS
  r1 = r1
  r2 = r2
  Regions <- MCRegions
  GenModulus = 3
  MaxPushes = 3
INVARIANTS OneWakeup FrameNeverForgotten OutputShowsFrame
PROPERTY RefinesLatestValue
CHECK_DEADLOCK FALSE
