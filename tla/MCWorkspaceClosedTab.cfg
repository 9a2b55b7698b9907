SPECIFICATION Spec
CONSTANTS
  Windows <- MCWindows
  Sessions <- MCSessions
  CustomAutos = {FALSE}
  MaxSeq = 5
PROPERTIES ClosedTabGivesWayToNext
VIEW View
CHECK_DEADLOCK FALSE
