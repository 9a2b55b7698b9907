\* Two toplevels, one of them given its buffer late, and a window of the shell.
CONSTANTS
  Native = {1, 2}
  Hosted = {3}
  Rules = {"none", "hidden", "visible"}
  RemovalIsSeen = TRUE
  Slow = {1}
  Ruled = {1, 3}
  Bounds <- ThreeOrTwo
  None = None
SPECIFICATION Spec
INVARIANTS TypeOK NoWindowLost
PROPERTIES FocusAgreesWithStack FocusSurvivesClose NoFocusStolen
