SPECIFICATION Spec
CONSTANTS
  Windows <- MCWindows
  Sessions <- MCSessions
  CustomAutos = {TRUE, FALSE}
  MaxSeq = 5
INVARIANTS TypeOK NoInvariantWarnings EveryListedWindowIsATab GroupIdsFresh PinnedTabsLeadUnmerged
PROPERTIES ActivatedTabIsVisible OthersKeepTheirPlace ShownTabsStay
VIEW View
CHECK_DEADLOCK FALSE
