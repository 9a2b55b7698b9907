SPECIFICATION Spec
CONSTANTS
  Domains <- MCDomains
  Recovery <- MCRecovery
  Direct <- MCDirect
  NeedsRecovery <- MCNeedsRecovery
  Windows = "windows"
  Carried <- MCCarried
  Resent <- MCResent
  Mutable <- MCMutable
  MaxChanges = 3
  MaxRequests = 2
INVARIANTS TypeOK LastSnapshotRead RecoveredWhenQuiet MutationsSettled
PROPERTY SnapshotDomainsAdvance
CHECK_DEADLOCK FALSE
