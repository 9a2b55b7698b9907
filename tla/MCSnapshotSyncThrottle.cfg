SPECIFICATION Spec
CONSTANTS
  Domains <- MCDomains
  Recovery <- MCRecovery
  Direct <- MCDirect
  NeedsRecovery <- MCNeedsRecovery
  Windows = "windows"
  Carried <- MCCarried
  Resent <- MCResent
  Mutable <- MCMutable
  MaxChanges = 3
  MaxRequests = 2
INVARIANT SkippedDomainAlwaysRecovered
CHECK_DEADLOCK FALSE
