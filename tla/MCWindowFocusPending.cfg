\* The same windows, for one thing the code expects. A commit that removes the
\* buffer would hide it: the buffer handler runs first and takes the assignment.
CONSTANTS
  Native = {1, 2}
  Hosted = {3}
  Rules = {"none"}
  RemovalIsSeen = FALSE
  Slow = {1}
  Ruled = {}
  Bounds <- LatePairs
  None = None
SPECIFICATION Spec
INVARIANTS PendingHasRow
