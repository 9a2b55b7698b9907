SPECIFICATION Spec
CONSTANTS
  w1 = w1
  w2 = w2
  Kinds <- AllKinds
  NoLayout = NoLayout
  Layouts <- MCLayouts
  MaxWrites = 3
  MaxRevision = 1
SYMMETRY Symmetry
INVARIANT UpToDate
PROPERTY RefinesExchange
CHECK_DEADLOCK FALSE
