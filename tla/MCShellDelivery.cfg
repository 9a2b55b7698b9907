SPECIFICATION Spec
CONSTANTS
  Kinds <- MCKinds
  Keyed <- MCKeyed
  Urgent <- MCUrgent
  PointerMove = "move"
  Snapshotted <- MCSnapshotted
  MaxSends = 3
  MaxToggles = 2
  MaxPostFailures = 1
INVARIANTS NoMessageStranded NoDetailAheadOfSnapshot
  PublishNeverRefused SnapshotIsTruthOfItsEpoch DeliveredInOrder OnlySupersededLost
PROPERTY QueuesDrain
CHECK_DEADLOCK FALSE
