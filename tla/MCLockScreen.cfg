SPECIFICATION Spec
CONSTANTS
  Clients <- MCClients
  MaxLocks = 3
  MaxAttempts = 3
INVARIANTS AnswerMeetsItsLock OneHolder LockedWhileEnabled
PROPERTIES UnlockedByHolder EveryPasswordAnswered
CHECK_DEADLOCK FALSE
