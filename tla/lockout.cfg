\* Three sign-ins with or without a client, a threshold of two, a grace of one.
CONSTANTS
  Logins = {l1, l2, l3}
  Ips = {i1}
  NoIp = NoIp
  MaxFailures = 2
  Grace = 1
  FailureWindow = 1
  StrikeWindow = 1
  LockSeconds = 1
  MaxLockSeconds = 2
  BaseDelay = 1
  MaxDelay = 2
  LockFor <- Locks
  DelayFor <- Delays
  FailClosed = FALSE
  LastTick = 1
  MaxErrors = 1
  MaxUnlocks = 1
SPECIFICATION LockoutSpec
SYMMETRY Symmetry
CONSTRAINT TwoAtMost
INVARIANTS ChecksArePaid StrikesAreEarned DelaysAreEarned
CHECK_DEADLOCK FALSE
