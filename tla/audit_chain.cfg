\* Two calls, in one process or in two, write, cut, verify and fail.
CONSTANTS
  Processes = {p1, p2}
  Calls = {c1, c2}
  None = None
  MaxAttempts = 2
  Page = 1
  MaxTime = 2
  MaxRows = 3
  MaxFailures = 2
SPECIFICATION Spec
SYMMETRY Symmetry
INVARIANTS OneChain NoFalseAlarm FailuresAreTold
PROPERTY RetentionSparesYoung
CHECK_DEADLOCK FALSE
