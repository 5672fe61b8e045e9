CONSTANTS
  Instances = {i1, i2}
  Serving = {i1}
  Checks = {c1, c2}
  Revokers = {r1}
  None = None
  MaxStaleness = 2
  PollInterval = 1
  MaxTime = 3
  MaxFaults = 1
SPECIFICATION Spec
SYMMETRY Symmetry
INVARIANTS RevokerRefuses PollRefuses StalenessBounded
CHECK_DEADLOCK FALSE
