CONSTANTS
  Codes = {k1}
  Pairs = {p1, p2, p3}
  Requests = {q1, q2}
  None = None
  MaxEpoch = 1
  MaxFaults = 1
SPECIFICATION Spec
SYMMETRY Symmetry
INVARIANTS NoFork RevokedMintsNothing KillIsWhole OneAccess AnswerIsTrue
CHECK_DEADLOCK FALSE
