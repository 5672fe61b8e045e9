\* One family of up to three tokens, two calls racing, half-second ticks, no
\* grace window and one of half a second.
CONSTANTS
  Users = {u1}
  Families = {f1}
  Tokens = {t1, t2, t3}
  Calls = {c1, c2}
  None = None
  Second = 2
  Graces = {0, 1}
  TokenTtl = 3
  FamilyTtl = 4
  MaxTime = 6
  MaxCrashes = 1
SPECIFICATION Spec
SYMMETRY Symmetry
INVARIANTS OneLiveToken ReuseRevokes NoRefreshAfterRevocation GraceNotExceeded
\* The clock and the pool of tokens are bounded.
CHECK_DEADLOCK FALSE
