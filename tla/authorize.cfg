CONSTANTS
  Calls = {c1, c2}
  Admins = {a1, a2}
  counted = counted
  approved = approved
  Grants = {counted, approved}
  LimitOf <- Limit
  MustApprove = {approved}
  Own <- OwnGrants
  Lent <- LentGrants
  Inputs <- NewGrants
  Reservations <- Attempts
  Limits = {1, 2}
  None = None
  Bucket = 1
  Hour = 1
  MaxTime = 1
  MaxFailures = 1
  AuditAll = TRUE
SPECIFICATION Spec
SYMMETRY Symmetry
INVARIANTS NeverOver RevokedRefuses SpentIsAllowed TrailTellsAnswer AllowedIsCounted UpdateIsWhole
CHECK_DEADLOCK FALSE
