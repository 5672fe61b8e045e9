\* A chain of three links built while its first is revoked; nothing fails.
CONSTANTS
  boss = boss
  peer = peer
  lead = lead
  worker = worker
  helper = helper
  read = read
  write = write
  L1 = L1
  L2 = L2
  L3 = L3
  Agents = {boss, lead, worker, helper}
  Permissions = {read, write}
  Own <- LineOwn
  Links = {L1, L2, L3}
  Wanted <- LineWanted
  Calls = {c1, c2}
  None = None
  MaxWalk = 16
  MaxTime = 0
  MaxFailures = 0
SPECIFICATION Spec
INVARIANT NoOrphanGrant
CHECK_DEADLOCK FALSE
