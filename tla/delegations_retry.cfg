\* One caller, a chain of three links, a crash and a retry.
CONSTANTS
  boss = boss
  peer = peer
  lead = lead
  worker = worker
  helper = helper
  read = read
  write = write
  L1 = L1
  L2 = L2
  L3 = L3
  Agents = {boss, lead, worker, helper}
  Permissions = {read, write}
  Own <- LineOwn
  Links = {L1, L2, L3}
  Wanted <- LineWanted
  Calls = {c1}
  None = None
  MaxWalk = 16
  MaxTime = 0
  MaxFailures = 1
SPECIFICATION RetrySpec
INVARIANT RetryFinishesCascade
CHECK_DEADLOCK FALSE
