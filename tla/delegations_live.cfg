\* The loop of delegations.cfg, no crash: every call ends.
CONSTANTS
  boss = boss
  peer = peer
  lead = lead
  worker = worker
  helper = helper
  read = read
  write = write
  L1 = L1
  L2 = L2
  L3 = L3
  Agents = {boss, lead, worker}
  Permissions = {read, write}
  Own <- LoopOwn
  Links = {L1, L2, L3}
  Wanted <- LoopWanted
  Calls = {c1, c2}
  None = None
  MaxWalk = 16
  MaxTime = 0
  MaxFailures = 0
SPECIFICATION FairSpec
PROPERTY CallsEnd
CHECK_DEADLOCK FALSE
