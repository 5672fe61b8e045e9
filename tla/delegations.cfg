\* A chain of two links and a loop back, two calls, one failure, one expiry.
CONSTANTS
  boss = boss
  peer = peer
  lead = lead
  worker = worker
  helper = helper
  read = read
  write = write
  L1 = L1
  L2 = L2
  L3 = L3
  Agents = {boss, lead, worker}
  Permissions = {read}
  Own <- LoopOwn
  Links = {L1, L2, L3}
  Wanted <- LoopWanted
  Calls = {c1, c2}
  None = None
  MaxWalk = 16
  MaxTime = 1
  MaxFailures = 1
SPECIFICATION Spec
SYMMETRY CallSymmetry
INVARIANTS LiveMeansRooted NothingStranded RevokedIsAudited
CHECK_DEADLOCK FALSE
