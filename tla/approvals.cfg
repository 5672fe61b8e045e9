\* Two voters and a requester race for one request that needs one or two
\* approvals; up to three calls are under way, one of them may be cut short.
CONSTANTS
  Requests = {r1}
  People = {1, 2, 3}
  Requesters = {3}
  Quorums = {1, 2}
  Calls = {c1, c2, c3}
  None = None
  Ttl = 1
  MaxTime = 2
  MaxCrashes = 1
SPECIFICATION FairSpec
INVARIANTS QuorumBehindApproval SpentAtMostOnce AuditTellsOutcome AuditedVotesStand
PROPERTIES LifecycleSpec FullQuorumSettles
\* Nobody is obliged to call: the system may stop.
CHECK_DEADLOCK FALSE
