\* A user with one agent and a link to it, a second agent that may be created,
\* two calls with the same options, one failure, one act meanwhile.
CONSTANTS
  a1 = a1
  a2 = a2
  r1 = r1
  r2 = r2
  r3 = r3
  n1 = n1
  Agents = {a1, a2}
  Born = {a1}
  Rows = {r1, r2, r3, n1}
  Old = {r1, r2}
  Legacy = {r1, r2}
  On <- RowsOn
  Linked = {a1}
  Note <- NoteRows
  Offers <- OneOption
  Calls = {c1, c2}
  None = None
  MaxFailures = 1
  MaxActs = 1
SPECIFICATION FairSpec
INVARIANTS NoStepSkipped GoneIsClean RecordsTell EndsAsAsked
PROPERTY RetryFinishes
