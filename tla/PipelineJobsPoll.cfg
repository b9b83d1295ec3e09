SPECIFICATION FairSpec
CONSTANTS
  r1 = r1
  r2 = r2
  c1 = c1
  d1 = d1
  d2 = d2
  NoJob = NoJob
  Contexts = {c1}
  Requests = {r1}
  Readers = {d1}
  Scopes <- MCScopes
  MaxSweeps = 1
  MaxLost = 1
  MaxAges = 6
  MaxReports = 1
INVARIANT EventLogExplainsJob
PROPERTIES OnlyStalenessRewritesTerminal JobSettles PolledJobSettles
CHECK_DEADLOCK FALSE
