SPECIFICATION Spec
CONSTANTS
  r1 = r1
  r2 = r2
  c1 = c1
  d1 = d1
  d2 = d2
  NoJob = NoJob
  Contexts = {c1}
  Requests = {r1, r2}
  Readers = {}
  Scopes <- MCScopes
  MaxSweeps = 1
  MaxLost = 1
  MaxAges = 2
  MaxReports = 1
SYMMETRY SymmetricRequests
INVARIANT DuplicatesOnlyByOverlap
PROPERTY ImplementsLifecycle
CHECK_DEADLOCK FALSE
