SPECIFICATION Spec
CONSTANTS
    Runs = {r1, r2}
    Texts = {t1, t2}
    None = None
    RoleCount = 1
    OtherVerdicts = {"reject"}
    MaxRounds = 2

CHECK_DEADLOCK FALSE
INVARIANTS
    ReviewReadsPolicy
    SnapshotIsPolicy
    OneSnapshot
    ReportsAreTrue
    TraceExplainsSnapshot
    RevisionsAreBudgeted
PROPERTIES
    ValidationEnds
