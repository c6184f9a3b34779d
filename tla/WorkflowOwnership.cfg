CONSTANTS
    Procs = {p1, p2, p3}
    Pids = {k1, k2}
    Steps = {"plan", "build"}
    Deps <- PairDeps
    Order <- PairOrder
    Stoppers <- PlanStops
    RetryLimit = 1
    MaxAttempt = 4
    NoOwner = NoOwner
SPECIFICATION Spec
INVARIANTS RunInv ExclusiveExecution SnapshotFresh
PROPERTY ImplementsExclusiveRun
CHECK_DEADLOCK FALSE
