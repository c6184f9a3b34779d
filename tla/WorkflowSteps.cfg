CONSTANTS
    Procs = {p1, p2}
    Pids = {k1}
    Steps = {"plan", "build", "docs", "review"}
    Deps <- DiamondDeps
    Order <- DiamondOrder
    Stoppers <- PlanStops
    RetryLimit = 1
    MaxAttempt = 4
    NoOwner = NoOwner
SPECIFICATION FairSpec
INVARIANTS DependencyOrder CompletedRunIsDone
PROPERTIES HistoryKept ExecutionEnds
CHECK_DEADLOCK FALSE
