CONSTANTS
    MaxIterations = 3
    MaxFaults = 2
    Findings = {f1, f2}
SPECIFICATION FairSpec
INVARIANTS Inv ViewInv
PROPERTIES NothingRedone ExecutionSettles
CHECK_DEADLOCK FALSE
