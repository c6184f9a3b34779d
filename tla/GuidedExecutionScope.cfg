CONSTANTS
    Files = {"a", "b", "c"}
    PhaseOf <- ThreeTasks
    Scope <- OwnFiles
    Calls = {1}
    MaxCalls = 1
    MaxFaults = 0
SPECIFICATION Spec
INVARIANT WorkspaceBlockIsTrue
CHECK_DEADLOCK FALSE
