CONSTANTS
    Processes = {p1, p2, p3}
    Unlock = "any"
    NoLock = NoLock
    Current = 17
    Versions = {0, 1, 2, 8, 9, 10, 11, 17, 18}
    MaxCrashes = 1
    k1 = k1
    k2 = k2
    k3 = k3
    x = x
    y = y
    Requests <- HostRequests
    MaxOps = 2
    MaxQueries = 1
    MaxLives = 2
    NoRow = NoRow
    Projects = {"a", "b"}
    MaxCalls = 3
SPECIFICATION DeviceSpec
INVARIANTS OneStore SchemaInv DeviceInv
PROPERTIES OnlyHolderReleases BusyHostKept TurnComes EverythingSettles
CHECK_DEADLOCK FALSE
