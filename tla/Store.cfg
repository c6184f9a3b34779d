CONSTANTS
    Ids = {1, 2, 3, 4, 5}
    Limit = 2
    LastTick = 2
    Kinds = {"newest", "thread", "log", "catalog"}
    MaxBytes = 4
    MaxLines = 1
    MaxChars = 4
    MaxWrites = 1
    Paths = {1, 2, 3, 4}
    OwnPaths = {4}
    MaxChanges = 3
    TextLines = 5
    stepA = stepA
    stepB = stepB
    stepC = stepC
    ghost = ghost
    PlanIds = {1, 2}
    TaskIds = {1, 2}
    Forms = {"plain", "nested", "reserved", "parent", "brace"}
    MaxPaths = 2
    MaxTouches = 2
    Savers = {1, 2}
    MaxEdits = 1
    Updates = {1, 2}
    Foreign = 1
    MaxCrashes = 1
    Catalogs = {1, 2}
    Changes = {1, 2, 3}
    Workspaces = {"a", "b"}
    Starts = {1, 2, 3, 4}
    MaxDeaths = 1
    Updaters = {1, 2, 3}
    Newest = 3
    MaxKills = 1
    MaxFaults = 1
    Requests = {1, 2, 3}
    Clients <- MCClients
    MaxMessages = 2
    MaxRepeats = 1
    MaxSequence = 4
    Files = {"a", "b"}
    PhaseOf <- TaskPhases
    Scope <- TaskFiles
    Calls = {1, 2}
    MaxCalls = 3
SPECIFICATION StoreSpec
INVARIANTS ComputedInv StoreInv ReadyMeansAgreed ExecutedIsAgreed OneWriter CommitsAreThePhases
PROPERTIES ScopeReviewStands NothingUnreadCompacted DecisionOnWhatWasSeen DoneStaysDone
CHECK_DEADLOCK FALSE
