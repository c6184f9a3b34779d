CONSTANTS
    Tasks = {t1, t2}
    Texts = {"m"}
    MaxRequests = 2
    MaxSelected = 2
    MaxPolls = 1
    Attempts = 1
    ViewLimit = 1
    MaxRevision = 5
    MaxLoads = 2
    MaxStarts = 2
    MaxAnswers = 1
    Names = {"planner", "builder"}
    MaxSaves = 3
    Workspaces = {"x", "y"}
    Loads = {1, 2}
    MaxSwitches = 2
    MaxDrafts = 2
    MaxReads = 2
    MaxReloads = 1
SPECIFICATION PagesSpec
INVARIANT Inv
PROPERTY PagesSettle
CHECK_DEADLOCK FALSE
