CONSTANTS
    Folders = {f1, f2}
    Reads = {q1}
    Drafts = {p}
    Switches = {x1}
    Profiles = {"planner", "builder"}
    Providers = {"v"}
    MaxOpened = 2
    Runs = {"a", "b"}
    MaxOpens = 2
    MaxOps = 1
    MaxEdits = 2
    Commands = {"run", "resume", "approve", "review"}
    Modes = {"human", "json", "jsonl"}
    MaxEvents = 1
    MaxSignals = 3
SPECIFICATION Spec
INVARIANTS Inv NoUseAfterClose
PROPERTY ShutdownSettles
CHECK_DEADLOCK FALSE
