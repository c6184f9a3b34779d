CONSTANTS
    Requests = {r1, r2}
    Heads = {h1, h2}
    Processes = {p1, p2}
    Transfers = {t1, t2}
    Calls = {c1, c2, c3}
    MaxDirs = 2
    Size = 2
    MaxContent = 1
    MaxChanges = 2
    MaxFaults = 1
    None = None
SYMMETRY Symmetry
SPECIFICATION TransferSpec
INVARIANTS Inv InterruptedExportResumes
CHECK_DEADLOCK FALSE
