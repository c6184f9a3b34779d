CONSTANTS
    None = None
    Procs = {p1, p2}
    Slots = {s1, s2}
    Reqs = {r1, r2}
    MaxRev = 8
    MaxEdit = 7
    MaxTalk = 4
    PromptMessages = 2
SYMMETRY Symm
SPECIFICATION Spec
INVARIANTS Inv ApprovalIsSound
CHECK_DEADLOCK FALSE
