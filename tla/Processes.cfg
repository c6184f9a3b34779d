CONSTANTS
    MaxEvents = 3
    MaxBuffered = 2
    MaxFaults = 1
    OutputLimit = 1
    MaxOutput = 3
SPECIFICATION ProcessesSpec
INVARIANT Inv
PROPERTY ProcessesEnd
CHECK_DEADLOCK FALSE
