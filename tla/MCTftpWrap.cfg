SPECIFICATION Spec
CONSTANTS
    NBlocks = 6
    SequenceSize = 4
    TIMEOUT_COUNT = 1
    netretry = "yes"
    Prompt = TRUE
    MaxStarts = 1
    MaxSessions = 2
    MaxFaults = 1
PROPERTY SameBlockIgnored
CHECK_DEADLOCK FALSE
