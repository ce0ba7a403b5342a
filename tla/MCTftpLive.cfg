SPECIFICATION FairSpec
CONSTANTS
    NBlocks = 3
    SequenceSize = 8
    TIMEOUT_COUNT = 2
    netretry = "yes"
    Prompt = TRUE
    MaxStarts = 3
    MaxSessions = 6
    MaxFaults = 2
PROPERTY TransferCompletes
CHECK_DEADLOCK FALSE
