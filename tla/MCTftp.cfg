SPECIFICATION Spec
CONSTANTS
    NBlocks = 2
    SequenceSize = 8
    TIMEOUT_COUNT = 1
    netretry = "once"
    Prompt = FALSE
    MaxStarts = 2
    MaxSessions = 2
    MaxFaults = 0
INVARIANTS TypeOK ImageComplete InOrder
PROPERTY ImplementsFileTransfer
CHECK_DEADLOCK FALSE
