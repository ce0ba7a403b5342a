SPECIFICATION Spec
CONSTANTS
    FileLength = 5
    BlockLen = 2
    ReadLen = 4
    LengthSent = {TRUE, FALSE}
    EofUnits = {1}
    BlkModulus = 3
    MAX_RETRIES = 6
    MAX_RETRIES_WITH_CRC = 4
    MaxNoise = 2
    MaxSlow = 1
INVARIANTS TypeOK InOrder EofMeansComplete
PROPERTIES Ends Completes
CHECK_DEADLOCK FALSE
