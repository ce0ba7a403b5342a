SPECIFICATION Spec
CONSTANTS
    a = a
    b = b
    Vars <- MCVars
    Values <- MCValues
    NoValue = NoValue
    Size <- LongB
    ENV_SIZE = 7
    Supported <- MCSupported
    serial = a
    default_environment <- MCDefault
    EqualsInName = FALSE
    Garbage = Garbage
INVARIANTS TypeOK InUse RestKept
PROPERTY SavedIsLoaded
CHECK_DEADLOCK FALSE
