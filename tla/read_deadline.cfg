SPECIFICATION Spec
CONSTANTS
    Transports <- MCTransports
    frameReadTimeout = 5
    readPollInterval = 2
    silentReadBackoff = 1
    CtxTimeouts <- MCCtxTimeouts
    MaxCalls = 2
    MaxStall = 3
INVARIANTS
    TypeOK
    NoOverwait
    ReturnsAreTrue
PROPERTIES
    CallEnds
CHECK_DEADLOCK FALSE
