SPECIFICATION Spec
CONSTANTS
    Ack = Ack
    Junk = Junk
    NoMsg = NoMsg
    K = K
    L = L
    M = M
    Msg <- MCMsg
    Size <- MCSize
    HeadLen = 2
    MinSize = 3
    ChunkSize = 10
    E5Bytes <- MCE5Bytes
    MaxFaults = 1
    Prompt = TRUE
    Meters <- MCMeters
    Id <- MCId
    Overlaps <- Told
    Primaries <- MCPrimaries
    FirstPrimary <- MCFirstPrimary
    MaxJobs = 2
INVARIANTS
    SetMeansWritten
    ReadIsOfTheMeant
PROPERTIES
    OneIsToldFromSeveral
    OnlyTheMeantAreWritten
CHECK_DEADLOCK FALSE
