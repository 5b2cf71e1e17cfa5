SPECIFICATION Spec
CONSTANTS
    Ack = Ack
    Junk = Junk
    NoMsg = NoMsg
    K = K
    L = L
    M = M
    Msg <- MCMsg
    Size <- MCSize
    HeadLen = 2
    MinSize = 3
    ChunkSize = 10
    E5Bytes <- MCE5Bytes
    MaxFaults = 0
    Prompt = TRUE
    Meters <- MCMeters
    Id <- MCId
    Overlaps <- InTurn
    Primaries <- MCPrimaries
    FirstPrimary <- MCFirstPrimary
    MaxJobs = 1
PROPERTIES
    SecondarySetWritesOne
CHECK_DEADLOCK FALSE
