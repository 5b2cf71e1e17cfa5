SPECIFICATION Spec
CONSTANTS
    Ack = Ack
    Junk = Junk
    NoMsg = NoMsg
    K = K
    L = L
    M = M
    N = N
    P = P
    Q = Q
    Msg <- MCMsg
    Size <- MCSize
    HeadLen = 2
    MinSize = 3
    ChunkSize = 10
    E5Bytes <- MCE5Bytes
    MaxFaults = 1
    Prompt = TRUE
    Meters <- MCMeters
    Id <- MCId
    Headless <- MCHeadless
    Overlaps <- Plain
    secondaryDigits = 2
    MaxDigit = 3
INVARIANTS
    FoundOnce
    SoundSearchFindsAll
PROPERTIES
    FoundUnderItsMask
    SearchEnds
CHECK_DEADLOCK FALSE
