SPECIFICATION Spec
CONSTANTS
    A = A
    B = B
    Ack = Ack
    Junk = Junk
    NoMsg = NoMsg
    Msg <- MCMsg
    Size <- MCSize
    HeadLen = 4
    MinSize = 7
    ChunkSize = 6
    E5Bytes <- E5Inside
    Transmissions <- Sound
    MaxSends = 3
    Calls <- QueueCalls
    MayFail = FALSE
INVARIANTS
    TypeOK
    StreamAligned
    NoSpuriousError
PROPERTIES
    ImplementsQueue
