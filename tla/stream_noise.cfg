SPECIFICATION Spec
CONSTANTS
    A = A
    B = B
    Ack = Ack
    Junk = Junk
    NoMsg = NoMsg
    Msg <- MCMsg
    Size <- MCSize
    HeadLen = 4
    MinSize = 7
    ChunkSize = 6
    E5Bytes <- E5Inside
    Transmissions <- Noisy
    MaxSends = 2
    Calls <- AllCalls
    MayFail = TRUE
INVARIANTS
    NoAnswerInvented
PROPERTIES
    ExactConsumption
