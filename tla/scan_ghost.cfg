SPECIFICATION Spec
CONSTANTS
    Ack = Ack
    Junk = Junk
    NoMsg = NoMsg
    Msg <- MCMsg
    Size <- MCSize
    HeadLen = 2
    MinSize = 3
    ChunkSize = 3
    E5Bytes <- MCE5Bytes
    MaxFaults = 1
    Prompt = TRUE
    From = 1
    To = 4
    Slaves <- MCSlaves
    NoAck <- MCNoAck
    AckOnly <- MCAckOnly
    Failures <- NoBreaks
INVARIANTS
    NoGhost
CHECK_DEADLOCK FALSE
