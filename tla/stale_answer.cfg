SPECIFICATION Spec
CONSTANTS
    A = A
    B = B
    C = C
    D = D
    Ack = Ack
    Junk = Junk
    NoMsg = NoMsg
    Slaves <- MCSlaves
    Telegrams <- MCTelegrams
    Msg <- MCMsg
    Size <- MCSize
    HeadLen = 2
    MinSize = 3
    ChunkSize = 3
    E5Bytes <- MCE5Bytes
    Endless <- MCEndless
    Undecodable <- MCUndecodable
    MaxFramesPerRead = 2
    Kinds <- BothKinds
    MaxJobs = 3
    MaxFaults = 1
    Prompt = TRUE
    MayCancel = FALSE
INVARIANTS
    FramesFromTheSlave
CHECK_DEADLOCK FALSE
