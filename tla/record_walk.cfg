SPECIFICATION TelegramSpec
CONSTANTS
    Areas <- MCAreas
    maxExtensions <- MCmaxExtensions
    MaxUint64 = 2147483647
    Float32 <- MCFloat32
    ProductLabels <- MCProductLabels
INVARIANTS
    TypeOK
    RecordsTile
    WholeOrRefused
    ReadingsAreMeant
    ValueIsSent
    TimestampIsSent
    
PROPERTIES
    DecodeEnds
CHECK_DEADLOCK FALSE
