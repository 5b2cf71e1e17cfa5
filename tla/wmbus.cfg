SPECIFICATION WirelessSpec
CONSTANTS
    Cases <- MCCases
INVARIANTS
    SlicesFit
    PayloadIsSent
    NoWrongReading
    IntactIsDecoded
    DamageIsTold
PROPERTIES
    WirelessEnds
CHECK_DEADLOCK FALSE
