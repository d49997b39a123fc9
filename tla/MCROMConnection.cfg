CONSTANTS
    HeaderSize = 2
    KeyLength = 1
    MaxPacketSize = 5
    BufferSize = 9
    StreamLen = 10
    k1 = k1
    k2 = k2
    FixedKey = FixedKey
    NoKey = NoKey
    Keys <- MCKeys
    Streams <- MCStreams
SPECIFICATION FairSpec
CHECK_DEADLOCK FALSE
INVARIANTS
    TypeOK
    NeverOutOfSpace
    LeftoverIsPartial
PROPERTIES
    AnswersPacketStream
    AllAnswered
