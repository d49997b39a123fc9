CONSTANTS
    HeaderSize = 2
    KeyLength = 1
    MaxPacketSize = 5
    k1 = k1
    k2 = k2
    FixedKey = FixedKey
    NoKey = NoKey
    Keys <- MCKeys
    LogLegs = {}
    ClientSendsKey = TRUE
    MaxData = 1
    MaxKeys = 1
    MaxControl = 1
    SockCap = 1
SPECIFICATION FairSpec
CHECK_DEADLOCK FALSE
INVARIANTS
    RepliesAreOwed
PROPERTIES
    HonestSessionSurvives
    EverythingArrives
    KeepalivesAnswered
