CONSTANTS
    HeaderSize = 2
    KeyLength = 1
    MaxPacketSize = 5
    k1 = k1
    k2 = k2
    FixedKey = FixedKey
    NoKey = NoKey
    Keys <- MCKeys
    LogLegs = {"local", "remote"}
    ClientSendsKey = FALSE
    MaxData = 2
    MaxKeys = 2
    MaxControl = 0
    SockCap = 2
SPECIFICATION Spec
CHECK_DEADLOCK FALSE
INVARIANTS
    TypeOK
    ClientSeesServerStream
    ServerSeesClientStream
    KeysAgree
    LogDecodable
PROPERTIES
    HonestSessionSurvives
