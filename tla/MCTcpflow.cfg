CONSTANTS
    HeaderSize = 2
    KeyLength = 1
    MaxPacketSize = 5
    StreamLen = 7
    k1 = k1
    k2 = k2
    s2c = s2c
    c2s = c2s
    FixedKey = FixedKey
    NoKey = NoKey
    Keys <- MCKeys
    Conns <- MCConns
    Streams <- MCStreams
    Formats = {"log", "tcpflow", "padded"}
    ShowKeepalive = FALSE
SPECIFICATION Spec
CHECK_DEADLOCK FALSE
INVARIANTS
    TcpflowIsRead
