SPECIFICATION Spec
CONSTANTS
    Word = 1
    ByteBase = 32
    Files <- MCFiles
    Versions = {1, 2}
    Transformations = {"rompack"}
    Annotations = {"sys_name", "stat_name", "objectid", "charid"}
    Implied = 2
    EndMarker <- MCEndMarker
    PadSize = 6
    Payloads <- MCPayloads
    Fills = {0, 5}
    Texts <- MCTexts
    SysNames <- MCSysNames
    BufferSize = 7
    HeapJunk = {1}
    MaxPayloads = 1
INVARIANT AnySentIsHandled
CHECK_DEADLOCK FALSE
