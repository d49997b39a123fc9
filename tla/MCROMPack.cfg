CONSTANTS
    FarBase = 5
    VeryFarBase = 8
    Pieces <- MCPieces
    PackSizes <- MCPackSizes
SPECIFICATION FairSpec
CHECK_DEADLOCK FALSE
INVARIANTS
    TypeOK
    StaysInside
    Accepted
PROPERTIES
    Implements
    Unpacks
