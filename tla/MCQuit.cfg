CONSTANTS
    login = login
    s1 = s1
    s2 = s2
    Servers <- MCOneServer
    LoginServer = login
    FDs = {1, 2, 3, 4}
    LoginPort = 1
    PortMax = 4
    TakenPorts = {2, 4}
    Backlog = 1
SPECIFICATION FairSpec
CHECK_DEADLOCK FALSE
PROPERTIES
    QuitIsHonoured
