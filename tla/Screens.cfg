SPECIFICATION Spec
CONSTANTS
    Msgs <- MCMsgs
    Scenes <- MCScenes
    Asks <- MCAsks
    MaxWrites = 3
    MaxDepth = 3
    MaxLoads = 2
    Windows <- MCWindows
INVARIANTS TypeOK ScreensFollow
PROPERTY GateGuards
