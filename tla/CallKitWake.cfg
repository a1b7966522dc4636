SPECIFICATION FairSpec
CONSTANTS
    MaxCalls = 1
    MaxToggles = 0
    Windows = {"early"}
PROPERTY RingsEnd
