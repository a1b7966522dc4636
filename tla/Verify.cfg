SPECIFICATION FairSpec
CONSTANTS
    Phone = {"alice", "bob"}
    KeyRank <- Keys
    MaxDisruptions = 1
    Scenes <- AllScenes
INVARIANTS TypeOK ConfirmIsGenuine 
PROPERTIES  BothUnlock
CHECK_DEADLOCK FALSE
