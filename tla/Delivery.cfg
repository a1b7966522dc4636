SPECIFICATION FairSpec
CONSTANTS
    Chunks <- TextAndPhoto
    MaxLoops = 2
    Fault = {"kill author", "lock author", "refuse", "drop", "kill reader", "lock reader"}
    MaxFaults = 1
INVARIANTS TypeOK SentArrives RetractionWins
PROPERTIES StaysGone PendingSettles
CHECK_DEADLOCK FALSE
