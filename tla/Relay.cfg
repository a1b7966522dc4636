SPECIFICATION FairSpec
CONSTANTS
    NumEnvelopes = 2
    MaxFaults = 2
    InitRegistered = FALSE
    Enforcing = TRUE
    UserStops = TRUE
INVARIANTS TypeOK QueueOnlyUnsettled NeverWedged
PROPERTIES ImplementsContract NothingStaysOpen
CHECK_DEADLOCK FALSE
