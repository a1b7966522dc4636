SPECIFICATION FairSpec
CONSTANTS
    NumMessages = 3
    Batch = 2
    MaxKeys = 2
    MaxCrashes = 1
INVARIANTS LockTypeOK Readable
PROPERTY SelfHeals
