SPECIFICATION Spec
CONSTANTS
    Keys = {k1, k2}
    None = none
    Generations = {g1}
    Installs = {"new", "current", "old", "reinstalled"}
    MaxAttempts = 2
    MaxRestarts = 2
    MaxFailures = 1
    Back = FALSE
    LateAnswers = FALSE
    OpenFails = FALSE
    UnlockInWipe = FALSE
    Interrupt = FALSE
INVARIANTS
    TypeOK
    OnboardedOpens
    LockHolds
    GoneForGood
    TrustFollowsIdentity
CHECK_DEADLOCK FALSE
