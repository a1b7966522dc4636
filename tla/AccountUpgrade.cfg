SPECIFICATION Spec
CONSTANTS
    Keys = {k1}
    None = none
    Generations = {g1}
    Installs = {"old"}
    MaxAttempts = 2
    MaxRestarts = 1
    MaxFailures = 0
    Back = FALSE
    LateAnswers = FALSE
    OpenFails = FALSE
    UnlockInWipe = FALSE
    Interrupt = TRUE
INVARIANTS
    MigratedBeforeLoad
CHECK_DEADLOCK FALSE
