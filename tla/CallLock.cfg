SPECIFICATION Spec
CONSTANTS
    Phone = {"a", "b"}
    Plan <- TwoCalls
    Scenes <- LockScene
INVARIANT LockEndsCall
CHECK_DEADLOCK FALSE
