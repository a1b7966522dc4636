SPECIFICATION FairSpec
CONSTANTS
    Phone = {"a", "b"}
    Plan <- TwoCalls
    Scenes <- AllScenes
INVARIANTS TypeOK GlareHasOneWinner ConversationIsLogged 
PROPERTIES CallsEnd ImplementsLifecycle
CHECK_DEADLOCK FALSE
