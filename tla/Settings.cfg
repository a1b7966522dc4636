SPECIFICATION FairSpec
CONSTANTS
    Value = {"hour", "week"}
    Default = "day"
    Plans <- NegotiationOrNames
INVARIANTS TypeOK ChangesByConsent 
CHECK_DEADLOCK FALSE
 
