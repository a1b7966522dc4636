SPECIFICATION FairSpec
CONSTANTS
    MaxCalls = 2
    MaxToggles = 1
    Windows = {}
INVARIANTS TypeOK Mirrored SpeakerIsTruthful
PROPERTY RingsEnd
