SPECIFICATION FairSpec
CONSTANTS
    Diagrams <- OneRace
    Safe <- OneRace
    MaxInstances = 2
    MaxErrors = 0
    MaxCrashes = 0
INVARIANTS NoTokenLost
CHECK_DEADLOCK FALSE
