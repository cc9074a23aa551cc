SPECIFICATION FairSpec
CONSTANTS
    Diagrams <- AllDiagrams
    Safe <- SafeDiagrams
    MaxInstances = 2
    MaxErrors = 1
    MaxCrashes = 1
INVARIANTS TypeOK JoinComplete ConsumedOnce EndedIsQuiet NoTokenLost JoinsFireOnce OneBranchGoesOn
PROPERTIES EndsWithoutCrash
CHECK_DEADLOCK FALSE
