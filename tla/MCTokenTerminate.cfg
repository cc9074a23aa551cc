SPECIFICATION FairSpec
CONSTANTS
    Diagrams <- OneTerminate
    Safe <- OneTerminate
    MaxInstances = 1
    MaxErrors = 0
    MaxCrashes = 1
INVARIANTS TerminateEndsAll
CHECK_DEADLOCK FALSE
