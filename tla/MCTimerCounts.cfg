SPECIFICATION Spec
CONSTANTS
    Registers = {}
    Enables = {}
    Disables = {d1}
    Unregisters = {u1}
    Restores = {r1}
    Boots = {}
    Deployment = deployment
    Deployed = TRUE
    StartAt = 1
    Repetitions = 3
    Interval = 1
    RestoreAttempts = 3
    MaxTime = 5
    MaxFaults = 1
    NoTime = NoTime
    NoRef = NoRef
    Infinite = Infinite
    Free = Free
INVARIANTS TypeOK ArmedIsAccounted StartsWithinRepetitions EachOccurrenceOnce
CHECK_DEADLOCK FALSE
