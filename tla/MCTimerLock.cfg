SPECIFICATION Spec
CONSTANTS
    Registers = {}
    Enables = {e1}
    Disables = {d1}
    Unregisters = {}
    Restores = {r1}
    Boots = {b1}
    Deployment = deployment
    Deployed = TRUE
    StartAt = NoTime
    Repetitions = 2
    Interval = 2
    RestoreAttempts = 3
    MaxTime = 4
    MaxFaults = 0
    NoTime = NoTime
    NoRef = NoRef
    Infinite = Infinite
    Free = Free
INVARIANTS ArmedIsAccounted PersistedMatchesArmed
CHECK_DEADLOCK FALSE
