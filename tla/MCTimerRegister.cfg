SPECIFICATION Spec
CONSTANTS
    Registers = {g1}
    Enables = {}
    Disables = {}
    Unregisters = {}
    Restores = {r1}
    Boots = {}
    Deployment = deployment
    Deployed = FALSE
    StartAt = NoTime
    Repetitions = 2
    Interval = 2
    RestoreAttempts = 3
    MaxTime = 2
    MaxFaults = 0
    NoTime = NoTime
    NoRef = NoRef
    Infinite = Infinite
    Free = Free
INVARIANT ArmedOnce
CHECK_DEADLOCK FALSE
