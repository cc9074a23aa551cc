SPECIFICATION FairSpec
CONSTANTS
    Registers = {g1}
    Enables = {e1}
    Disables = {}
    Unregisters = {u1}
    Restores = {r1}
    Boots = {}
    Deployment = deployment
    Deployed = FALSE
    StartAt = NoTime
    Repetitions = Infinite
    Interval = 1
    RestoreAttempts = 3
    MaxTime = 1
    MaxFaults = 0
    NoTime = NoTime
    NoRef = NoRef
    Infinite = Infinite
    Free = Free
PROPERTY ArmedAgain
CHECK_DEADLOCK FALSE
