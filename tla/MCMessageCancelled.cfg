SPECIFICATION Spec
CONSTANTS
    Catchers = {c1, c2}
    Boundaries = {}
    EspStarts = {}
    Messages = {m1, m2}
    NoMessage = NoMessage
    MaxRegistrations = 1
    DrainAttempts = 2
    KeepRows = TRUE
    MaxFaults = 0
SYMMETRY Symmetry
PROPERTY CancelledTakesNoPending
CHECK_DEADLOCK FALSE
