SPECIFICATION Spec
CONSTANTS
    Catchers = {}
    Boundaries = {b1}
    EspStarts = {e1}
    Messages = {m1, m2}
    NoMessage = NoMessage
    MaxRegistrations = 2
    DrainAttempts = 2
    KeepRows = FALSE
    MaxFaults = 0
SYMMETRY Symmetry
INVARIANTS TypeOK OneMessagePerSubscription NoDeafWaiter
PROPERTY DeliveryKept
CHECK_DEADLOCK FALSE
