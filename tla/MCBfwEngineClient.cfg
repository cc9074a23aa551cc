CONSTANTS
    MaxCalls = 2
    TimedCalls = {1}
    MaxSubs = 3
    MaxUses = 4
    Topics = {events, instance}
    events = events
    instance = instance
    InstanceTopics = {instance}
    MaxChannels = 3
    MaxDisconnects = 2
    InitialRows = 3
    MaxRows = 5
    PageLimit = 2
    MaxPages = 3
SPECIFICATION Spec
INVARIANTS
    TypeOK
    OnlyReplacedSocketsLinger
    HeardUntilDisconnected
    DisposedHearsNothing
    NoFailureLooksLikeAResult
    ErrorsAreTheAnswers
    WalkSeesTheList
    CallsGiveWhatTheyPromise
PROPERTIES
    ConnectSettles
CHECK_DEADLOCK FALSE
