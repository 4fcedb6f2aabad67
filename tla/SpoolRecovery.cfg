CONSTANTS
    Event = {e1, e2}
    Worker = {w1}
    None = None
    Limit = 1
    MaxAttempts = 4
    MaxMishaps = 2
    Retention = TRUE
SPECIFICATION Spec
INVARIANTS
    TypeOK
    GoneOnlyWhenSettled
    IngestedOnce
    FailedEventKept
PROPERTIES
    PublishedEventSettles
