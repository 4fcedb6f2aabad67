CONSTANTS
    Event = {e1, e2}
    Worker = {w1, w2}
    None = None
    Limit = 2
    MaxAttempts = 3
    MaxMishaps = 1
    Retention = FALSE
SPECIFICATION Spec
INVARIANTS
    LeaseHolderKeepsJob
    IngestedOnce
