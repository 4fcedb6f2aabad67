CONSTANTS
    Proc = {p1, p2, p3}
    Policies = {observe, propose}
    NoPolicy = NoPolicy
SPECIFICATION Spec
INVARIANTS
    LockOwnership
    DecisionUsesCurrentPolicy
    GateHolderNeverWaits
PROPERTIES
    QueuedWriterServed
