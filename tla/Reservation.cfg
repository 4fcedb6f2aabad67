CONSTANTS
    Worker = {w1, w2}
    Candidate = {c1, c2, c3}
    None = None
    MaxMishaps = 2
SPECIFICATION Spec
INVARIANTS
    BranchHasOwner
    ClusterFollowsProposal
PROPERTIES
    RecoveryTakesStaleOnly
    LiveWorkKeptInTime
    EvaluatedKept
    ReservationEnds
