CONSTANTS
    Actor = {a1, a2}
    base = base
    first = first
    second = second
    rival = rival
    Head = base
    None = None
    Candidates <- MCCandidates
    MaxMishaps = 1
SPECIFICATION Spec
SYMMETRY ActorSymmetry
INVARIANTS
    TypeOK
    ActiveReleaseInUse
    DiscardedNeverInUse
PROPERTIES
    RecordsFollowLinks
    MonitorKeepsNewerRelease
    DecisionsAreFinal
CHECK_DEADLOCK FALSE
