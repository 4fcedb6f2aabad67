CONSTANTS
    Proc = {p1, p2}
    base = base
    first = first
    second = second
    rival = rival
    None = None
    Commit <- MCCommit
    Candidates <- MCCandidates
    JournalSyncFails = FALSE
SPECIFICATION Spec
INVARIANTS
    DecidesOnSettledPair
    RollbackTargetExists
PROPERTIES
    ImplementsReleasePair
