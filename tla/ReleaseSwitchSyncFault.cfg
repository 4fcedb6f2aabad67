CONSTANTS
    Proc = {p1}
    base = base
    first = first
    second = second
    rival = rival
    None = None
    Commit <- MCCommit
    Candidates <- MCCandidates
    JournalSyncFails = TRUE
SPECIFICATION Spec
INVARIANTS
    RestingPairComplete
