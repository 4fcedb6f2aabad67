CONSTANTS
    Session = {s1, s2}
    Topic = {t1}
    Daemon = {d1}
    Reanalyst = r
    NoFile = NoFile
    None = None
    Pruned = Pruned
    Quorum = 2
    MaxHooks = 3
    MaxChanges = 3
SPECIFICATION Spec
INVARIANTS
    TypeOK
    QuorumOfTranscripts
PROPERTIES
    ClustersAdvance
    CardsAreCounted
