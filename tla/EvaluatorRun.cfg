CONSTANTS
    Member = {m1, m2}
    OutputLimit = 2
    MaxOutput = 3
SPECIFICATION Spec
INVARIANTS
    NoProcessOutlivesItsRun
    ProofIsGenuine
PROPERTIES
    CallReturns
