CONSTANTS
    Caller = {p1, p2}
    Variant = {v, w}
    Other = Other
    Malformed = Malformed
    Layouts <- MCLayouts
    MaxUpsets = 1
SYMMETRY Interchangeable
SPECIFICATION MCSpec
INVARIANTS
    HooksAsReported
PROPERTIES
    OthersKept
