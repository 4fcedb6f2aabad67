CONSTANTS
    Process = {p1, p2}
    Skill = {a, b}
    Absent = Absent
    File = File
    Nobody = Nobody
    MaxMishaps = 2
SPECIFICATION Spec
INVARIANTS
    NoHalfInstall
PROPERTIES
    ForeignKept
