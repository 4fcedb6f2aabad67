CONSTANTS
    MaxSkills = 2
    MaxPlaces = 2
    MaxIds = 2
    MaximumRecords = 6
    MaximumMessages = 5
    MaxEdits = 1
SPECIFICATION MCSpec
CHECK_DEADLOCK FALSE
CONSTRAINTS AcceptedEarly FirstPlaceRead
INVARIANTS
    CorrelationExact
    IdentityIsNative
    OneSkillPerSession
