CONSTANTS
    s1 = s1
    s2 = s2
    a = a
    b = b
    None = None
    Sessions <- MCSessions
    Events <- MCEvents
    MaxSequence = 3
    Damage = {"content", "link", "number", "delete"}
    MaxEdits = 3
SPECIFICATION Spec
INVARIANTS
    TypeOK
    ChainSound
    VerifiedIsGenuine
PROPERTIES
    FollowsTrail
CHECK_DEADLOCK FALSE
