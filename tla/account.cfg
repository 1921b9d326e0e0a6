CONSTANTS
    Phones = {p1, p2}
    MaxSessions = 1
    MaxTasks = 1
    RateLimit = 2
    MaxTakenBack = 1
    MaxFaults = 1
SPECIFICATION Spec
SYMMETRY Symmetry
INVARIANT SessionsBounded
INVARIANT TasksBounded
INVARIANT StaleIsBeingDropped
INVARIANT RateKeyExpires
