CONSTANTS
    Roots = {r1, r2}
    Handlers = {h1, h2}
    Selects = {s1, s2}
    MaxSelections = 3
    MaxChanges = 1
    MaxFaults = 1
SPECIFICATION FairSpec
INVARIANT SyncTypeOK
INVARIANT DevicesBounded
PROPERTY SyncIsExact
PROPERTY SyncConverges
PROPERTY SelectionsTakeTurns
