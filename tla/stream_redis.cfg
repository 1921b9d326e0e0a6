CONSTANTS
    Instances = {i1, i2}
    Appends = {a1, a2}
    JobAppends = {a1, a2}
    NoAppend = NoAppend
    Readers = {p1}
    TerminalAppends = {}
    UsesRedis = TRUE
    MaxCrashes = 1
    MaxDrops = 1
    MaxRedisFaults = 1
SPECIFICATION Spec
SYMMETRY Symmetry
INVARIANT StreamTypeOK
INVARIANT AppendNeverCollides
INVARIANT StreamOrdered
