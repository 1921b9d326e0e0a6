CONSTANTS
    Instances = {i1}
    Appends = {a1, a2}
    JobAppends = {a1, a2}
    NoAppend = NoAppend
    Readers = {p1}
    TerminalAppends = {a2}
    UsesRedis = FALSE
    MaxCrashes = 1
    MaxDrops = 2
    MaxRedisFaults = 0
SPECIFICATION FairSpec
INVARIANT GapsAreCancelled
PROPERTY EventuallySeen
PROPERTY AppendsEnd
