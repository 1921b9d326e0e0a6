CONSTANTS
    Connects = {c1, c2}
    Jobs = {j1}
    MaxFaults = 1
SPECIFICATION FairSpec
INVARIANT ListedHasHead
INVARIANT RunnersBounded
PROPERTY ConnectEnds
