CONSTANTS
    Uses = {bash, edit}
    AlwaysAsk = {bash}
    NoUse = NoUse
    MaxReconnects = 1
    PageSize = 2
    MaxEvents = 3
    MaxReplies = 0
SPECIFICATION FairSpec
PROPERTY SessionJobEnds
PROPERTY RejectedAgentStops
