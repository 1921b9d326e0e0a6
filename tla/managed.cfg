CONSTANTS
    Uses = {bash, edit}
    AlwaysAsk = {bash}
    NoUse = NoUse
    MaxReconnects = 1
    PageSize = 2
    MaxEvents = 3
    MaxReplies = 1
SPECIFICATION Spec
INVARIANT ManagedTypeOK
INVARIANT NoEventSkipped
INVARIANT RequestIsNotTheEnd
INVARIANT VerdictReachesJob
PROPERTY ImplementsToolGate
