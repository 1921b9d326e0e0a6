CONSTANTS
    Tasks = {t1}
    Clients = {c1, c2, c3}
    NoClient = NoClient
    NoTask = NoTask
    RequireInitialApproval = TRUE
    UsesStdin = FALSE
    MaxConcurrent = 1
    MaxCrashes = 1
SPECIFICATION Spec
INVARIANT HumanGate
INVARIANT CompletionTruthful
INVARIANT JobIsReachable
INVARIANT WakeupNotLost
PROPERTY ImplementsGate
SYMMETRY Symmetry
