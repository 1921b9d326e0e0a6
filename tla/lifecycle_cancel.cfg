CONSTANTS
    Tasks = {t1}
    Clients = {c1, c2}
    NoClient = NoClient
    NoTask = NoTask
    RequireInitialApproval = TRUE
    UsesStdin = FALSE
    MaxConcurrent = 1
    MaxCrashes = 0
SPECIFICATION Spec
PROPERTY CancelIsFinal
