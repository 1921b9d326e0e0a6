CONSTANTS
    Ops = {o1, o2}
    NoOp = NoOp
    Clients = {c1, c2}
    Jobs = {j1}
    Edits = {e1, e2}
    NewFiles = {e2}
    Foreign = {f1}
    Cloud = TRUE
    PhonesRace = FALSE
    MaxFaults = 1
SPECIFICATION Spec
SYMMETRY Symmetry
INVARIANT RunningIsWorkedOn
PROPERTY ImplementsReview
PROPERTY NoSilentLoss
