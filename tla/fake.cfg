CONSTANTS
    Clients = {c1, c2, c3}
    MaxFaults = 2
SPECIFICATION FairSpec
PROPERTY FakeGate
INVARIANT JobsTakeTurns
PROPERTY ApprovalCarriedOut
