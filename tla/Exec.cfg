SPECIFICATION Spec
SYMMETRY Symmetry
CONSTANTS
    Clients = {c1, c2}
    Plans = {p1}
    Steps = 2
    MaxDecisions = 2
    MaxExecutions = 2
    MaxStops = 1
    MaxReleases = 1
    MaxCancels = 1
    LatchGatesSend = TRUE
    None = None
INVARIANTS
    OneShotApproval
    RegistryIsLeaseHolders
    CancelHalts
PROPERTIES
    StopHalts
CHECK_DEADLOCK FALSE
