SPECIFICATION Spec
CONSTANTS
    Clients = {c1}
    Plans = {p1}
    Steps = 3
    MaxDecisions = 1
    MaxExecutions = 1
    MaxStops = 1
    MaxReleases = 1
    MaxCancels = 0
    LatchGatesSend = TRUE
    None = None
INVARIANT StopAppliesToRunning
CHECK_DEADLOCK FALSE
