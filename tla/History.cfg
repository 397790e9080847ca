SPECIFICATION HSpec
SYMMETRY Symmetry
CONSTANTS
    MaxGrants = 4
    None = None
    Threads = {c1, c2}
    Requests = {r1, r2}
    StopPlans = {r2}
    Steps = 2
    MaxAttempts = 2
    MaxFaults = 1
INVARIANTS
    HistoryInOrder
    BatchNotInterleaved
PROPERTY
    AuthorityHeldByOne
CHECK_DEADLOCK FALSE
