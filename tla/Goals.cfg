SPECIFICATION FairSpec
CONSTANTS
    a = a
    b = b
    c = c
    s1 = s1
    s2 = s2
    s3 = s3
    Order <- MC_Order
    SlotOrder <- MC_SlotOrder
    NoRoute = {}
    Crossing <- MC_Crossing
    AnySlot = AnySlot
    Refused = Refused
    Starts <- MC_Starts
    Requests <- MC_Requests
    Environments <- MC_Environments
    ReturnEverything = ReturnEverything
    MaxGoals = 1
    MaxOthers = 1
    MaxFaults = 1
    MaxStops = 1
    MaxEdits = 1
    Unsure = Unsure
    None = None
INVARIANTS PlanRunsThrough StopReachesChild
PROPERTIES CompletedIsFulfilled CellComesBack
CHECK_DEADLOCK FALSE
