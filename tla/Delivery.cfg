SPECIFICATION DeliveryFairSpec
CONSTANTS
    p1 = p1
    t1 = t1
    c1 = c1
    s1 = s1
    Presses = {p1}
    Transfers = {t1}
    Confirms = {c1}
    Spots = {s1}
    GoalSteps = 1
    MaxJobs = 2
    NoProcess = NoProcess
INVARIANT WatchedJobTold
PROPERTY ReassertDelivers
CHECK_DEADLOCK FALSE
