SPECIFICATION FairSpec
CONSTANTS
    a = a
    b = b
    Sessions = {a, b}
    Walked = {a}
    Intents = {"tag", "return"}
    MaxJobs = 2
    MaxStops = 1
    MaxStarts = 1
    MaxFaults = 1
    None = None
INVARIANTS ReturnsToOwnStart ArrivalIsThisLegs OnlyRacedLegsSurvive ClosingStopIsOwn
PROPERTY StopTakesEffect
CHECK_DEADLOCK FALSE
