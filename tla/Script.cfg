SPECIFICATION ScriptFairSpec
CONSTANTS
    a = a
    b = b
    s1 = s1
    s2 = s2
    Materials = {a, b}
    Slots = {s1, s2}
    DefaultSlot = s1
    MaxRuns = 3
    MaxStops = 2
    MaxFaults = 1
    Nothing = Nothing
INVARIANTS RecordsTellTheTruth SceneIsTheCell CheckpointHasRecord DestinationKept
PROPERTY StopTakesHold
CHECK_DEADLOCK FALSE
