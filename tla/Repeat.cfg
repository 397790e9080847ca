SPECIFICATION Spec
SYMMETRY Symmetry
CONSTANTS
    Threads = {t1, t2}
    Verifiers = {v1}
    Steps = 4
    PerRound = 2
    MaxRuns = 2
    MaxPauses = 1
    MaxStops = 1
    MaxRestarts = 2
    MaxFailures = 2
    None = None
INVARIANTS NothingBetween ReservedForSomeone OneStepAtATime LockHoldsCell
PROPERTY UnlockedWhenQuiet
CHECK_DEADLOCK FALSE
