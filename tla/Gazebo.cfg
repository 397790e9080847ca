SPECIFICATION GazeboFairSpec
CONSTANTS
    MaxGoals = 3
    MaxStops = 2
    NoGoal = NoGoal
INVARIANT MovingIsTracked
PROPERTIES  TrackedEnds
CHECK_DEADLOCK FALSE
