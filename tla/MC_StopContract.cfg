SPECIFICATION Spec
CONSTANTS
    r1 = r1
    r2 = r2
    r3 = r3
    motion = motion
    gripper = gripper
    Channels = {motion, gripper}
    Requests = {r1, r2, r3}
    ChannelOf <- MC_ChannelOf
    None = None
INVARIANTS
    LiveTracked
    ConfirmedMeansStill
PROPERTIES
    KeepsPromise
SYMMETRY MC_Symmetry
