SPECIFICATION FairSpec
CONSTANTS
    MaxJobs = 4
    MaxCrashes = 2
    g1 = g1
    g2 = g2
    Goals = {g1, g2}
    Adapter = Adapter
    Unreadable = Unreadable
    None = None
INVARIANTS JournalNamesLive AdoptedOrClosed
PROPERTY LeaseComesBack
CHECK_DEADLOCK FALSE
