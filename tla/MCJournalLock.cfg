SPECIFICATION FairLockSpec
CONSTANTS
    Process = {p1, p2, p3}
    NoProcess = NoProcess
    HostOf <- OneHost
    MaxWaits = 2
    MaxAttempts = 1
    MaxCrashes = 1
    MaxRestarts = 1
    MaxFaults = 1
CHECK_DEADLOCK FALSE
INVARIANTS
    MutualExclusion
    HolderOwnsLock
PROPERTIES
    OnlyAbandonedMoved
    AttemptEnds
    AbandonedReclaimed
