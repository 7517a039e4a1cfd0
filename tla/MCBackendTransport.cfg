SPECIFICATION TransportFairSpec
CONSTANTS
    Caller = {r1, r2}
    Streams = {r2}
    Control = hello
    NoChild = 0
    Modes = {"multiplexed", "single", "legacy", "failed", "rejected"}
    MaxInFlight = 2
    WriteQueueLimit = 3
    TombstoneLimit = 2
    WriteErrors = TRUE
    ReuseWhileWriting = FALSE
    MaxUses = 2
    MaxHellos = 3
    MaxChildren = 3
    MaxUnknown = 1
INVARIANTS
    AdmissionsAreLive
    HelloHasRoom
    LateAnswersGuarded
    WritesBounded
PROPERTIES
    EndedIsNeverWritten
    CallsSettle
    TombstonesGo
CHECK_DEADLOCK FALSE
