SPECIFICATION TransportSpec
CONSTANTS
    Caller = {r1, r2}
    Streams = {r2}
    Control = hello
    NoChild = 0
    Modes = {"multiplexed"}
    MaxInFlight = 2
    WriteQueueLimit = 3
    TombstoneLimit = 1
    WriteErrors = TRUE
    ReuseWhileWriting = TRUE
    MaxUses = 3
    MaxHellos = 4
    MaxChildren = 4
    MaxUnknown = 1
INVARIANTS
    NoGuessedRoute
CHECK_DEADLOCK FALSE
