SPECIFICATION StoreSpec
CONSTANTS
    Caller = {c1, c2}
    NoCaller = NoCaller
    Retention = {"compact", "prune", "purge"}
    MaxRevision = 3
    MaxCrashes = 1
    MaxPowerLosses = 0
    MaxFaults = 1
SYMMETRY CallerSymmetry
INVARIANTS
    CopiesAgree
    RetentionLeavesNoCopy
PROPERTIES
    AcknowledgedOnlyGrows
    AnswersNeverRegress
