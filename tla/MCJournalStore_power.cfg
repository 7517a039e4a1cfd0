SPECIFICATION StoreSpec
CONSTANTS
    Caller = {c1, c2}
    NoCaller = NoCaller
    Retention = {}
    MaxRevision = 3
    MaxCrashes = 1
    MaxPowerLosses = 2
    MaxFaults = 1
SYMMETRY CallerSymmetry
INVARIANTS
    AcknowledgedSurvives
    AppendedToWhatWasSeen
