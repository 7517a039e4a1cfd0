SPECIFICATION StoreSpec
CONSTANTS
    Caller = {c1, c2}
    NoCaller = NoCaller
    Retention = {"compact", "prune", "purge"}
    MaxRevision = 2
    MaxCrashes = 1
    MaxPowerLosses = 0
    MaxFaults = 0
SYMMETRY CallerSymmetry
INVARIANTS
    PurgeLeavesNoResidue
