SPECIFICATION QuotaSpec
CONSTANTS
    Operation = {o1, o2}
    Nobody = nobody
    Counter = counter
    RecordBytes = 3
    CopyBytes = {1, 2}
    MaxStateBytes = 6
    MaxEntries = 3
    MaxScanBytes = 12
    MaxCalls = 4
    MaxCrashes = 1
    MaxFaults = 1
    MaxOutside = 2
SYMMETRY QuotaSymmetry
CHECK_DEADLOCK FALSE
INVARIANTS
    CounterExact
PROPERTIES
    AdmissionWithinQuota
