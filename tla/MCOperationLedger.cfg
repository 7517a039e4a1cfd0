SPECIFICATION LedgerSpec
CONSTANTS
    ActionId = {a1, a2, a3, a4}
    NoAction = NoAction
SYMMETRY ActionSymmetry
CHECK_DEADLOCK FALSE
INVARIANTS
    TypeOK
    SnapshotReadable
    RecoveryNeverRepeats
    RecoveryObservesFurthest
    UncertainIsNotATrap
PROPERTIES
    OwnershipIsPermanent
