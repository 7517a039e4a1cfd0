SPECIFICATION SubmitSpec
CONSTANTS
    p = p
    q = q
    Submitter <- TwoSubmitters
    ActionId <- Actions
    NoAction = NoAction
    MaxCrashes = 1
    MaxFaults = 1
SYMMETRY Symmetry
INVARIANTS
    NoFalseSubmission
    PostedTurnIsRecoverable
PROPERTIES
    SendIsOneShot
    HandoffIsOneShot
    ImplementsLedger
    SendCarriesManifest
