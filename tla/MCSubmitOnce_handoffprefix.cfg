SPECIFICATION SubmitSpec
CONSTANTS
    p = p
    q = q
    Submitter <- TwoSubmitters
    ActionId <- Actions
    NoAction = NoAction
    MaxCrashes = 1
    MaxFaults = 0
SYMMETRY Symmetry
INVARIANT HandoffPrefixResumes
