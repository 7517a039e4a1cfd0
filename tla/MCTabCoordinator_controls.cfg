SPECIFICATION CoordSpec
CONSTANTS
    Request = {r1, r2, r3, r4}
    Tab = {t1}
    Browser = browser
    Nobody = nobody
    Priority = {"read", "mutation", "control"}
    Gates = {g1, g2}
    MaxQueueSize = 3
    MaxConsecutiveReads = 1
    MaxConsecutiveMutations = 1
    MaxConsecutiveControls = 1
    MaxConsecutiveExclusives = 1
    Aging = FALSE
    MaxCancels = 0
PROPERTIES
    ControlsYieldToMutations
