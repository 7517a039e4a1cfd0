SPECIFICATION MCTurnsSpec
CONSTANTS
    Request = {r1, r2, r3}
    Tab = {t1}
    Browser = browser
    Nobody = nobody
    Priority = {"read", "mutation", "control"}
    Gates = {g1}
    MaxQueueSize = 2
    MaxConsecutiveReads = 1
    MaxConsecutiveMutations = 1
    MaxConsecutiveControls = 1
    MaxConsecutiveExclusives = 1
    Aging = TRUE
    MaxCancels = 1
PROPERTIES
    RequestsSettle
