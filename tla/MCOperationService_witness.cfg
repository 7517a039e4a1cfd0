SPECIFICATION ServiceSpec
CONSTANTS
    c1 = c1
    c2 = c2
    send = send
    s1 = s1
    s2 = s2
    stop = stop
    TheSend = send
    Collector <- Collectors
    SteerCall <- Steers
    StopCall <- Stops
    Scenario <- Steered
    ActionId <- Actions
    NoAction = NoAction
    MaxText = 1
    MaxMishaps = 0
INVARIANTS
    SatisfiedSteerActed
