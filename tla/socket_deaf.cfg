\* Starts may fail after the handler has handed them over.
CONSTANTS
    Kinds = {"simple", "notify"}
    Troubles = {"late"}
    Wanted = {TRUE}
    Burst <- TriggerLimits
    PollBurst <- PollLimits
    MaxConnections = 2
    MaxPerSource = 1
    FlushPending = {}
    DeferTrigger = {"simple"}
    MaxArrivals = 1
    MaxRefusals = 1
    MaxOther = 1
SPECIFICATION Spec
PROPERTIES
    ConnectionAnswered
CHECK_DEADLOCK FALSE
