\* Every kind of socket and every trouble the thread hears of.
CONSTANTS
    Kinds = {"simple", "notify", "accept"}
    Troubles = {"deps", "refuse", "skip"}
    Wanted = {TRUE, FALSE}
    Burst <- TriggerLimits
    PollBurst <- PollLimits
    MaxConnections = 2
    MaxPerSource = 1
    FlushPending = {"notify"}
    DeferTrigger = {"simple"}
    MaxArrivals = 2
    MaxRefusals = 1
    MaxOther = 2
SPECIFICATION Spec
INVARIANTS
    TypeOK
    SleepIsInformed
    LimitIsFinal
PROPERTIES
    TriggerAnswered
CHECK_DEADLOCK FALSE
