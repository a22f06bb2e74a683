\* Restart=on-failure: exits, automatic restarts and stops.
CONSTANTS
    t1 = t1
    Control = {t1}
    MaxPid = 5
    MaxRequests = 3
    Requests = {"stop"}
    RestartDecisions = {TRUE, FALSE}
    GivesUp = TRUE
    HasExecStop = TRUE
SPECIFICATION FairSpec
INVARIANTS
    NoOrphan
    StopSticks
    StatusTellsTruth
PROPERTIES
    ExitNoticed
CHECK_DEADLOCK FALSE
