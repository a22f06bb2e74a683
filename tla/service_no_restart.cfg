\* Restart=no: every request, in every order.
CONSTANTS
    t1 = t1
    Control = {t1}
    MaxPid = 3
    MaxRequests = 3
    Requests = {"start", "restart", "stop"}
    RestartDecisions = {FALSE}
    GivesUp = TRUE
    HasExecStop = TRUE
SPECIFICATION Spec
INVARIANTS
    TypeOK
    NoOrphan
CHECK_DEADLOCK FALSE
