\* Restart=always: systemctl restart and the exit of the old process.
CONSTANTS
    t1 = t1
    Control = {t1}
    MaxPid = 3
    MaxRequests = 1
    Requests = {"restart"}
    RestartDecisions = {TRUE}
    GivesUp = FALSE
    HasExecStop = FALSE
SPECIFICATION Spec
INVARIANTS
    NoOrphan
CHECK_DEADLOCK FALSE
