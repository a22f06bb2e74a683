\* Safety of the registry with two owners, two units, job ids 1 to 3 (MaxId is never handed out).
CONSTANTS
    u1 = u1
    u2 = u2
    o1 = o1
    o2 = o2
    w1 = w1
    Unit = {u1, u2}
    Waiter = {w1}
    Owner = {o1, o2}
    MaxId = 4
    Requested = {"Start", "Restart", "TryRestart"}
SPECIFICATION Spec
SYMMETRY Symmetry
INVARIANTS
    TypeOK
    OneJobPerUnit
    RunQueueSound
    HoldersMatch
    WaiterAccounting
PROPERTIES
    NoDowngrade
