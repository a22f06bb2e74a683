\* Requests one after the other on a graph of five units.
CONSTANTS
    db = db
    app = app
    web = web
    cache = cache
    log = log
    c1 = c1
    c2 = c2
    Unit = {db, app, web, cache, log}
    Waiter = {c1, c2}
    MaxId = 3
    RequiredBy <- StackRequiredBy
    PartOfBy <- StackPartOfBy
    BoundBy <- StackBoundBy
    WantedBy <- StackWantedBy
    PropagatesTo <- StackPropagates
    Unneeded = {cache}
    Service = {db, app, web, cache}
    ExecStop = {db, web}
    ExecStopPost = {app}
    Overlap = FALSE
    MaxRestarts = 2
SPECIFICATION FairSpec
INVARIANTS
    TypeOK
    OneChain
    NothingForgotten
PROPERTIES
    StopsInOrder
    UnneededCollected
