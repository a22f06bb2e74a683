\* Two stops and a start that overlap in every way.
CONSTANTS
    db = db
    app = app
    web = web
    cache = cache
    log = log
    c1 = c1
    c2 = c2
    Unit = {db, app, log}
    Waiter = {c1, c2}
    MaxId = 4
    RequiredBy <- OverlapRequiredBy
    PartOfBy <- None
    BoundBy <- None
    WantedBy <- None
    PropagatesTo <- OverlapPropagates
    Unneeded = {}
    Service = {db, app}
    ExecStop = {app}
    ExecStopPost = {app}
    Overlap = TRUE
    MaxRestarts = 1
SPECIFICATION FairSpec
INVARIANTS
    NothingForgotten
PROPERTIES
    StopAnswered
    StopTakesEffect
