CONSTANTS
  goal = goal
  db = db
  log = log
  app = app
  mnt = mnt
  Unit = {goal, db, log, app, mnt}
  Waiter = {}
  MaxId = 1
  After <- FanInAfter
  Requires <- FanInRequires
  Wants <- FanInWants
  Triggers <- None
  Goal = goal
  Devices = {}
  Mounts = {mnt}
  Deferring = {app}
  MayFail = {app}
  ConditionFails = {log}
  AssertFails = {goal}
SPECIFICATION Spec
INVARIANTS TypeOK OrderRespected
PROPERTIES SettledStays ClosureSettles
CHECK_DEADLOCK FALSE
