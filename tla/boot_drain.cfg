CONSTANTS
  dev = dev
  mnt = mnt
  app = app
  log = log
  Unit = {dev, mnt, app, log}
  Waiter = {}
  MaxId = 5
  After <- BootAfter
  Requires <- BootRequires
  Wants <- BootWants
  Triggers <- None
  Goal = app
  Devices = {dev}
  Mounts = {mnt}
  Deferring = {app}
  MayFail = {mnt}
  ConditionFails = {}
  AssertFails = {}
  Absent = {}
  Also = {log}
  Slow = {log}
SPECIFICATION BootSpec
INVARIANTS BootTypeOK OrderRespected NoStrandedJob BootComplete
PROPERTY BootReturns
CHECK_DEADLOCK FALSE
