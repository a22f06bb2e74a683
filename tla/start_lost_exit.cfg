CONSTANTS
  Types = {"notify"}
  Reparked = {}
  Contended = FALSE
SPECIFICATION Spec
PROPERTY StartedMeansAlive
CHECK_DEADLOCK FALSE
