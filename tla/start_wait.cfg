CONSTANTS
  Types = {"notify", "oneshot", "forking", "exec", "dbus"}
  Reparked = {"notify", "oneshot", "forking", "exec", "dbus"}
  Contended = FALSE
SPECIFICATION Spec
INVARIANTS TypeOK NoIdleVerdict
PROPERTIES TermIsDeserved StartSettles
CHECK_DEADLOCK FALSE
