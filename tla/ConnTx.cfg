SPECIFICATION Spec
CONSTANTS
  Session = {s1, s2}
  LoggedIn = {s1, s2}
  Conn = {c1}
  None = None
  Cmds = {"get", "multi", "exec"}
  MaxReqs = 1
  QueueSize = 1
  OutQSize = 1
  Faults = {"peer", "close", "leave"}
SYMMETRY Symmetry
INVARIANT ReplyOnce
CHECK_DEADLOCK FALSE
