SPECIFICATION SMSpec
CONSTANTS
  Session = {s1, s2}
  LoggedIn = {s1, s2}
  Conn = {c1}
  None = None
  Cmds = {"get", "multi", "exec"}
  MaxReqs = 2
  QueueSize = 1
  OutQSize = 1
  Faults = {}
  LoopOf <- OneLoop
  Locate <- SameConn
  ProdRuntime = TRUE
SYMMETRY Symmetry
INVARIANT ReplyToRequester
CHECK_DEADLOCK FALSE
