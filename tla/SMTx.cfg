SPECIFICATION SMSpec
CONSTANTS
  Session = {s1, s2}
  LoggedIn = {s1, s2}
  Conn = {c1, c2}
  None = None
  Cmds = {"multi", "exec"}
  MaxReqs = 2
  QueueSize = 1
  OutQSize = 1
  Faults = {}
  LoopOf <- OneLoop
  Locate <- SameConn
  ProdRuntime = FALSE
SYMMETRY Symmetry
PROPERTY TxNotTakenOver
CHECK_DEADLOCK FALSE
