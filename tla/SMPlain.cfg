SPECIFICATION SMSpec
CONSTANTS
  Session = {s1, s2}
  LoggedIn = {}
  Conn = {c1}
  None = None
  Cmds = {"get", "auth"}
  MaxReqs = 2
  QueueSize = 1
  OutQSize = 1
  Faults = {"leave"}
  LoopOf <- LoopEach
  Locate <- SameConn
  ProdRuntime = TRUE
INVARIANT SMTypeOK
 
INVARIANT PairsUp
INVARIANT ReplyToRequester
INVARIANT CallbackOfOwnAuth
PROPERTY ImplementsMux
PROPERTY RefinesBackendConn
CHECK_DEADLOCK FALSE
