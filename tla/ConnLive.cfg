SPECIFICATION FairSpec
CONSTANTS
  Session = {s1, s2}
  LoggedIn = {}
  Conn = {c1}
  None = None
  Cmds = {"get"}
  MaxReqs = 2
  QueueSize = 1
  OutQSize = 1
  Faults = {}
PROPERTY EveryRequestAnswered
CHECK_DEADLOCK FALSE
