SPECIFICATION FairSpec
CONSTANTS
  Session = {s1}
  LoggedIn = {}
  Conn = {c1}
  None = None
  Cmds = {"get"}
  MaxReqs = 3
  QueueSize = 1
  OutQSize = 1
  Faults = {"peer", "close"}
INVARIANT TypeOK
INVARIANT AnswersBounded
 
CHECK_DEADLOCK FALSE
