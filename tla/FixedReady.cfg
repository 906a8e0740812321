SPECIFICATION FixedSpec
CONSTANTS
  Conn = {c1, c2, c3}
  User = {}
  PoolSize = 3
  MinIdleSize = 3
  MaxIdleSize = 3
  MaxActiveSize = 10
  Faults = {"dial", "close"}
  None = None
INVARIANT FixedTypeOK
 
INVARIANT ClosedIsClosed
PROPERTY ReadyIfUp
PROPERTY RetryEnds
CHECK_DEADLOCK FALSE
