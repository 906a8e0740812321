SPECIFICATION PoolSpec
CONSTANTS
  Conn = {c1, c2, c3, c4, c5}
  User = {u1, u2}
  PoolSize = 2
  MinIdleSize = 1
  MaxIdleSize = 1
  MaxActiveSize = 3
  Faults = {"dial", "stale", "buffered", "close"}
  None = None
SYMMETRY Symmetry
INVARIANT PoolTypeOK
INVARIANT Exclusive
INVARIANT CountersAgree
INVARIANT SlotsHeld
INVARIANT HandedOutListed
CHECK_DEADLOCK FALSE
