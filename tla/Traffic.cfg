SPECIFICATION TrafficSpec
CONSTANTS
  Byte <- MCByte
  Nil = Nil
  MaxBufferSize = 3
  MaxArray = 4
  Kinds = {"+", "-", ":", "$", "*", "_", ",", "(", ">", "%", "~", "|"}
  Logins = TRUE
  Commands <- MCCommands
  ShortRead = {"other"}
  Faults = {"route", "write"}
INVARIANT DispatchedInOrder
INVARIANT TwoPhases
 
INVARIANT LoginConverted
INVARIANT ClosedOnlyIfCut
INVARIANT MetricsAgree
PROPERTY CommandsHandled
CHECK_DEADLOCK FALSE
