SPECIFICATION TrafficSpec
CONSTANTS
  Byte <- MCByte
  Nil = Nil
  MaxBufferSize = 3
  MaxArray = 3
  Logins = FALSE
  Kinds = {}
  Commands <- MCCommands
  ShortRead = {"EOF", "other"}
  Faults = {}
PROPERTY CommandsDispatched
CHECK_DEADLOCK FALSE
