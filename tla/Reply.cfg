SPECIFICATION ReplySpec
CONSTANTS
  Client = {c1, c2}
  Pkt = {nil, p1, p2, p3}
  NilPacket = nil
  Kinds = {"line", "copy", "null"}
  MaxReplies = 4
  BufferSize = 2
  Nothing = Nothing
SYMMETRY Symmetry
INVARIANT ReplyTypeOK
 
INVARIANT CopiesKept
CHECK_DEADLOCK FALSE
