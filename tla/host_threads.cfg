SPECIFICATION AllSpec
CONSTANTS
  LineLength = 3
  BufferSize = 4
  Spaces = {1, 2}
  MaxEvents = 2
  Commands = {c1, c2}
  Panicking = {"ipc"}
INVARIANTS
  AnsweredOrFailed
  ReapedOrKilled
PROPERTIES
  MessagesDelivered
  ShutdownTold
  SigintEnds
CHECK_DEADLOCK FALSE
