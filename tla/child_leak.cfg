SPECIFICATION ReaperSpec
CONSTANTS
  Commands = {c1, c2}
  Panicking = {"ipc"}
INVARIANTS
  SigintKillsChildren
CHECK_DEADLOCK FALSE
