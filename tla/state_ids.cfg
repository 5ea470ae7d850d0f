SPECIFICATION Spec
CONSTANTS
  States = {0, 1, 2}
  Root = 0
  Blocks = {1}
  NoBlock = 0
  MaxId = 6
INVARIANTS
  IdsAgree
  NamesSound
  LinksAscend
  LinksFollowExecution
PROPERTIES
  GrowInOnePiece
CHECK_DEADLOCK FALSE
