SPECIFICATION AllSpec
CONSTANTS
  Nodes = 5
  MaxLinks = 4
  LIMIT = 100
  MaxPoints = 9
  FORK_JOIN_THRESHOLD = 2
  Values = {1, 2, 3, 4, 5}
  SMALL_SIZE = 3
  MaxFile = 4
  MaxLine = 3
  MaxWrites = 1
INVARIANTS
  PiecesSound
  TreeSound
  TextsSound
PROPERTIES
  CallsReturn
  NeighboursAreSets
CHECK_DEADLOCK FALSE
