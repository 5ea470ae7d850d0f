SPECIFICATION Spec
CONSTANTS
  MaxNodes = 5
  MaxLinks = 7
  AnyMaxNodes = 4
  AnyMaxLinks = 6
  Kinds = {TRUE, FALSE}
INVARIANTS
  WellFormed
  FastEqualsSlow
  ComponentsFound
  ShownWhole
PROPERTIES
  IncrementalIsFull
  ShownNeverShrinks
  LoopEnds
CHECK_DEADLOCK FALSE
