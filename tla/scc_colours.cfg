SPECIFICATION Spec
CONSTANTS
  MaxNodes = 4
  MaxLinks = 5
  AnyMaxNodes = 4
  AnyMaxLinks = 5
  Kinds = {TRUE}
INVARIANTS
  ColoursAreComponents
CHECK_DEADLOCK FALSE
