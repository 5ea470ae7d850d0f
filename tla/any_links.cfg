SPECIFICATION Spec
CONSTANTS
  MaxNodes = 5
  MaxLinks = 6
  AnyMaxNodes = 5
  AnyMaxLinks = 6
  Kinds = {FALSE}
INVARIANTS
  CompressionsAgree
CHECK_DEADLOCK FALSE
