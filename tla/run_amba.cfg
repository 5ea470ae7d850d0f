SPECIFICATION LifeSpec
CONSTANTS
  MaxClicks = 2
  MaxSends = 2
  Crashes = TRUE
INVARIANTS
  EndsInOrder
PROPERTIES
  HeadlessEnds
CHECK_DEADLOCK FALSE
