SPECIFICATION Spec
CONSTANTS
  MaxForks = 2
  MaxKills = 1
  MaxClicks = 2
  MaxBatches = 1
  Header = 2
  Capacity = 5
INVARIANTS
  BufferSuffices
  SearchersSound
  NewestChoiceWaits
PROPERTIES
  PacketsDelivered
  ChoiceHandedOver
  DestructorReturns
CHECK_DEADLOCK FALSE
