SPECIFICATION Spec
CONSTANTS
  Params = {p0, p1, noise}
  Default = p0
  Noisy = noise
  Views = {"RawBlock", "State"}
  Steps = 1
  MaxLinks = 2
  MaxTicks = 1
  MaxEvents = 1
INVARIANTS
  RestsWhenDone
PROPERTIES
  LinksInOrder
  LinksArrive
  WindowLives
CHECK_DEADLOCK FALSE
