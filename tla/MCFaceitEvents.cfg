SPECIFICATION Spec
CONSTANTS
  h1 = h1
  h2 = h2
  None = None
  Handlers = {h1, h2}
  MaxRepeats = 2
  MaxDeaths = 2
INVARIANTS
  DecidedOnce
PROPERTIES
  DecidedIsFinal
  ResultLands
CHECK_DEADLOCK FALSE
