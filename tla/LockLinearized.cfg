SPECIFICATION Spec
CONSTANTS
  Launchers = {a, b, d}
  Children = {}
  NoMarker = NoMarker
  MaxCrashes = 1
  Prompt = TRUE
CHECK_DEADLOCK FALSE
INVARIANT
  Linearized
