SPECIFICATION FairSpec
CONSTANTS
  Launchers = {a, b}
  Children = {c}
  NoMarker = NoMarker
  MaxCrashes = 2
  Prompt = TRUE
CHECK_DEADLOCK FALSE
INVARIANTS
  TypeOK
  Linearized
  LeaseStaysOnDisk
PROPERTY
  NeverWedged
