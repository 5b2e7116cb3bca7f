SPECIFICATION Spec
CONSTANTS
  Source = s
  Others = {s}
  MaxRevision = 1
  MaxEvents = 1
  MaxFaults = 0
  Openings <- AnEvent
  Permissions = FALSE
  Restores = TRUE
INVARIANT
  SavedAfterReread
