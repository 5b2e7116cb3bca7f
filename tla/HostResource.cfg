SPECIFICATION FairSpec
CONSTANTS
  Source = s
  Others = {o, p}
  MaxRevision = 2
  MaxEvents = 2
  MaxFaults = 2
  Openings <- TwoMishaps
  Permissions = TRUE
  Restores = FALSE
INVARIANTS
  TypeOK
  CleanWasAccepted
  UncertainIsPending
PROPERTIES
  OverwritesOnlyItsBase
  CopyLeavesTheHost
  HostSaveSettles
