SPECIFICATION Spec
CONSTANTS
  NoDraft = NoDraft
  Views = {v1}
  ItemSets = {i0, i1}
  NoItems = i0
  Versions = {p1, p2}
  FirstVersion = p1
  MaxRevision = 1
  MaxGeneration = 2
  MaxDestinations = 1
  MaxEvents = 2
  MaxFaults = 2
  Openings <- TwoMishaps
INVARIANTS
  CleanIsDelivered
  DurableMatchesMemory
  HoldsAtCurrentGeneration
PROPERTIES
  GenerationNeverAdvancesUnderAHold
  OverwritesOnlyUnannouncedChanges
  OwnPublicationNeverBecomesGeneration
