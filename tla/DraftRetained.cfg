SPECIFICATION Spec
CONSTANTS
  NoDraft = NoDraft
  MaxRevision = 2
  MaxStamp = 3
INVARIANT
  AcknowledgedDraftRetained
