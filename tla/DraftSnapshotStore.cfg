SPECIFICATION Spec
CONSTANTS
  NoDraft = NoDraft
  MaxRevision = 3
  MaxStamp = 5
INVARIANTS
  TypeOK
  RecoversAcknowledgedOrRefused
  FencedWriteSettles
PROPERTY
  RefinesAcknowledgedDraft
