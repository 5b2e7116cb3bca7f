SPECIFICATION FairSpec
CONSTANTS
  Tokens = {a, b}
  MaxReceipts = 1
  MaxGeneration = 2
  MaxConnections = 2
  MaxFaults = 2
  MaxOrders = 4
  Openings <- OneEditorAndTwoEditors
INVARIANTS
  TypeOK
  HoldsAreOwned
  ReceiptsAnswer
PROPERTIES
  HoldsEnd
  ReceiptsEnd
