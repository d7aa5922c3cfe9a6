SPECIFICATION FairSpec
CONSTANTS
  BufferSize = 2
  MaxPackets = 2
  MaxTelemetry = 2
  MaxCuts = 1
INVARIANTS
  TypeOK
  PacketsHandledOnce
  StaleOnlyAfterReset
  TransferStaysWhole
  DeliveredInOrder
  StuckOnlyAfterReset
  RequestsAccountedFor
PROPERTIES
  PendingLeaves
