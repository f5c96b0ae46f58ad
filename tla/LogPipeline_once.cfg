CONSTANTS
  QueueBytes = 4
  HeaderSize = 1
  kMaxPayloadSize = 3
  Payloads = {0, 2, 3}
  LogLevels = {1, 4}
  Thresholds = {0, 4}
  MaxSinks = 2
  MaxLogs = 3
  MaxFlushes = 2
  MaxStarts = 1
SPECIFICATION Spec
INVARIANTS DeliveredInOrder EveryCallAccountedFor
PROPERTIES WaitsAreBarriers ImplementsDelivery FlushReturns StopReturns AcceptedIsProcessed
