CONSTANTS
  QueueBytes = 4
  HeaderSize = 1
  kMaxPayloadSize = 3
  Payloads = {0, 2}
  LogLevels = {1, 4}
  Thresholds = {4}
  MaxSinks = 1
  MaxLogs = 1
  MaxFlushes = 1
  MaxStarts = 2
SPECIFICATION Spec
PROPERTY AcceptedIsProcessed
CHECK_DEADLOCK FALSE
