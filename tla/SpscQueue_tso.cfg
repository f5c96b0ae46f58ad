CONSTANTS
  IndexMod = 8
  Requests = {1, 3}
  OpSizes = {0, 1, 2, 3}
  MaxBytes = 10
  WeakMemory = FALSE
SPECIFICATION FairSpec
INVARIANTS NoDataRace SizeNeverLow
PROPERTIES RefusalsAreJustified OperationsReturn ImplementsByteStream
