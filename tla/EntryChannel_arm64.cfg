CONSTANTS
  IndexMod = 16
  Requests = {3, 5}
  OpSizes = {2, 3}
  MaxBytes = 18
  WeakMemory = TRUE
  LenField = 2
  EntryHeader = 2
  Payloads = {0, 1}
  AnyLen = {0, 1, 5}
SPECIFICATION ChannelSpec
INVARIANT LengthImpliesEntry
