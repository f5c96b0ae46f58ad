CONSTANTS
  Kinds = {"str", "num", "obj"}
  SizeT = 2
  NumSize = 1
  HeaderBytes = 2
  kCapacity = 12
  kMaxPayloadSize = 10
  kInOrder = 1
  StrLens = {0, 1, 2}
  MaxArgs = 2
  MaxCalls = 2
  MaxVersions = 1
SPECIFICATION CodecSpec
INVARIANTS SizeIsExact ArgsAsLogged
