CONSTANTS
  MaxLen = 6
  MaxNest = 3
  MaxChars = 4
  Blocks = {2, 3}
  p1 = p1
  p2 = p2
  n1 = n1
  n2 = n2
  Procs = {p1, p2}
  TempNames = {n1, n2}
  Sizes = {0, 3}
  Depth = 2
  MaxObjects = 4
  kPlatformMaxFrames = 2
  kLineBufferSize = 14
  kFunctionStrLength = 2
  kFileStrLength = 3
  kAddressStrLength = 5
  PointerDigits = 1
  BufferSizes = {1, 14, 30}
  LowPage = 1
  UserTop = 3
  Align = 3
  Addresses = {0, 2}
  FunctionLens = {1, 2, 4}
  FileLens = {0, 2, 3}
  MaxDepth = 3
  Strings <- MCStrings
  kUint16Max = 2
  ArenaSize = 4
  MaxChanges = 3
SPECIFICATION Spec
INVARIANTS EscapeRoundTrips TruncateKeepsCharacters SplitJoins BracketsRemoved ArchiveBesideLog LinesAgree
INVARIANTS TempFileIntact DirectoriesMade TraceFits NamesReadBack RegistryReadsBack
