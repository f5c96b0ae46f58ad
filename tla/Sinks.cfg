CONSTANTS
  kBufferCapacity = 2
  kMaxLineSize = 3
  Sizes = {1, 2, 3, 4}
  Stamps = {1}
  MaxLines = 3
  MaxRuns = 3
  s1 = s1
  s2 = s2
  s3 = s3
  Sinks = {s1, s2, s3}
  BufferedSinks = {s1, s2}
  ColourSinks = {s1}
  StdoutCapacity = 2
  PrefixLen = 0
  AnsiLen = 0
  Contents = {1, 3}
  MaxStdoutLines = 3
SPECIFICATION Spec
INVARIANTS WrittenLinesSurvive LinesInOrder NothingLostUnlessFaulty RotationSeparatesRuns
INVARIANTS StdoutLinesIntact DestroyedSinkWroteAll OverrunAtMostOne
