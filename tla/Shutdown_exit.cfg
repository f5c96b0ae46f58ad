CONSTANTS
  main = main
  other = other
  Threads = {main, other}
  Main = main
  Statics = {other}
  MaxEntries = 2
SPECIFICATION Spec
INVARIANTS ExitDrains NestedExitExplained
PROPERTIES ExitsEnd
