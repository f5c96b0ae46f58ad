CONSTANTS
  c1 = c1
  c2 = c2
  Consumers = {c1, c2}
  Teams <- OnlyTwo
  IndexMod = 8
  Requests = {3}
  OpSizes = {1}
  MaxBytes = 3
  Credit = FALSE
SPECIFICATION Spec
INVARIANT EmptyGivesUnderflow
