CONSTANTS
  c1 = c1
  c2 = c2
  Consumers = {c1, c2}
  Teams <- OneOrTwo
  IndexMod = 4
  Requests = {2}
  OpSizes = {0, 1, 2}
  MaxBytes = 5
  Credit = TRUE
SPECIFICATION Spec
PROPERTIES EachByteOnce OperationsReturn
