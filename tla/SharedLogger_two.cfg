CONSTANTS
  t1 = t1
  t2 = t2
  Threads = {t1, t2}
  capacity_ = 2
  MaxCalls = 2
SPECIFICATION Spec
CHECK_DEADLOCK FALSE
INVARIANT EachAcceptedOnce
