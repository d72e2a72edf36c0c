CONSTANTS
  x = x
  y = y
  Threads = {t1, t2}
  Names <- MCNames
  NoName = NoName
  INumbers = {1}
  Buckets = 2
  FirstChar <- MCFirstChar
SPECIFICATION Spec
INVARIANTS BothLocks
CHECK_DEADLOCK FALSE
