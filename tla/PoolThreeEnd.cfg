CONSTANTS
  a = a
  b = b
  d = d
  Producer = p
  c1 = c1
  c2 = c2
  c3 = c3
  Consumers <- MCThree
  NoThread = NoThread
  Names <- MCNames
  NoName = NoName
  Missing = Missing
  Arguments <- ThreeTimes
  MAX_COMMANDS = 3
  Buckets = 2
  FirstChar <- MCFirstChar
  Build = "mutex"
SPECIFICATION Spec
INVARIANTS NothingAfterEnd
