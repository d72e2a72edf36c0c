CONSTANTS
  a = a
  b = b
  d = d
  Producer = p
  c1 = c1
  c2 = c2
  c3 = c3
  Consumers <- MCThree
  NoThread = NoThread
  Names <- MCNames
  NoName = NoName
  Missing = Missing
  Arguments <- OneToThree
  MAX_COMMANDS = 4
  Buckets = 2
  FirstChar <- MCFirstChar
  Build = "rwlock"
SPECIFICATION Spec
INVARIANTS TypeOK FileOrder INumbersFollowFile SequentialTree FinalTree RenameReach Delivered
PROPERTIES Termination
