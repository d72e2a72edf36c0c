CONSTANTS
  a = a
  b = b
  c = c
  Threads = {t1, t2}
  Names <- MCNames
  NoName = NoName
  INumbers = {1, 2}
  Buckets = 2
  FirstChar <- MCFirstChar
  Build = "rwlock"
SPECIFICATION Spec
INVARIANTS WriterAlone BucketPlacement IInv
PROPERTIES Linearizable
