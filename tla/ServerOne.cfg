CONSTANTS
  s1 = s1
  s2 = s2
  alice = alice
  bob = bob
  a = a
  b = b
  c = c
  Sessions = {s1}
  Uids <- MCUids
  Uid <- MCUid
  Names <- ThreeNames
  Garbage = Garbage
  FREE_INODE = FREE_INODE
  NULL = NULL
  Freed = Freed
  Contents = {u}
  Perms <- AllPerms
  Modes = {0, 1, 2, 3}
  Ops = {"c", "l", "w", "r", "o", "d", "x"}
  INODE_TABLE_SIZE = 2
  MAX_OPEN_FILES = 2
  MaxRequests = 5
SPECIFICATION Spec
INVARIANTS TypeOK NoDangling SameFiles OpenFilesExist OwnLock
PROPERTIES Answered
CHECK_DEADLOCK FALSE
