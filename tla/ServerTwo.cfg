CONSTANTS
  s1 = s1
  s2 = s2
  alice = alice
  bob = bob
  a = a
  b = b
  c = c
  Sessions = {s1, s2}
  Uids <- MCUids
  Uid <- MCUid
  Names <- MCNames
  Garbage = Garbage
  FREE_INODE = FREE_INODE
  NULL = NULL
  Freed = Freed
  Contents = {u}
  Perms <- GoodPerms
  Modes = {1, 2, 3}
  Ops = {"c", "l", "o", "r", "w", "x"}
  INODE_TABLE_SIZE = 2
  MAX_OPEN_FILES = 1
  MaxRequests = 2
SPECIFICATION Spec
INVARIANTS EntriesHaveInodes
PROPERTIES WriteNeedsPermission
CHECK_DEADLOCK FALSE
