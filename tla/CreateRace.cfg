CONSTANTS
  s1 = s1
  s2 = s2
  alice = alice
  bob = bob
  a = a
  b = b
  c = c
  Sessions = {s1, s2}
  Uids <- MCUids
  Uid <- MCUid
  Names <- MCNames
  Garbage = Garbage
  FREE_INODE = FREE_INODE
  NULL = NULL
  Freed = Freed
  Contents = {u}
  Perms <- OpenPerms
  Modes = {3}
  Ops = {"c"}
  INODE_TABLE_SIZE = 2
  MAX_OPEN_FILES = 1
  MaxRequests = 1
SPECIFICATION Spec
PROPERTIES ExistingIsKept
