------------------------------- MODULE Inodes -------------------------------
(***************************************************************************)
(* The i-node table of the third delivery of TecnicoFS                     *)
(* (Operating Systems/proj3/server/lib/inodes.c).  Every function holds    *)
(* inode_table_lock from its first line to its return, so each is one      *)
(* step.  The content of a file is a value of Contents: what the functions *)
(* do with its characters (len, the final '\0') is left out.               *)
(***************************************************************************)
EXTENDS Integers

CONSTANTS Uids,              \* the users
          FREE_INODE,        \* the owner of a free i-node
          Contents,          \* what a write may put in a file
          NULL, Freed,       \* fileContent: no memory, and memory given back
          INODE_TABLE_SIZE

ASSUME InodesAssumption ==
  /\ FREE_INODE \notin Uids
  /\ NULL \notin Contents /\ Freed \notin Contents /\ NULL # Freed
  /\ INODE_TABLE_SIZE \in Nat \ {0}

NONE  == 0
WRITE == 1
READ  == 2
RW    == 3

INumbers == 0 .. INODE_TABLE_SIZE - 1

VARIABLE inode_table

Inode == [owner : Uids \cup {FREE_INODE},
          ownerPermissions : 0 .. 9, othersPermissions : 0 .. 9,
          fileContent : Contents \cup {NULL, Freed}]

inode_table_init ==
  inode_table = [i \in INumbers |-> [owner |-> FREE_INODE, ownerPermissions |-> NONE,
                                     othersPermissions |-> NONE, fileContent |-> NULL]]

\* Fault: an i-node without content is taken for a free one.
FreeIfEmpty == {i \in INumbers : inode_table[i].fileContent = NULL}

FreeINumbers == {i \in INumbers : inode_table[i].owner = FREE_INODE}

\* The first free i-node, or -1 when the table is full.
NextINumber == IF FreeINumbers = {} THEN -1
               ELSE CHOOSE i \in FreeINumbers : \A j \in FreeINumbers : i <= j

inode_create(uid, ownerPerm, othersPerm) ==
  inode_table' = [i \in INumbers |->
                    IF i = NextINumber
                    THEN [owner |-> uid, ownerPermissions |-> ownerPerm,
                          othersPermissions |-> othersPerm, fileContent |-> NULL]
                    ELSE inode_table[i]]

\* An i-number that inode_get, inode_set and inode_delete accept.  The code
\* compares with > INODE_TABLE_SIZE, one too many, but no caller passes an
\* i-number that was not given out by inode_create.
Used(i) == i \in INumbers /\ inode_table[i].owner # FREE_INODE

\* Fault: the content is freed and the owner stays.
inode_deleteContent(i) ==
  inode_table' = IF Used(i)
                 THEN [inode_table EXCEPT ![i].fileContent = IF @ = NULL THEN NULL ELSE Freed]
                 ELSE inode_table

\* The pointer to the freed content stays behind in the free i-node.
inode_delete(i) ==
  inode_table' = IF Used(i)
                 THEN [inode_table EXCEPT ![i].owner = FREE_INODE,
                         ![i].fileContent = IF @ = NULL THEN NULL ELSE Freed]
                 ELSE inode_table

inode_set(i, content) ==
  inode_table' = IF Used(i) THEN [inode_table EXCEPT ![i].fileContent = content]
                 ELSE inode_table

InodesTypeOK == inode_table \in [INumbers -> Inode]

\* Freed memory is reachable from free i-nodes only: no read, write, delete
\* or inode_table_destroy meets a content that was given back.
NoDangling == \A i \in INumbers : inode_table[i].fileContent = Freed => ~Used(i)
=============================================================================
