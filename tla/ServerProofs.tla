---------------------------- MODULE ServerProofs ----------------------------
(***************************************************************************)
(* Proofs about the server of the third delivery, for any number of        *)
(* sessions, names, i-nodes, slots and requests.                           *)
(***************************************************************************)
EXTENDS Server, WellFoundedInduction, TLAPS

\* The loop of inode_create ends at the first free i-node.
LEMMA LeastFree ==
  NextINumber \in FreeINumbers \/ (NextINumber = -1 /\ FreeINumbers = {})
<1> SUFFICES ASSUME FreeINumbers # {}
             PROVE  \E i \in FreeINumbers : \A j \in FreeINumbers : i <= j
  BY DEF NextINumber
<1>1. FreeINumbers \subseteq Nat
  BY InodesAssumption DEF FreeINumbers, INumbers
<1>2. PICK i \in FreeINumbers : \A j \in FreeINumbers : <<j, i>> \notin OpToRel(<, Nat)
  BY <1>1, NatLessThanWellFounded, WFMin, Zenon
<1>3. \A j \in FreeINumbers : ~(j < i)
  BY <1>1, <1>2 DEF OpToRel
<1> QED
  BY <1>1, <1>3

-----------------------------------------------------------------------------
\* Where a session stands says which command it runs, and that the i-number it
\* looked up for an open was one.
At(s, op, steps) == pc[s] \in steps => cmd[s] \in Requests /\ cmd[s].cmd = op

Places == {"read", "c", "inode_create", "create", "l", "w", "r", "r_old", "r_lookup", "r_owner",
           "reName", "r_move", "o", "o_grant", "d", "d_check", "delete", "inode_delete", "x"}

RenamePlaces == {"r", "r_old", "r_lookup", "r_owner", "reName", "r_move"}

SessionInv ==
  /\ pc \in [Sessions -> Places] /\ DOMAIN cmd = Sessions /\ DOMAIN name = Sessions
  /\ inbox \in [Sessions -> Seq(Requests)]
  /\ \A s \in Sessions :
       /\ At(s, "c", {"c", "inode_create", "create"})
       /\ At(s, "l", {"l"})
       /\ At(s, "w", {"w"})
       /\ At(s, "r", RenamePlaces)
       /\ At(s, "o", {"o", "o_grant"})
       /\ At(s, "d", {"d", "d_check", "delete", "inode_delete"})
       /\ At(s, "x", {"x"})
       /\ pc[s] \in RenamePlaces => name[s] \in Names

\* The fields of a request.
LEMMA RequestFields ==
  ASSUME NEW r \in Requests
  PROVE  /\ r.cmd \in Ops /\ r.cmd \in {"c", "l", "w", "r", "o", "d", "x"}
         /\ r.cmd = "c" => r.name \in Names /\ r.perms \in (0 .. 9) \X (0 .. 9)
         /\ r.cmd \in {"l", "w", "x"} => r.fd \in INumbers
         /\ r.cmd = "w" => r.content \in Contents
         /\ r.cmd = "r" => r.name \in Names /\ r.newName \in Names
         /\ r.cmd = "o" => r.name \in Names /\ r.mode \in Modes
         /\ r.cmd = "d" => r.name \in Names
  BY ServerAssumption DEF Requests

LEMMA RequestNames ==
  ASSUME NEW r \in Requests, "name" \in DOMAIN r
  PROVE  r.name \in Names
  BY DEF Requests

\* Where a step of a command leads: to the end of the command or further on.
LEMMA Moves ==
  ASSUME NEW s \in Sessions
  PROVE  /\ CreateCheck(s) => Goto(s, "c", "read") \/ Goto(s, "c", "inode_create")
         /\ CreateInode(s) => Goto(s, "inode_create", "create")
         /\ CreateEntry(s) => Goto(s, "create", "read")
         /\ ReadFile(s) => Goto(s, "l", "read")
         /\ WriteFile(s) => Goto(s, "w", "read")
         /\ RenameNew(s) => Goto(s, "r", "read") \/ Goto(s, "r", "r_old")
         /\ RenameOld(s) => Goto(s, "r_old", "read") \/ Goto(s, "r_old", "r_lookup")
         /\ RenameLookup(s) => Goto(s, "r_lookup", "r_owner")
         /\ RenameOwner(s) => Goto(s, "r_owner", "read") \/ Goto(s, "r_owner", "reName")
         /\ RenameSearch(s) => Goto(s, "reName", "read") \/ Goto(s, "reName", "r_move")
         /\ RenameMove(s) => Goto(s, "r_move", "read")
         /\ OpenLookup(s) => Goto(s, "o", "read") \/ Goto(s, "o", "o_grant")
         /\ OpenGrant(s) => Goto(s, "o_grant", "read")
         /\ DeleteLookup(s) => Goto(s, "d", "read") \/ Goto(s, "d", "d_check")
         /\ DeleteCheck(s) => Goto(s, "d_check", "read") \/ Goto(s, "d_check", "delete")
         /\ DeleteEntry(s) => Goto(s, "delete", "inode_delete")
         /\ DeleteInode(s) => Goto(s, "inode_delete", "read")
         /\ CloseFile(s) => Goto(s, "x", "read")
  BY DEF CreateCheck, CreateInode, CreateEntry, ReadFile, WriteFile, RenameNew, RenameOld, RenameLookup,
         RenameOwner, RenameSearch, RenameMove, OpenLookup, OpenGrant, DeleteLookup, DeleteCheck,
         DeleteEntry, DeleteInode, CloseFile, Step, End

LEMMA GotoKeepsSessionInv ==
  ASSUME SessionInv, NEW s \in Sessions, applyCommands(s)
  PROVE  SessionInv'
<1>1. ASSUME NEW from, NEW to, Goto(s, from, to), to \in Places,
             \/ to = "read"
             \/ from \in {"c", "inode_create"} /\ to \in {"inode_create", "create"}
             \/ /\ from \in {"r", "r_old", "r_lookup", "r_owner", "reName"}
                /\ to \in {"r_old", "r_lookup", "r_owner", "reName", "r_move"}
             \/ from = "o" /\ to = "o_grant"
             \/ from \in {"d", "d_check", "delete"} /\ to \in {"d_check", "delete", "inode_delete"}
      PROVE  SessionInv'
  BY <1>1 DEF Goto, SessionInv, At, clients, Places, RenamePlaces
<1>2. CASE \E from \in Places : Goto(s, from, "read")
  BY <1>1, <1>2 DEF Places
<1>3. CASE Goto(s, "c", "inode_create") \/ Goto(s, "inode_create", "create")
  BY <1>1, <1>3 DEF Places
<1>4. CASE \/ Goto(s, "r", "r_old") \/ Goto(s, "r_old", "r_lookup") \/ Goto(s, "r_lookup", "r_owner")
           \/ Goto(s, "r_owner", "reName") \/ Goto(s, "reName", "r_move")
  BY <1>1, <1>4 DEF Places
<1>5. CASE Goto(s, "o", "o_grant")
  BY <1>1, <1>5 DEF Places
<1>6. CASE \/ Goto(s, "d", "d_check") \/ Goto(s, "d_check", "delete") \/ Goto(s, "delete", "inode_delete")
  BY <1>1, <1>6 DEF Places
<1> QED
  BY Moves, <1>2, <1>3, <1>4, <1>5, <1>6 DEF applyCommands, Places

LEMMA NextKeepsSessionInv == SessionInv /\ [Next]_vars => SessionInv'
<1> SUFFICES ASSUME SessionInv, [Next]_vars PROVE SessionInv'
  OBVIOUS
<1>1. ASSUME NEW s \in Sessions, Send(s) PROVE SessionInv'
  BY <1>1 DEF Send, SessionInv, At, locals
<1>2. ASSUME NEW s \in Sessions, readOutp(s) PROVE SessionInv'
  BY <1>2 DEF readOutp, SessionInv, At, locals
<1>3. ASSUME NEW s \in Sessions, processCommand(s) PROVE SessionInv'
  <2> DEFINE r == Head(inbox[s])
  <2>1. /\ inbox[s] \in Seq(Requests) /\ inbox[s] # <<>>
    BY <1>3 DEF processCommand, SessionInv
  <2>2. r \in Requests
    BY <2>1
  <2>3. r.cmd \in {"c", "l", "w", "r", "o", "d", "x"}
    BY <2>2, RequestFields
  <2>4. /\ pc' = [pc EXCEPT ![s] = r.cmd] /\ cmd' = [cmd EXCEPT ![s] = r]
        /\ inbox' = [inbox EXCEPT ![s] = <<>>]
        /\ name' = [name EXCEPT ![s] = IF "name" \in DOMAIN r THEN r.name ELSE @]
    BY <1>3 DEF processCommand
  <2>8. r.cmd = "r" => "name" \in DOMAIN r /\ r.name \in Names
    BY <2>2, RequestFields DEF Requests
  <2> HIDE DEF r
  <2>5. pc' \in [Sessions -> Places] /\ inbox' \in [Sessions -> Seq(Requests)]
    <3>1. <<>> \in Seq(Requests)
      OBVIOUS
    <3>2. r.cmd \in Places
      BY <2>3 DEF Places
    <3> QED
      BY <2>4, <3>1, <3>2 DEF SessionInv
  <2>6. \A t \in Sessions \ {s} : pc'[t] = pc[t] /\ cmd'[t] = cmd[t] /\ name'[t] = name[t]
    BY <2>4 DEF SessionInv
  <2>7. /\ pc'[s] = r.cmd /\ cmd'[s] = r /\ DOMAIN cmd' = Sessions /\ DOMAIN name' = Sessions
        /\ r.cmd = "r" => name'[s] \in Names
    BY <2>4, <2>8 DEF SessionInv
  <2> QED
    BY <2>2, <2>3, <2>5, <2>6, <2>7 DEF SessionInv, At, RenamePlaces
<1>4. CASE UNCHANGED vars
  BY <1>4 DEF vars, clients, locals, SessionInv, At
<1> QED
  BY <1>1, <1>2, <1>3, <1>4, GotoKeepsSessionInv DEF Next, Quiet

LEMMA InitSessionInv == Init => SessionInv
<1>1. <<>> \in Seq(Requests)
  OBVIOUS
<1> QED
  BY <1>1 DEF Init, SessionInv, At, Places, RenamePlaces

-----------------------------------------------------------------------------
\* The i-node table: what a call of inodes.c makes of it.
TableInv == InodesTypeOK /\ NoDangling

LEMMA CreateKeepsTable ==
  ASSUME TableInv, NEW uid \in Uids, NEW p \in 0 .. 9, NEW q \in 0 .. 9, inode_create(uid, p, q)
  PROVE  TableInv'
  BY InodesAssumption DEF TableInv, InodesTypeOK, NoDangling, inode_create, Inode, Used

LEMMA SetKeepsTable ==
  ASSUME TableInv, NEW i, NEW content \in Contents, inode_set(i, content)
  PROVE  TableInv'
  BY InodesAssumption DEF TableInv, InodesTypeOK, NoDangling, inode_set, Inode, Used

LEMMA DeleteKeepsTable ==
  ASSUME TableInv, NEW i, inode_delete(i)
  PROVE  TableInv'
<1> USE InodesAssumption DEF TableInv, InodesTypeOK, NoDangling, inode_delete, Inode, Used
<1>1. CASE ~Used(i)
  BY <1>1
<1>2. CASE Used(i)
  <2>1. inode_table' \in [INumbers -> Inode]
    BY <1>2
  <2>2. inode_table'[i].owner = FREE_INODE /\ \A j \in INumbers \ {i} : inode_table'[j] = inode_table[j]
    BY <1>2
  <2> QED
    BY <2>1, <2>2
<1> QED
  BY <1>1, <1>2

\* The commands that touch the table.
LEMMA NextKeepsTable == TableInv /\ SessionInv /\ [Next]_vars => TableInv'
<1> SUFFICES ASSUME TableInv, SessionInv, [Next]_vars PROVE TableInv'
  OBVIOUS
<1>1. CASE UNCHANGED inode_table
  BY <1>1 DEF TableInv, InodesTypeOK, NoDangling, Used
<1>2. ASSUME NEW s \in Sessions, CreateInode(s) PROVE TableInv'
  <2>1. cmd[s] \in Requests /\ cmd[s].cmd = "c"
    BY <1>2 DEF CreateInode, SessionInv, At
  <2>2. cmd[s].perms[1] \in 0 .. 9 /\ cmd[s].perms[2] \in 0 .. 9
    BY <2>1, RequestFields
  <2> QED
    BY <1>2, <2>2, CreateKeepsTable, ServerAssumption DEF CreateInode
<1>3. ASSUME NEW s \in Sessions, WriteFile(s) PROVE TableInv'
  <2>1. cmd[s].content \in Contents
    BY <1>3, RequestFields DEF WriteFile, SessionInv, At
  <2> QED
    BY <1>1, <1>3, <2>1, SetKeepsTable DEF WriteFile
<1>4. ASSUME NEW s \in Sessions, DeleteInode(s) PROVE TableInv'
  BY <1>4, DeleteKeepsTable DEF DeleteInode
<1>5. ASSUME NEW s \in Sessions, applyCommands(s) PROVE TableInv'
  BY <1>1, <1>2, <1>3, <1>4, <1>5 DEF applyCommands, RenameSearch, CreateCheck, CreateEntry, ReadFile,
     RenameNew, RenameOld, RenameLookup, RenameOwner, RenameMove, OpenLookup, OpenGrant,
     DeleteLookup, DeleteCheck, DeleteEntry, CloseFile
<1> QED
  BY <1>1, <1>5 DEF Next, Quiet, vars, Send, readOutp, processCommand

LEMMA InitTable == Init => TableInv
  BY InodesAssumption DEF Init, inode_table_init, TableInv, InodesTypeOK, NoDangling, Inode, Used, NONE

\* No i-node in use has a content that was given back.
THEOREM ServerNoDangling == Spec => []NoDangling
<1>1. TableInv => NoDangling
  BY DEF TableInv
<1> QED
  BY <1>1, InitSessionInv, InitTable, NextKeepsSessionInv, NextKeepsTable, PTL DEF Spec

-----------------------------------------------------------------------------
\* The types of what the sessions keep; an open that is about to be granted has
\* found an i-number.
Codes == FILE_IS_OPEN - 1 .. INODE_TABLE_SIZE - 1

TypeInv == /\ TypeOK
           /\ DOMAIN replies = Sessions
           /\ \A s \in Sessions : pc[s] = "o_grant" => iNumber[s] \in INumbers

\* The end of a command.
LEMMA EndKeepsTypes ==
  ASSUME TypeInv, SessionInv, NEW s \in Sessions, NEW from, NEW codes \in Seq(Codes),
         End(s, from, codes), InodesTypeOK', entries' \in [Names -> INumbers \cup {-1, NoNode}],
         openFile' \in [Sessions -> [Slots -> [fd : INumbers, mode : {WRITE, READ, RW}] \cup {Closed}]]
  PROVE  TypeInv'
<1> USE DEF TypeInv, TypeOK, SessionInv, End, Goto, Codes
<1>1. replies[s] \o codes \in Seq(Codes)
  OBVIOUS
<1>2. DOMAIN replies' = Sessions /\ \A t \in Sessions : replies'[t] \in Seq(Codes)
  BY <1>1
<1>3. iNumber' \in [Sessions -> INumbers \cup {-1}]
  OBVIOUS
<1>4. \A t \in Sessions : pc'[t] = "o_grant" => t # s /\ pc[t] = "o_grant" /\ iNumber'[t] = iNumber[t]
  OBVIOUS
<1> QED
  BY <1>2, <1>3, <1>4

\* A step in the middle of a command.
LEMMA StepKeepsTypes ==
  ASSUME TypeInv, SessionInv, NEW s \in Sessions, NEW from, NEW to, Step(s, from, to),
         InodesTypeOK', entries' \in [Names -> INumbers \cup {-1, NoNode}], UNCHANGED openFile,
         \/ UNCHANGED iNumber /\ to # "o_grant"
         \/ /\ \E i \in INumbers \cup {-1} : iNumber' = [iNumber EXCEPT ![s] = i]
            /\ to = "o_grant" => iNumber'[s] \in INumbers
  PROVE  TypeInv'
  BY DEF TypeInv, TypeOK, SessionInv, Step, Goto, Codes

LEMMA LookupType ==
  ASSUME TypeInv, NEW n
  PROVE  lookup(n) \in INumbers \cup {-1} /\ (~(lookup(n) < 0) => lookup(n) \in INumbers)
<1>1. lookup(n) \in INumbers \cup {-1}
  BY InodesAssumption DEF TypeInv, TypeOK, lookup
<1> QED
  BY <1>1

\* The replies of the commands.
LEMMA CodesOf ==
  /\ <<>> \in Seq(Codes) /\ <<0>> \in Seq(Codes)
  /\ <<FILE_ALREADY_EXISTS>> \in Seq(Codes) /\ <<FILE_NOT_FOUND>> \in Seq(Codes)
  /\ <<FILE_NOT_OPEN>> \in Seq(Codes) /\ <<INVALID_MODE>> \in Seq(Codes)
  /\ <<PERMISSION_DENIED>> \in Seq(Codes) /\ <<MAXED_OPEN_FILES>> \in Seq(Codes)
  /\ <<MAXED_OPEN_FILES, PERMISSION_DENIED>> \in Seq(Codes) /\ <<FILE_IS_OPEN>> \in Seq(Codes)
  /\ \A i \in INumbers : <<i>> \in Seq(Codes)
<1>1. /\ 0 \in Codes /\ FILE_ALREADY_EXISTS \in Codes /\ FILE_NOT_FOUND \in Codes
      /\ FILE_NOT_OPEN \in Codes /\ INVALID_MODE \in Codes /\ PERMISSION_DENIED \in Codes
      /\ MAXED_OPEN_FILES \in Codes /\ FILE_IS_OPEN \in Codes /\ INumbers \subseteq Codes
  BY InodesAssumption DEF Codes, INumbers, FILE_ALREADY_EXISTS, FILE_NOT_FOUND, FILE_NOT_OPEN,
     INVALID_MODE, PERMISSION_DENIED, MAXED_OPEN_FILES, FILE_IS_OPEN
<1> QED
  BY <1>1

LEMMA CommandKeepsTypes ==
  ASSUME TypeInv, SessionInv, NEW s \in Sessions, applyCommands(s), InodesTypeOK'
  PROVE  TypeInv'
<1>1. /\ entries \in [Names -> INumbers \cup {-1, NoNode}]
      /\ iNumber[s] \in INumbers \cup {-1}
      /\ openFile \in [Sessions -> [Slots -> [fd : INumbers, mode : {WRITE, READ, RW}] \cup {Closed}]]
  BY DEF TypeInv, TypeOK
<1>2. CASE CreateCheck(s)
  BY <1>1, <1>2, EndKeepsTypes, StepKeepsTypes, CodesOf DEF CreateCheck
<1>3. CASE CreateInode(s)
  <2>1. NextINumber \in INumbers \cup {-1}
    BY LeastFree DEF FreeINumbers
  <2> QED
    BY <1>1, <1>3, <2>1, StepKeepsTypes DEF CreateInode
<1>4. CASE CreateEntry(s)
  <2>1. entries' \in [Names -> INumbers \cup {-1, NoNode}]
    BY <1>1, <1>4 DEF CreateEntry
  <2> QED
    BY <1>1, <1>4, <2>1, EndKeepsTypes, CodesOf DEF CreateEntry
<1>5. CASE ReadFile(s)
  BY <1>1, <1>5, EndKeepsTypes, CodesOf DEF ReadFile
<1>6. CASE WriteFile(s)
  BY <1>1, <1>6, EndKeepsTypes, CodesOf DEF WriteFile
<1>7. CASE RenameNew(s) \/ RenameOld(s)
  BY <1>1, <1>7, EndKeepsTypes, StepKeepsTypes, CodesOf DEF RenameNew, RenameOld
<1>8. CASE RenameLookup(s)
  BY <1>1, <1>8, StepKeepsTypes, LookupType DEF RenameLookup
<1>9. CASE RenameOwner(s)
  BY <1>1, <1>9, EndKeepsTypes, StepKeepsTypes, CodesOf DEF RenameOwner
<1>10. CASE RenameSearch(s)
  BY <1>1, <1>10, EndKeepsTypes, StepKeepsTypes, CodesOf DEF RenameSearch
<1>11. CASE RenameMove(s)
  <2>1. entries' \in [Names -> INumbers \cup {-1, NoNode}]
    <3>1. name[s] \in Names
      BY <1>11 DEF RenameMove, SessionInv, RenamePlaces
    <3> QED
      BY <1>1, <1>11, <3>1 DEF RenameMove
  <2> QED
    BY <1>1, <1>11, <2>1, EndKeepsTypes, CodesOf DEF RenameMove
<1>12. CASE OpenLookup(s)
  <2>1. CASE lookup(name[s]) < 0
    BY <1>1, <1>12, <2>1, EndKeepsTypes, CodesOf DEF OpenLookup
  <2>2. CASE ~(lookup(name[s]) < 0)
    <3>1. iNumber' = [iNumber EXCEPT ![s] = lookup(name[s])] /\ lookup(name[s]) \in INumbers
      BY <1>12, <2>2, LookupType DEF OpenLookup
    <3>2. iNumber'[s] \in INumbers
      BY <3>1 DEF TypeInv, TypeOK
    <3> QED
      BY <1>1, <1>12, <2>2, <3>1, <3>2, StepKeepsTypes DEF OpenLookup
  <2> QED
    BY <2>1, <2>2
<1>13. CASE OpenGrant(s)
  <2>1. iNumber[s] \in INumbers
    BY <1>13 DEF OpenGrant, TypeInv
  <2>2. Granted(s, cmd[s].mode) => cmd[s].mode \in {WRITE, READ, RW}
    BY DEF Granted, Allows
  <2>3. openFile' \in [Sessions -> [Slots -> [fd : INumbers, mode : {WRITE, READ, RW}] \cup {Closed}]]
    <3>1. CASE UNCHANGED openFile
      BY <1>1, <3>1
    <3>2. CASE /\ Granted(s, cmd[s].mode)
               /\ openFile' = [openFile EXCEPT ![s][First(FreeSlots(s))] =
                                 [fd |-> iNumber[s], mode |-> cmd[s].mode]]
      <4>1. PICK new : new = [fd |-> iNumber[s], mode |-> cmd[s].mode]
        OBVIOUS
      <4>2. new \in [fd : INumbers, mode : {WRITE, READ, RW}]
        BY <2>1, <2>2, <3>2, <4>1
      <4>3. openFile' = [openFile EXCEPT ![s][First(FreeSlots(s))] = new]
        BY <3>2, <4>1
      <4> QED
        BY <1>1, <4>2, <4>3
    <3> QED
      BY <1>13, <3>1, <3>2 DEF OpenGrant
  <2> QED
    BY <1>1, <1>13, <2>1, <2>3, EndKeepsTypes, CodesOf DEF OpenGrant
<1>14. CASE DeleteLookup(s)
  BY <1>1, <1>14, EndKeepsTypes, StepKeepsTypes, CodesOf, LookupType DEF DeleteLookup
<1>15. CASE DeleteCheck(s)
  BY <1>1, <1>15, EndKeepsTypes, StepKeepsTypes, CodesOf DEF DeleteCheck
<1>16. CASE DeleteEntry(s)
  <2>1. entries' \in [Names -> INumbers \cup {-1, NoNode}]
    BY <1>1, <1>16 DEF DeleteEntry
  <2> QED
    BY <1>1, <1>16, <2>1, StepKeepsTypes DEF DeleteEntry
<1>17. CASE DeleteInode(s)
  BY <1>1, <1>17, EndKeepsTypes, CodesOf DEF DeleteInode
<1>18. CASE CloseFile(s)
  <2>1. openFile' \in [Sessions -> [Slots -> [fd : INumbers, mode : {WRITE, READ, RW}] \cup {Closed}]]
    BY <1>1, <1>18 DEF CloseFile
  <2> QED
    BY <1>1, <1>18, <2>1, EndKeepsTypes, CodesOf DEF CloseFile
<1> QED
  BY <1>2, <1>3, <1>4, <1>5, <1>6, <1>7, <1>8, <1>9, <1>10, <1>11, <1>12, <1>13, <1>14, <1>15,
     <1>16, <1>17, <1>18 DEF applyCommands

LEMMA NextKeepsTypes == TypeInv /\ SessionInv /\ InodesTypeOK' /\ [Next]_vars => TypeInv'
<1> SUFFICES ASSUME TypeInv, SessionInv, InodesTypeOK', [Next]_vars PROVE TypeInv'
  OBVIOUS
<1> USE DEF TypeInv, TypeOK, SessionInv
<1>1. ASSUME NEW s \in Sessions, Send(s) PROVE TypeInv'
  BY <1>1 DEF Send, locals
<1>2. ASSUME NEW s \in Sessions, readOutp(s) PROVE TypeInv'
  <2>1. Tail(replies[s]) \in Seq(FILE_IS_OPEN - 1 .. INODE_TABLE_SIZE - 1)
    BY <1>2 DEF readOutp
  <2> QED
    BY <1>2, <2>1 DEF readOutp, locals
<1>3. ASSUME NEW s \in Sessions, processCommand(s) PROVE TypeInv'
  <2> DEFINE r == Head(inbox[s])
  <2>1. inbox[s] \in Seq(Requests) /\ inbox[s] # <<>>
    BY <1>3 DEF processCommand
  <2>2. r \in Requests
    BY <2>1
  <2>3. r.cmd # "o_grant" /\ ("name" \in DOMAIN r => r.name \in Names)
    BY <2>2, RequestFields, RequestNames
  <2>4. /\ pc' = [pc EXCEPT ![s] = r.cmd] /\ cmd' = [cmd EXCEPT ![s] = r]
        /\ name' = [name EXCEPT ![s] = IF "name" \in DOMAIN r THEN r.name ELSE @]
        /\ UNCHANGED <<entries, iNumber, openFile, replies>>
    BY <1>3 DEF processCommand
  <2> HIDE DEF r
  <2> QED
    BY <2>2, <2>3, <2>4
<1>4. CASE UNCHANGED vars
  BY <1>4 DEF vars, locals
<1> QED
  BY <1>1, <1>2, <1>3, <1>4, CommandKeepsTypes DEF Next, Quiet

LEMMA InitTypes == Init => TypeInv
<1> SUFFICES ASSUME Init PROVE TypeInv
  OBVIOUS
<1>1. InodesTypeOK
  BY InitTable DEF TableInv
<1>2. <<>> \in Seq(FILE_IS_OPEN - 1 .. INODE_TABLE_SIZE - 1)
  OBVIOUS
<1> QED
  BY <1>1, <1>2 DEF Init, TypeInv, TypeOK, Closed

\* The types of the server's tables, its sessions and their replies.
THEOREM ServerTypes == Spec => []TypeOK
<1>1. TypeInv => TypeOK
  BY DEF TypeInv
<1>2. TableInv => InodesTypeOK
  BY DEF TableInv
<1> QED
  BY <1>1, <1>2, InitSessionInv, InitTable, InitTypes, NextKeepsSessionInv, NextKeepsTable,
     NextKeepsTypes, PTL DEF Spec

-----------------------------------------------------------------------------
\* As long as nobody deletes, an i-node in use keeps its owner and permissions.
KeepsFiles == \A i \in INumbers : Used(i) => /\ Used(i)'
                                            /\ inode_table'[i].owner = inode_table[i].owner
                                            /\ inode_table'[i].ownerPermissions = inode_table[i].ownerPermissions
                                            /\ inode_table'[i].othersPermissions = inode_table[i].othersPermissions

LEMMA NobodyDeletes ==
  ASSUME "d" \notin Ops, SessionInv, NEW s \in Sessions
  PROVE  pc[s] \notin {"d", "d_check", "delete", "inode_delete"}
  BY RequestFields DEF SessionInv, At

LEMMA NextKeepsFiles ==
  ASSUME "d" \notin Ops, SessionInv, TableInv, [Next]_vars
  PROVE  KeepsFiles
<1> USE DEF KeepsFiles, Used
<1>1. CASE UNCHANGED inode_table
  BY <1>1
<1>2. ASSUME NEW s \in Sessions, CreateInode(s) PROVE KeepsFiles
  <2>1. \A i \in INumbers : Used(i) => i # NextINumber
    BY LeastFree, InodesAssumption DEF FreeINumbers, INumbers
  <2> QED
    BY <1>2, <2>1 DEF CreateInode, inode_create
<1>3. ASSUME NEW s \in Sessions, WriteFile(s) PROVE KeepsFiles
  BY <1>1, <1>3 DEF WriteFile, inode_set, TableInv, InodesTypeOK, Inode
<1>4. ASSUME NEW s \in Sessions, applyCommands(s) PROVE KeepsFiles
  <2>1. ~DeleteLookup(s) /\ ~DeleteCheck(s) /\ ~DeleteEntry(s) /\ ~DeleteInode(s)
    BY NobodyDeletes, Moves DEF Goto
  <2> QED
    BY <1>1, <1>2, <1>3, <1>4, <2>1 DEF applyCommands, RenameSearch, CreateCheck, CreateEntry, ReadFile,
       RenameNew, RenameOld, RenameLookup, RenameOwner, RenameMove, OpenLookup, OpenGrant, CloseFile
<1> QED
  BY <1>1, <1>4 DEF Next, Quiet, vars, Send, readOutp, processCommand

\* An i-node that a create has allocated is in use and nobody else's; one that
\* an open has found is in use; one that is open is in use and was granted.
Fresh(s) == pc[s] = "create" /\ iNumber[s] # -1 =>
              /\ Used(iNumber[s])
              /\ \A n \in Names : entries[n] # iNumber[s]
              /\ \A r \in Sessions \ {s} : pc[r] = "create" => iNumber[r] # iNumber[s]
OpenGranted(s) == \A k \in Slots :
  openFile[s][k].fd # -1 => /\ Used(openFile[s][k].fd)
                            /\ Allows(Permission(s, openFile[s][k].fd), openFile[s][k].mode)

\* The names of files: each has an i-node in use of its own.
EntriesInv == \A n \in Names : entries[n] \in INumbers =>
                /\ Used(entries[n])
                /\ \A m \in Names : m # n => entries[m] # entries[n]

FilesInv == /\ EntriesInv
            /\ \A s \in Sessions : /\ Fresh(s)
                                   /\ pc[s] = "o_grant" => Used(iNumber[s])
                                   /\ OpenGranted(s)

LEMMA NoINumber == -1 \notin INumbers /\ NoNode \notin INumbers
  BY InodesAssumption DEF INumbers, NoNode

\* The two steps of a create that touch the files.
LEMMA CreateInodeKeepsFilesInv ==
  ASSUME FilesInv, TypeInv, SessionInv, KeepsFiles, NEW s \in Sessions, CreateInode(s)
  PROVE  EntriesInv' /\ \A r \in Sessions : Fresh(r)'
<1>1. PICK new : new = NextINumber
  OBVIOUS
<1>2. CASE new = -1
  <2>1. iNumber'[s] = -1 /\ entries' = entries
    BY <1>1, <1>2 DEF CreateInode, TypeInv, TypeOK
  <2>2. \A r \in Sessions \ {s} : pc'[r] = pc[r] /\ iNumber'[r] = iNumber[r]
    BY DEF CreateInode, Step, Goto, TypeInv, TypeOK, SessionInv
  <2>3. \A i \in INumbers : Used(i) => Used(i)'
    BY DEF KeepsFiles
  <2>4. EntriesInv'
    BY <2>1, <2>3 DEF FilesInv, EntriesInv, TypeInv, TypeOK
  <2>5. ASSUME NEW r \in Sessions, pc'[r] = "create", iNumber'[r] # -1
        PROVE  Fresh(r)'
    <3>1. r # s /\ pc[r] = "create" /\ iNumber'[r] = iNumber[r]
      BY <2>1, <2>2, <2>5
    <3>2. Used(iNumber[r]) /\ \A n \in Names : entries[n] # iNumber[r]
      BY <2>5, <3>1 DEF FilesInv, Fresh
    <3>3. Used(iNumber[r])'
      BY <2>3, <3>1, <3>2 DEF Used
    <3>4. \A q \in Sessions \ {r} : pc'[q] = "create" => iNumber'[q] # iNumber'[r]
      BY <2>1, <2>2, <2>5, <3>1 DEF FilesInv, Fresh
    <3> QED
      BY <2>1, <3>1, <3>2, <3>3, <3>4 DEF Fresh
  <2> QED
    BY <2>4, <2>5 DEF Fresh
<1>3. CASE new # -1
  <2>1. new \in INumbers /\ ~Used(new)
    BY <1>1, <1>3, LeastFree DEF FreeINumbers, Used
  <2>2. inode_table'[new].owner = Uid[s]
    BY <1>1, <2>1 DEF CreateInode, inode_create
  <2>3. Used(new)'
    BY <2>1, <2>2, ServerAssumption, InodesAssumption DEF Used
  <2>4. /\ pc'[s] = "create" /\ iNumber'[s] = new /\ entries' = entries
        /\ \A r \in Sessions \ {s} : pc'[r] = pc[r] /\ iNumber'[r] = iNumber[r]
    BY <1>1 DEF CreateInode, Step, Goto, TypeInv, TypeOK, SessionInv
  <2>5. \A i \in INumbers : Used(i) => Used(i)'
    BY DEF KeepsFiles
  <2>6. (\A n \in Names : entries[n] # new)
        /\ \A r \in Sessions : pc[r] = "create" => iNumber[r] # new
    BY <1>3, <2>1 DEF FilesInv, EntriesInv, Fresh
  <2>7. EntriesInv'
    BY <2>4, <2>5 DEF FilesInv, EntriesInv, TypeInv, TypeOK
  <2>8. ASSUME NEW r \in Sessions \ {s}, pc'[r] = "create", iNumber'[r] # -1
        PROVE  Fresh(r)'
    <3>1. pc[r] = "create" /\ iNumber'[r] = iNumber[r] /\ iNumber[r] # new
      BY <2>4, <2>6, <2>8
    <3>2. Used(iNumber[r]) /\ \A n \in Names : entries[n] # iNumber[r]
      BY <2>8, <3>1 DEF FilesInv, Fresh
    <3>3. Used(iNumber[r])'
      BY <2>5, <3>1, <3>2 DEF Used
    <3>4. \A q \in Sessions \ {r} : pc'[q] = "create" => iNumber'[q] # iNumber'[r]
      BY <2>4, <2>8, <3>1 DEF FilesInv, Fresh
    <3> QED
      BY <2>4, <3>1, <3>2, <3>3, <3>4 DEF Fresh
  <2>9. Fresh(s)'
    BY <2>3, <2>4, <2>6 DEF Fresh
  <2> QED
    BY <2>7, <2>8, <2>9 DEF Fresh
<1> QED
  BY <1>2, <1>3

LEMMA CreateEntryKeepsFilesInv ==
  ASSUME FilesInv, TypeInv, SessionInv, KeepsFiles, NEW s \in Sessions, CreateEntry(s)
  PROVE  EntriesInv' /\ \A r \in Sessions : Fresh(r)'
<1>1. PICK mine : mine = iNumber[s]
  OBVIOUS
<1>2. /\ pc[s] = "create" /\ pc'[s] = "read"
      /\ \A r \in Sessions \ {s} : pc'[r] = pc[r] /\ iNumber'[r] = iNumber[r]
  BY DEF CreateEntry, End, Goto, TypeInv, TypeOK, SessionInv
<1>3. \A n \in Names : entries'[n] = IF n = name[s] THEN mine ELSE entries[n]
  BY <1>1 DEF CreateEntry, TypeInv, TypeOK
<1>4. \A i : Used(i)' <=> Used(i)
  BY DEF CreateEntry, Used
<1>5. mine # -1 => /\ Used(mine) /\ \A n \in Names : entries[n] # mine
                   /\ \A r \in Sessions \ {s} : pc[r] = "create" => iNumber[r] # mine
  BY <1>1, <1>2 DEF FilesInv, Fresh
<1>6. EntriesInv'
  BY <1>3, <1>4, <1>5, NoINumber DEF FilesInv, EntriesInv
<1>7. ASSUME NEW r \in Sessions, pc'[r] = "create", iNumber'[r] # -1
      PROVE  Fresh(r)'
  <2>1. r # s /\ pc[r] = "create" /\ iNumber'[r] = iNumber[r] /\ iNumber[r] # mine
    BY <1>2, <1>5, <1>7
  <2>2. \A n \in Names : entries'[n] # iNumber'[r]
    BY <1>3, <1>7, <2>1 DEF FilesInv, Fresh
  <2>3. \A q \in Sessions \ {r} : pc'[q] = "create" => iNumber'[q] # iNumber'[r]
    BY <1>2, <1>7, <2>1 DEF FilesInv, Fresh
  <2> QED
    BY <1>4, <1>7, <2>1, <2>2, <2>3 DEF FilesInv, Fresh
<1> QED
  BY <1>6, <1>7 DEF Fresh

\* What every other step of a session s leaves alone.
Beside(s) == \A r \in Sessions \ {s} : pc'[r] = pc[r] /\ iNumber'[r] = iNumber[r]

LEMMA OthersKeepFresh ==
  ASSUME FilesInv, KeepsFiles, NEW s \in Sessions, Beside(s), pc'[s] # "create",
         \A n \in Names : entries'[n] = NoNode \/ \E m \in Names : entries'[n] = entries[m]
  PROVE  \A r \in Sessions : Fresh(r)'
<1> SUFFICES ASSUME NEW r \in Sessions, pc'[r] = "create", iNumber'[r] # -1
             PROVE  Fresh(r)'
  BY DEF Fresh
<1>1. pc[r] = "create" /\ iNumber'[r] = iNumber[r]
  BY DEF Beside
<1>2. Used(iNumber[r]) /\ \A n \in Names : entries[n] # iNumber[r]
  BY <1>1 DEF FilesInv, Fresh
<1>3. Used(iNumber[r])'
  BY <1>1, <1>2 DEF KeepsFiles, Used
<1>4. \A q \in Sessions \ {r} : pc'[q] = "create" => iNumber'[q] # iNumber'[r]
  BY <1>1 DEF FilesInv, Fresh, Beside
<1>5. \A n \in Names : entries'[n] # iNumber'[r]
  BY <1>1, <1>2, NoINumber DEF Used
<1> QED
  BY <1>1, <1>3, <1>4, <1>5 DEF Fresh

LEMMA SameEntries ==
  ASSUME FilesInv, KeepsFiles, UNCHANGED entries
  PROVE  /\ EntriesInv'
         /\ \A n \in Names : entries'[n] = NoNode \/ \E m \in Names : entries'[n] = entries[m]
  BY DEF FilesInv, EntriesInv, KeepsFiles, Used

\* A rename passes what its name leads to on to a name that had no node.
LEMMA RenameMoves ==
  ASSUME FilesInv, TypeInv, SessionInv, KeepsFiles, NEW s \in Sessions, RenameMove(s)
  PROVE  /\ EntriesInv'
         /\ \A n \in Names : entries'[n] = NoNode \/ \E m \in Names : entries'[n] = entries[m]
<1>1. CASE ~MayRename(s)
  BY <1>1, SameEntries DEF RenameMove
<1>2. CASE MayRename(s)
  <2>1. PICK old, new : old = name[s] /\ new = cmd[s].newName
    OBVIOUS
  <2>2. old \in Names /\ old # new
    BY <1>2, <2>1 DEF MayRename, RenameMove, SessionInv, RenamePlaces
  <2>3. entries' = [entries EXCEPT ![old] = NoNode, ![new] = entries[old]]
    BY <1>2, <2>1 DEF RenameMove
  <2>4. \A n \in Names : entries'[n] = IF n = new THEN entries[old]
                                       ELSE IF n = old THEN NoNode ELSE entries[n]
    BY <2>2, <2>3 DEF TypeInv, TypeOK
  <2>5. \A i : Used(i) => Used(i)'
    BY DEF KeepsFiles, Used
  <2>6. EntriesInv'
    BY <2>2, <2>4, <2>5, NoINumber DEF FilesInv, EntriesInv
  <2> QED
    BY <2>2, <2>4, <2>6
<1> QED
  BY <1>1, <1>2

\* Permissions do not change.
LEMMA GrantsStay ==
  ASSUME KeepsFiles, NEW s \in Sessions, NEW i, Used(i)
  PROVE  Used(i)' /\ Permission(s, i)' = Permission(s, i)
  BY DEF KeepsFiles, Used, Permission

LEMMA SameOpenFiles ==
  ASSUME FilesInv, KeepsFiles, NEW s \in Sessions, NEW slots \in SUBSET Slots,
         \A k \in slots : openFile'[s][k] = openFile[s][k] \/ openFile'[s][k].fd = -1
  PROVE  \A k \in slots : openFile'[s][k].fd # -1 =>
           Used(openFile[s][k].fd)' /\ Allows(Permission(s, openFile[s][k].fd), openFile[s][k].mode)'
<1> SUFFICES ASSUME NEW k \in slots, openFile'[s][k].fd # -1
             PROVE  Used(openFile[s][k].fd)'
                    /\ Allows(Permission(s, openFile[s][k].fd), openFile[s][k].mode)'
  OBVIOUS
<1>1. PICK i, m : i = openFile[s][k].fd /\ m = openFile[s][k].mode
  OBVIOUS
<1>2. /\ Used(i) /\ Allows(Permission(s, i), m)
      /\ openFile'[s][k].fd = i /\ openFile'[s][k].mode = m
  BY <1>1 DEF FilesInv, OpenGranted
<1>3. Used(i)' /\ Permission(s, i)' = Permission(s, i)
  BY <1>2, GrantsStay
<1> QED
  BY <1>2, <1>3 DEF Used, Permission, Allows

LEMMA NextKeepsInfo == DOMAIN info = Sessions /\ [Next]_vars => DOMAIN info' = Sessions
  BY DEF Next, Quiet, vars, locals, Send, readOutp, processCommand, applyCommands, RenameSearch,
     CreateCheck, CreateInode, CreateEntry, ReadFile, WriteFile, RenameNew, RenameOld, RenameLookup,
     RenameOwner, RenameMove, OpenLookup, OpenGrant, DeleteLookup, DeleteCheck, DeleteEntry,
     DeleteInode, CloseFile, inode_get

\* What is opened has been granted on the permissions the i-node has.
LEMMA GrantKeepsOpenGranted ==
  ASSUME FilesInv, TypeInv, KeepsFiles, DOMAIN info = Sessions, NEW s \in Sessions, OpenGrant(s)
  PROVE  OpenGranted(s)'
<1>1. PICK i : i = iNumber[s]
  OBVIOUS
<1>2. i \in INumbers /\ Used(i)
  BY <1>1 DEF FilesInv, TypeInv, OpenGrant
<1>3. PICK m : m = cmd[s].mode
  OBVIOUS
<1>4. Granted(s, m) => Allows(Permission(s, i), m)
  <2>1. /\ info'[s].owner = inode_table[i].owner
        /\ info'[s].mine = inode_table[i].ownerPermissions
        /\ info'[s].others = inode_table[i].othersPermissions
    BY <1>1, <1>2 DEF OpenGrant, inode_get
  <2> QED
    BY <2>1 DEF Granted, Permission
<1>5. ASSUME NEW k \in Slots, openFile'[s][k].fd # -1
      PROVE  /\ Used(openFile[s][k].fd)'
             /\ Allows(Permission(s, openFile[s][k].fd), openFile[s][k].mode)'
  <2>1. CASE openFile'[s][k] = openFile[s][k]
    BY <1>5, <2>1, SameOpenFiles
  <2>2. CASE openFile'[s][k] # openFile[s][k]
    <3>1. Granted(s, m) /\ openFile'[s][k].fd = i /\ openFile'[s][k].mode = m
      BY <1>1, <1>3, <2>2 DEF OpenGrant, TypeInv, TypeOK
    <3>2. Used(i)' /\ Permission(s, i)' = Permission(s, i)
      BY <1>2, GrantsStay
    <3> QED
      BY <1>4, <3>1, <3>2 DEF Used, Permission, Allows
  <2> QED
    BY <2>1, <2>2
<1> QED
  BY <1>5 DEF OpenGranted

LEMMA OtherTables ==
  ASSUME FilesInv, KeepsFiles, NEW r \in Sessions,
         openFile'[r] = openFile[r] \/ \A k \in Slots : openFile'[r][k] = openFile[r][k] \/ openFile'[r][k].fd = -1
  PROVE  OpenGranted(r)'
  BY SameOpenFiles DEF OpenGranted

LEMMA CommandKeepsOpenGranted ==
  ASSUME FilesInv, TypeInv, KeepsFiles, DOMAIN info = Sessions,
         NEW s \in Sessions, applyCommands(s), NEW r \in Sessions
  PROVE  OpenGranted(r)'
<1>1. CASE UNCHANGED openFile
  BY <1>1, OtherTables
<1>2. CASE OpenGrant(s)
  <2>1. r # s => openFile'[r] = openFile[r]
    BY <1>2 DEF OpenGrant, TypeInv, TypeOK
  <2> QED
    BY <1>2, <2>1, GrantKeepsOpenGranted, OtherTables
<1>3. CASE CloseFile(s)
  <2>1. \A k \in Slots : openFile'[r][k] = openFile[r][k] \/ openFile'[r][k].fd = -1
    BY <1>3 DEF CloseFile, TypeInv, TypeOK, Closed
  <2> QED
    BY <2>1, OtherTables
<1> QED
  BY <1>1, <1>2, <1>3 DEF applyCommands, RenameSearch, CreateCheck, CreateInode, CreateEntry, ReadFile,
     WriteFile, RenameNew, RenameOld, RenameLookup, RenameOwner, RenameMove, OpenLookup,
     DeleteLookup, DeleteCheck, DeleteEntry, DeleteInode

LEMMA CommandKeepsLookedUp ==
  ASSUME FilesInv, TypeInv, SessionInv, KeepsFiles, NEW s \in Sessions, applyCommands(s),
         NEW r \in Sessions, pc'[r] = "o_grant"
  PROVE  Used(iNumber[r])'
<1>1. CASE r # s
  <2>1. pc[r] = "o_grant" /\ iNumber'[r] = iNumber[r]
    BY <1>1 DEF applyCommands, RenameSearch, CreateCheck, CreateInode, CreateEntry, ReadFile,
       WriteFile, RenameNew, RenameOld, RenameLookup, RenameOwner, RenameMove, OpenLookup, OpenGrant,
       DeleteLookup, DeleteCheck, DeleteEntry, DeleteInode, CloseFile, Goto, Step, End,
       TypeInv, TypeOK, SessionInv
  <2> QED
    BY <2>1 DEF FilesInv, KeepsFiles, Used
<1>2. CASE r = s
  <2>1. OpenLookup(s)
    BY <1>2, Moves DEF applyCommands, Goto, SessionInv
  <2>2. ~(lookup(name[s]) < 0)
    BY <1>2, <2>1 DEF OpenLookup, End, Goto, SessionInv
  <2>3. iNumber'[s] = lookup(name[s])
    BY <2>1, <2>2 DEF OpenLookup, TypeInv, TypeOK
  <2>4. Used(lookup(name[s]))
    <3>1. lookup(name[s]) \in INumbers /\ -1 \notin INumbers
      BY <2>2, LookupType, InodesAssumption DEF INumbers
    <3> QED
      BY <3>1 DEF lookup, FilesInv, EntriesInv
  <2>5. PICK i : i = lookup(name[s])
    OBVIOUS
  <2> QED
    BY <1>2, <2>3, <2>4, <2>5 DEF KeepsFiles, Used
<1> QED
  BY <1>1, <1>2

LEMMA CommandKeepsFilesInv ==
  ASSUME "d" \notin Ops, FilesInv, TypeInv, SessionInv, KeepsFiles, DOMAIN info = Sessions,
         NEW s \in Sessions, applyCommands(s)
  PROVE  FilesInv'
<1>1. EntriesInv' /\ \A r \in Sessions : Fresh(r)'
  <2>1. CASE CreateInode(s) \/ CreateEntry(s)
    BY <2>1, CreateInodeKeepsFilesInv, CreateEntryKeepsFilesInv
  <2>2. CASE ~CreateInode(s) /\ ~CreateEntry(s)
    <3>1. Beside(s)
      BY DEF Beside, applyCommands, RenameSearch, CreateCheck, CreateInode, CreateEntry, ReadFile,
         WriteFile, RenameNew, RenameOld, RenameLookup, RenameOwner, RenameMove, OpenLookup, OpenGrant,
         DeleteLookup, DeleteCheck, DeleteEntry, DeleteInode, CloseFile, Goto, Step, End,
         TypeInv, TypeOK, SessionInv
    <3>2. pc'[s] # "create"
      BY <2>2, Moves DEF applyCommands, Goto, SessionInv
    <3>3. CASE RenameMove(s)
      BY <3>1, <3>2, <3>3, RenameMoves, OthersKeepFresh
    <3>4. CASE ~RenameMove(s)
      <4>1. ~DeleteEntry(s)
        BY NobodyDeletes, Moves DEF Goto
      <4>2. UNCHANGED entries
        BY <2>2, <3>4, <4>1 DEF applyCommands, RenameSearch, CreateCheck, ReadFile, WriteFile,
           RenameNew, RenameOld, RenameLookup, RenameOwner, OpenLookup, OpenGrant,
           DeleteLookup, DeleteCheck, DeleteInode, CloseFile
      <4> QED
        BY <3>1, <3>2, <4>2, SameEntries, OthersKeepFresh
    <3> QED
      BY <3>3, <3>4
  <2> QED
    BY <2>1, <2>2
<1>2. \A r \in Sessions : pc'[r] = "o_grant" => Used(iNumber[r])'
  BY CommandKeepsLookedUp
<1>3. \A r \in Sessions : OpenGranted(r)'
  BY CommandKeepsOpenGranted
<1> QED
  BY <1>1, <1>2, <1>3 DEF FilesInv

LEMMA NextKeepsFilesInv ==
  ASSUME "d" \notin Ops
  PROVE  FilesInv /\ TypeInv /\ SessionInv /\ TableInv /\ DOMAIN info = Sessions /\ [Next]_vars => FilesInv'
<1> SUFFICES ASSUME FilesInv, TypeInv, SessionInv, TableInv, DOMAIN info = Sessions, [Next]_vars
             PROVE  FilesInv'
  OBVIOUS
<1>1. KeepsFiles
  BY NextKeepsFiles
<1>2. ASSUME NEW s \in Sessions, applyCommands(s) PROVE FilesInv'
  BY <1>1, <1>2, CommandKeepsFilesInv
<1>3. ASSUME UNCHANGED <<entries, iNumber, openFile, inode_table>>,
             \A r \in Sessions : pc'[r] \in {"create", "o_grant"} => pc[r] = pc'[r]
      PROVE  FilesInv'
  BY <1>3 DEF FilesInv, EntriesInv, Fresh, OpenGranted, Used, Permission
<1>4. ASSUME NEW s \in Sessions, processCommand(s) PROVE FilesInv'
  <2>1. inbox[s] \in Seq(Requests) /\ inbox[s] # <<>>
    BY <1>4 DEF processCommand, SessionInv
  <2>2. Head(inbox[s]) \in Requests
    BY <2>1
  <2>3. Head(inbox[s]).cmd \notin {"create", "o_grant"}
    BY <2>2, RequestFields
  <2>4. pc' = [pc EXCEPT ![s] = Head(inbox[s]).cmd]
    BY <1>4 DEF processCommand
  <2>5. \A r \in Sessions : pc'[r] \in {"create", "o_grant"} => pc[r] = pc'[r]
    BY <2>3, <2>4 DEF SessionInv
  <2> QED
    BY <1>3, <1>4, <2>5 DEF processCommand
<1>5. ASSUME NEW s \in Sessions, Send(s) \/ readOutp(s) PROVE FilesInv'
  BY <1>3, <1>5 DEF Send, readOutp, locals
<1>6. CASE UNCHANGED vars
  BY <1>3, <1>6 DEF vars, locals
<1> QED
  BY <1>2, <1>4, <1>5, <1>6 DEF Next, Quiet

LEMMA InitFilesInv == Init => FilesInv /\ DOMAIN info = Sessions
  BY NoINumber DEF Init, FilesInv, EntriesInv, Fresh, OpenGranted, Closed

\* A node without an i-node, or one that a create is about to store, means that
\* the table is full, and full it stays.
FullInv ==
  /\ (\E n \in Names : entries[n] = -1) => FreeINumbers = {}
  /\ \A s \in Sessions : pc[s] = "create" /\ iNumber[s] = -1 => FreeINumbers = {}

LEMMA NextKeepsFullInv ==
  ASSUME "d" \notin Ops, FullInv, FilesInv, TypeInv, SessionInv, TableInv, [Next]_vars
  PROVE  FullInv'
<1>1. FreeINumbers = {} => FreeINumbers' = {}
  BY NextKeepsFiles DEF KeepsFiles, FreeINumbers, Used
<1>2. ASSUME \A n \in Names : entries'[n] = NoNode \/ \E m \in Names : entries'[n] = entries[m],
             \A r \in Sessions : pc'[r] = "create" => pc[r] = "create" /\ iNumber'[r] = iNumber[r]
      PROVE  FullInv'
  BY <1>1, <1>2 DEF FullInv, NoNode
<1>3. ASSUME NEW s \in Sessions, CreateInode(s) PROVE FullInv'
  <2>1. /\ entries' = entries /\ iNumber'[s] = NextINumber
        /\ \A r \in Sessions \ {s} : pc'[r] = pc[r] /\ iNumber'[r] = iNumber[r]
    BY <1>3 DEF CreateInode, Step, Goto, TypeInv, TypeOK, SessionInv
  <2>2. NextINumber = -1 => FreeINumbers = {}
    BY LeastFree, NoINumber DEF FreeINumbers
  <2> QED
    BY <1>1, <2>1, <2>2 DEF FullInv
<1>4. ASSUME NEW s \in Sessions, CreateEntry(s) PROVE FullInv'
  <2>1. /\ pc[s] = "create" /\ pc'[s] = "read"
        /\ \A n \in Names : entries'[n] = entries[n] \/ entries'[n] = iNumber[s]
        /\ \A r \in Sessions \ {s} : pc'[r] = pc[r] /\ iNumber'[r] = iNumber[r]
    BY <1>4 DEF CreateEntry, End, Goto, TypeInv, TypeOK, SessionInv
  <2> QED
    BY <1>1, <2>1 DEF FullInv
<1>5. ASSUME NEW s \in Sessions, applyCommands(s), ~CreateInode(s), ~CreateEntry(s) PROVE FullInv'
  <2>1. Beside(s)
    BY <1>5 DEF Beside, applyCommands, RenameSearch, CreateCheck, CreateInode, CreateEntry, ReadFile,
       WriteFile, RenameNew, RenameOld, RenameLookup, RenameOwner, RenameMove, OpenLookup, OpenGrant,
       DeleteLookup, DeleteCheck, DeleteEntry, DeleteInode, CloseFile, Goto, Step, End,
       TypeInv, TypeOK, SessionInv
  <2>2. pc'[s] # "create"
    BY <1>5, Moves DEF applyCommands, Goto, SessionInv
  <2>3. \A n \in Names : entries'[n] = NoNode \/ \E m \in Names : entries'[n] = entries[m]
    <3>1. CASE RenameMove(s)
      BY <3>1, NextKeepsFiles, RenameMoves
    <3>2. CASE ~RenameMove(s)
      <4>1. ~DeleteEntry(s)
        BY NobodyDeletes, Moves DEF Goto
      <4> QED
        BY <1>5, <3>2, <4>1 DEF applyCommands, RenameSearch, CreateCheck, ReadFile, WriteFile,
           RenameNew, RenameOld, RenameLookup, RenameOwner, OpenLookup, OpenGrant,
           DeleteLookup, DeleteCheck, DeleteInode, CloseFile
    <3> QED
      BY <3>1, <3>2
  <2> QED
    BY <1>2, <2>1, <2>2, <2>3 DEF Beside
<1>6. ASSUME NEW s \in Sessions, processCommand(s) PROVE FullInv'
  <2>1. inbox[s] \in Seq(Requests) /\ inbox[s] # <<>>
    BY <1>6 DEF processCommand, SessionInv
  <2>2. Head(inbox[s]).cmd # "create"
    BY <2>1, RequestFields
  <2>3. pc' = [pc EXCEPT ![s] = Head(inbox[s]).cmd] /\ UNCHANGED <<entries, iNumber>>
    BY <1>6 DEF processCommand
  <2> QED
    BY <1>2, <2>2, <2>3 DEF SessionInv
<1>7. ASSUME UNCHANGED <<entries, pc, iNumber>> PROVE FullInv'
  BY <1>2, <1>7
<1> QED
  BY <1>3, <1>4, <1>5, <1>6, <1>7 DEF Next, Quiet, Send, readOutp, vars, locals

LEMMA InitFullInv == Init => FullInv
  BY DEF Init, FullInv, NoNode

\* A number that is none of those two is that of an i-node.
LEMMA FilesInvEntries == FilesInv /\ TypeInv /\ FullInv => EntriesHaveInodes
<1> SUFFICES ASSUME FilesInv, TypeInv, FullInv PROVE EntriesHaveInodes
  OBVIOUS
<1>1. \A n \in Files : n \in Names /\ entries[n] \in INumbers
  BY DEF Files, TypeInv, TypeOK, NoNode
<1> QED
  BY <1>1 DEF EntriesHaveInodes, FilesInv, EntriesInv, FullInv

\* All of it together, for servers to which nobody sends a delete.
AllInv == /\ "d" \notin Ops
          /\ FilesInv /\ FullInv /\ TypeInv /\ SessionInv /\ TableInv /\ DOMAIN info = Sessions

LEMMA NextKeepsAllInv == AllInv /\ [Next]_vars => AllInv'
<1> SUFFICES ASSUME AllInv, [Next]_vars PROVE AllInv'
  OBVIOUS
<1>1. FilesInv' /\ FullInv' /\ TableInv' /\ SessionInv' /\ DOMAIN info' = Sessions
  BY NextKeepsFilesInv, NextKeepsFullInv, NextKeepsTable, NextKeepsSessionInv, NextKeepsInfo DEF AllInv
<1>2. TypeInv'
  BY <1>1, NextKeepsTypes DEF AllInv, TableInv
<1> QED
  BY <1>1, <1>2 DEF AllInv

LEMMA InitAllInv == "d" \notin Ops /\ Init => AllInv
  BY InitSessionInv, InitTable, InitTypes, InitFilesInv, InitFullInv DEF AllInv

\* As long as nobody deletes no two names share an i-node, no file has a free
\* one, and a name without an i-node means that the table is full, however
\* sessions create and rename at the same time.
THEOREM ServerEntriesHaveInodes == "d" \notin Ops /\ Spec => []EntriesHaveInodes
<1>1. AllInv => EntriesHaveInodes
  BY FilesInvEntries DEF AllInv
<1> QED
  BY <1>1, InitAllInv, NextKeepsAllInv, PTL DEF Spec

\* The loop of a write ends at a slot of the file.
LEMMA FirstSlot ==
  ASSUME NEW s, NEW fd, SlotsOf(s, fd) # {}
  PROVE  First(SlotsOf(s, fd)) \in Slots /\ openFile[s][First(SlotsOf(s, fd))].fd = fd
<1>1. SlotsOf(s, fd) \subseteq Nat
  BY DEF SlotsOf, Slots
<1>2. PICK i \in SlotsOf(s, fd) : \A j \in SlotsOf(s, fd) : <<j, i>> \notin OpToRel(<, Nat)
  BY <1>1, NatLessThanWellFounded, WFMin, Zenon
<1>3. \A j \in SlotsOf(s, fd) : ~(j < i)
  BY <1>1, <1>2 DEF OpToRel
<1>4. \A j \in SlotsOf(s, fd) : i <= j
  BY <1>1, <1>3
<1>5. First(SlotsOf(s, fd)) \in SlotsOf(s, fd)
  BY <1>4 DEF First
<1> QED
  BY <1>5 DEF SlotsOf

\* A write changes the content of a file in use only, which the session has open
\* in a mode that the permissions of its user still allow.
LEMMA WritesAreGranted ==
  ASSUME FilesInv, TypeInv, SessionInv, NEW s \in Sessions, NEW i \in INumbers,
         WriteFile(s), inode_table'[i].fileContent # inode_table[i].fileContent
  PROVE  Used(i) /\ MayWrite(s, i)
<1>1. /\ SlotsOf(s, cmd[s].fd) # {} /\ inode_set(cmd[s].fd, cmd[s].content)
      /\ openFile[s][First(SlotsOf(s, cmd[s].fd))].mode \in {RW, WRITE}
  BY DEF WriteFile
<1>2. i = cmd[s].fd
  BY <1>1 DEF inode_set, TypeInv, TypeOK, InodesTypeOK
<1>3. PICK k : k = First(SlotsOf(s, i))
  OBVIOUS
<1>4. k \in Slots /\ openFile[s][k].fd = i
  BY <1>1, <1>2, <1>3, FirstSlot
<1>5. i # -1
  BY NoINumber
<1> QED
  BY <1>1, <1>2, <1>3, <1>4, <1>5 DEF FilesInv, OpenGranted, MayWrite

\* As long as nobody deletes, a content changes only by a session that has the
\* file open in a mode its user's permissions allow when it writes: WRITE for
\* WRITE or RW, and RW for any permission.
THEOREM ServerWriteNeedsPermission == "d" \notin Ops /\ Spec => WriteNeedsPermission
<1>1. AllInv /\ [Next]_vars =>
        [\A s \in Sessions : \A i \in INumbers :
           /\ WriteFile(s)
           /\ inode_table'[i].fileContent # inode_table[i].fileContent
           => Used(i) /\ MayWrite(s, i)]_vars
  BY WritesAreGranted DEF AllInv
<1> QED
  BY <1>1, InitAllInv, NextKeepsAllInv, PTL DEF Spec, WriteNeedsPermission

-----------------------------------------------------------------------------
(***************************************************************************)
(* One client.  Every i-node in use has the name that leads to it, save    *)
(* the one that a create has allocated and not yet entered and the one     *)
(* that a delete has taken out and not yet freed.  What the command that   *)
(* is running has found out still holds, for nobody else runs: the name    *)
(* of a create is free, the i-number of an open and a delete is that of    *)
(* the name, and the file of a delete is not open.                         *)
(***************************************************************************)
OneClient == \E s : Sessions = {s}

Leads(i) == \E n \in Names : entries[n] = i
Between(s) == pc[s] \in {"create", "inode_delete"}

Covered(s) == \A i \in INumbers : Used(i) => Leads(i) \/ (Between(s) /\ iNumber[s] = i)

StillFree(s) == /\ pc[s] \in {"c", "inode_create", "create"} => name[s] \in Names
                /\ pc[s] \in {"inode_create", "create"} => entries[name[s]] \notin INumbers
                /\ Between(s) /\ iNumber[s] # -1 => Used(iNumber[s]) /\ ~Leads(iNumber[s])

StillFound(s) ==
  /\ pc[s] \in {"o_grant", "d_check", "delete"} =>
       name[s] \in Names /\ iNumber[s] \in INumbers /\ entries[name[s]] = iNumber[s]
  /\ pc[s] \in {"delete", "inode_delete"} => iNumber[s] # -1 /\ SlotsOf(s, iNumber[s]) = {}

OpenUsed(s) == \A k \in Slots : openFile[s][k].fd # -1 => Used(openFile[s][k].fd)

OneInv == EntriesInv /\ \A s \in Sessions : Covered(s) /\ StillFree(s) /\ StillFound(s) /\ OpenUsed(s)

\* A step that neither gives nor takes an i-node, enters nothing and opens
\* nothing, outside the two places where a number has no name.
LEMMA QuietStep ==
  ASSUME OneInv, NEW s, Sessions = {s}, ~Between(s), ~Between(s)', UNCHANGED entries,
         \A i \in INumbers : Used(i)' <=> Used(i),
         \A k \in Slots : openFile'[s][k] = openFile[s][k] \/ openFile'[s][k].fd = -1,
         StillFree(s)', StillFound(s)'
  PROVE  OneInv'
<1>1. \A i : Used(i)' <=> Used(i)
  BY DEF Used
<1>2. EntriesInv'
  BY <1>1 DEF OneInv, EntriesInv, Used
<1>3. Covered(s)'
  BY DEF OneInv, Covered, Leads
<1>4. OpenUsed(s)'
  BY <1>1 DEF OneInv, OpenUsed, Used
<1> QED
  BY <1>2, <1>3, <1>4 DEF OneInv

\* The steps of a command that only look, answer or write into a file.
Looks(s) == \/ CreateCheck(s) \/ ReadFile(s) \/ WriteFile(s)
            \/ RenameNew(s) \/ RenameOld(s) \/ RenameLookup(s) \/ RenameOwner(s) \/ RenameSearch(s)
            \/ OpenLookup(s) \/ DeleteLookup(s) \/ DeleteCheck(s) \/ CloseFile(s)

LEMMA LooksKeepsFiles ==
  ASSUME TypeInv, NEW s \in Sessions, Looks(s)
  PROVE  /\ UNCHANGED <<entries, name>>
         /\ \A i \in INumbers : Used(i)' <=> Used(i)
         /\ \A k \in Slots : openFile'[s][k] = openFile[s][k] \/ openFile'[s][k].fd = -1
<1>1. UNCHANGED entries
  BY DEF Looks, CreateCheck, ReadFile, WriteFile, RenameNew, RenameOld, RenameLookup, RenameOwner,
     RenameSearch, OpenLookup, DeleteLookup, DeleteCheck, CloseFile
<1>2. UNCHANGED name
  BY Moves DEF Looks, Goto
<1>3. \A i \in INumbers : Used(i)' <=> Used(i)
  <2>1. CASE UNCHANGED inode_table
    BY <2>1 DEF Used
  <2>2. CASE WriteFile(s)
    BY <2>1, <2>2 DEF WriteFile, inode_set, TypeInv, TypeOK, InodesTypeOK, Inode, Used
  <2> QED
    BY <2>1, <2>2 DEF Looks, CreateCheck, ReadFile, RenameNew, RenameOld, RenameLookup, RenameOwner,
       RenameSearch, OpenLookup, DeleteLookup, DeleteCheck, CloseFile
<1>4. \A k \in Slots : openFile'[s][k] = openFile[s][k] \/ openFile'[s][k].fd = -1
  <2>1. CASE UNCHANGED openFile
    BY <2>1
  <2>2. CASE CloseFile(s)
    BY <2>1, <2>2 DEF CloseFile, TypeInv, TypeOK, Closed
  <2> QED
    BY <2>1, <2>2 DEF Looks, CreateCheck, ReadFile, WriteFile, RenameNew, RenameOld, RenameLookup,
       RenameOwner, RenameSearch, OpenLookup, DeleteLookup, DeleteCheck
<1> QED
  BY <1>1, <1>2, <1>3, <1>4

\* A number that lookup answers is that of the name.
LEMMA Found ==
  ASSUME TypeInv, NEW n, ~(lookup(n) < 0)
  PROVE  n \in Names /\ lookup(n) \in INumbers /\ entries[n] = lookup(n)
<1>1. lookup(n) \in INumbers /\ -1 < 0
  BY LookupType
<1> QED
  BY <1>1 DEF lookup

LEMMA NotFound ==
  ASSUME TypeInv, NEW n \in Names, lookup(n) < 0
  PROVE  entries[n] \notin INumbers
  BY NoINumber, InodesAssumption DEF lookup, INumbers

\* What each of them has found out is so.
LEMMA LooksFinds ==
  ASSUME OneInv, TypeInv, SessionInv, NEW s, Sessions = {s}, Looks(s)
  PROVE  ~Between(s) /\ ~Between(s)' /\ StillFree(s)' /\ StillFound(s)'
<1>1. s \in Sessions /\ pc \in [Sessions -> Places] /\ iNumber \in [Sessions -> INumbers \cup {-1}]
  BY DEF SessionInv, TypeInv, TypeOK
<1>2. UNCHANGED <<entries, name>>
  BY <1>1, LooksKeepsFiles
<1>3. CASE CreateCheck(s)
  <2>1. pc[s] = "c" /\ name[s] \in Names
    BY <1>1, <1>3 DEF CreateCheck, OneInv, StillFree
  <2>2. \/ pc'[s] = "read"
        \/ pc'[s] = "inode_create" /\ lookup(name[s]) < 0
    BY <1>1, <1>3 DEF CreateCheck, End, Step, Goto
  <2>3. lookup(name[s]) < 0 => entries[name[s]] \notin INumbers
    BY <2>1, NotFound
  <2> QED
    BY <1>1, <1>2, <2>1, <2>2, <2>3 DEF Between, StillFree, StillFound
<1>4. CASE OpenLookup(s) \/ DeleteLookup(s)
  <2>1. /\ pc[s] \in {"o", "d"}
        /\ \/ pc'[s] = "read"
           \/ /\ pc'[s] \in {"o_grant", "d_check"} /\ ~(lookup(name[s]) < 0)
              /\ iNumber'[s] = lookup(name[s])
    BY <1>1, <1>4 DEF OpenLookup, DeleteLookup, End, Step, Goto
  <2> QED
    BY <1>1, <1>2, <2>1, Found DEF Between, StillFree, StillFound
<1>5. CASE DeleteCheck(s)
  <2>1. /\ pc[s] = "d_check"
        /\ \/ pc'[s] = "read"
           \/ /\ pc'[s] = "delete" /\ iNumber'[s] = iNumber[s] /\ SlotsOf(s, iNumber[s]) = {}
              /\ UNCHANGED openFile
    BY <1>1, <1>5 DEF DeleteCheck, End, Step, Goto
  <2>2. name[s] \in Names /\ iNumber[s] \in INumbers /\ entries[name[s]] = iNumber[s]
    BY <1>1, <2>1 DEF OneInv, StillFound
  <2>3. iNumber[s] # -1
    BY <2>2, InodesAssumption DEF INumbers
  <2> QED
    BY <1>1, <1>2, <2>1, <2>2, <2>3 DEF Between, StillFree, StillFound, SlotsOf
<1>6. CASE \/ ReadFile(s) \/ WriteFile(s) \/ CloseFile(s)
           \/ RenameNew(s) \/ RenameOld(s) \/ RenameLookup(s) \/ RenameOwner(s) \/ RenameSearch(s)
  <2>1. /\ pc[s] \in {"l", "w", "x", "r", "r_old", "r_lookup", "r_owner", "reName"}
        /\ pc'[s] \in {"read", "r_old", "r_lookup", "r_owner", "reName", "r_move"}
    BY <1>1, <1>6, Moves DEF Goto
  <2> QED
    BY <1>1, <2>1 DEF Between, StillFree, StillFound
<1> QED
  BY <1>3, <1>4, <1>5, <1>6 DEF Looks

\* A create gives an i-node, which no name leads to yet, and then enters it
\* under a name that was free.
LEMMA CreateInodeKeepsOneInv ==
  ASSUME OneInv, TypeInv, SessionInv, NEW s, Sessions = {s}, CreateInode(s)
  PROVE  OneInv'
<1>1. s \in Sessions /\ pc \in [Sessions -> Places] /\ iNumber \in [Sessions -> INumbers \cup {-1}]
  BY DEF SessionInv, TypeInv, TypeOK
<1>2. PICK new : new = NextINumber
  OBVIOUS
<1>3. /\ pc[s] = "inode_create" /\ pc'[s] = "create" /\ iNumber'[s] = new
      /\ UNCHANGED <<entries, name, openFile>>
  BY <1>1, <1>2 DEF CreateInode, Step, Goto
<1>4. name[s] \in Names /\ entries[name[s]] \notin INumbers
  BY <1>1, <1>3 DEF OneInv, StillFree
<1>5. /\ new # -1 => new \in INumbers /\ ~Used(new)
      /\ -1 \notin INumbers
  BY <1>2, LeastFree, InodesAssumption DEF FreeINumbers, Used, INumbers
<1>6. \A i : Used(i)' <=> Used(i) \/ (new # -1 /\ i = new)
  <2>1. \A i \in INumbers : inode_table'[i].owner = IF i = new THEN Uid[s] ELSE inode_table[i].owner
    BY <1>2 DEF CreateInode, inode_create
  <2> QED
    BY <1>1, <1>5, <2>1, ServerAssumption, InodesAssumption DEF Used
<1>7. new # -1 => ~Leads(new)
  BY <1>5 DEF OneInv, EntriesInv, Leads
<1>8. EntriesInv'
  BY <1>3, <1>6 DEF OneInv, EntriesInv
<1>9. Covered(s)'
  BY <1>1, <1>3, <1>6 DEF OneInv, Covered, Leads, Between
<1>10. StillFree(s)' /\ StillFound(s)'
  BY <1>3, <1>4, <1>6, <1>7 DEF StillFree, StillFound, Leads, Between
<1>11. OpenUsed(s)'
  BY <1>1, <1>3, <1>6 DEF OneInv, OpenUsed
<1> QED
  BY <1>8, <1>9, <1>10, <1>11 DEF OneInv

LEMMA CreateEntryKeepsOneInv ==
  ASSUME OneInv, TypeInv, SessionInv, NEW s, Sessions = {s}, CreateEntry(s)
  PROVE  OneInv'
<1>1. s \in Sessions /\ pc \in [Sessions -> Places] /\ iNumber \in [Sessions -> INumbers \cup {-1}]
  BY DEF SessionInv, TypeInv, TypeOK
<1>2. PICK new, n : new = iNumber[s] /\ n = name[s]
  OBVIOUS
<1>3. /\ pc[s] = "create" /\ pc'[s] = "read" /\ UNCHANGED openFile
      /\ \A m \in Names : entries'[m] = IF m = n THEN new ELSE entries[m]
  BY <1>1, <1>2 DEF CreateEntry, End, Goto, TypeInv, TypeOK
<1>4. /\ n \in Names /\ entries[n] \notin INumbers
      /\ new # -1 => Used(new) /\ \A m \in Names : entries[m] # new
  BY <1>1, <1>2, <1>3 DEF OneInv, StillFree, Between, Leads
<1>5. \A i : Used(i)' <=> Used(i)
  BY DEF CreateEntry, Used
<1>6. EntriesInv'
  BY <1>3, <1>4, <1>5, NoINumber DEF OneInv, EntriesInv
<1>7. Covered(s)'
  <2> SUFFICES ASSUME NEW i \in INumbers, Used(i) PROVE \E m \in Names : entries'[m] = i
    BY <1>5 DEF Covered, Leads
  <2>1. -1 \notin INumbers
    BY InodesAssumption DEF INumbers
  <2>2. (\E m \in Names : entries[m] = i) \/ i = new
    BY <1>1, <1>2 DEF OneInv, Covered, Leads
  <2> QED
    BY <1>3, <1>4, <2>1, <2>2
<1>8. StillFree(s)' /\ StillFound(s)'
  BY <1>3 DEF StillFree, StillFound, Between
<1>9. OpenUsed(s)'
  BY <1>1, <1>3, <1>5 DEF OneInv, OpenUsed
<1> QED
  BY <1>6, <1>7, <1>8, <1>9 DEF OneInv

\* A rename passes a number from its name to one that had none.
LEMMA RenameMoveKeepsOneInv ==
  ASSUME OneInv, TypeInv, SessionInv, NEW s, Sessions = {s}, RenameMove(s)
  PROVE  OneInv'
<1>1. s \in Sessions /\ pc \in [Sessions -> Places]
  BY DEF SessionInv
<1>2. pc[s] = "r_move" /\ pc'[s] = "read" /\ UNCHANGED <<inode_table, openFile>>
  BY <1>1 DEF RenameMove, End, Goto
<1>3. StillFree(s)' /\ StillFound(s)' /\ ~Between(s) /\ ~Between(s)'
  BY <1>2 DEF StillFree, StillFound, Between
<1>4. \A i : Used(i)' <=> Used(i)
  BY <1>2 DEF Used
<1>5. CASE UNCHANGED entries
  BY <1>2, <1>3, <1>4, <1>5, QuietStep
<1>6. CASE MayRename(s)
  <2>1. PICK old, new : old = name[s] /\ new = cmd[s].newName
    OBVIOUS
  <2>2. entries[old] # NoNode /\ entries[new] = NoNode
    BY <1>6, <2>1 DEF MayRename
  <2>3. cmd[s] \in Requests /\ cmd[s].cmd = "r"
    BY <1>1, <1>2 DEF SessionInv, At, RenamePlaces
  <2>4. new \in Names
    BY <2>1, <2>3, RequestFields
  <2>5. old \in Names /\ old # new /\ NoNode \notin INumbers
    BY <1>1, <1>2, <2>1, <2>2, NoINumber DEF SessionInv, RenamePlaces
  <2>6. \A m \in Names : entries'[m] = IF m = new THEN entries[old]
                                       ELSE IF m = old THEN NoNode ELSE entries[m]
    BY <1>6, <2>1, <2>4, <2>5 DEF RenameMove, TypeInv, TypeOK
  <2>7. EntriesInv'
    BY <1>4, <2>2, <2>4, <2>5, <2>6 DEF OneInv, EntriesInv
  <2>8. Covered(s)'
    <3> SUFFICES ASSUME NEW i \in INumbers, Used(i) PROVE \E m \in Names : entries'[m] = i
      BY <1>4 DEF Covered, Leads
    <3>1. PICK m \in Names : entries[m] = i
      BY <1>1, <1>3 DEF OneInv, Covered, Leads
    <3>2. m # new
      BY <2>2, <2>5, <3>1
    <3> QED
      BY <2>4, <2>5, <2>6, <3>1, <3>2
  <2>9. OpenUsed(s)'
    BY <1>1, <1>2, <1>4 DEF OneInv, OpenUsed
  <2> QED
    BY <1>3, <2>7, <2>8, <2>9 DEF OneInv
<1> QED
  BY <1>5, <1>6 DEF RenameMove

\* What is opened is in use.
LEMMA OpenGrantKeepsOneInv ==
  ASSUME OneInv, TypeInv, SessionInv, NEW s, Sessions = {s}, OpenGrant(s)
  PROVE  OneInv'
<1>1. s \in Sessions /\ pc \in [Sessions -> Places]
  BY DEF SessionInv
<1>2. PICK i : i = iNumber[s]
  OBVIOUS
<1>3. /\ pc[s] = "o_grant" /\ pc'[s] = "read" /\ UNCHANGED <<inode_table, entries>>
      /\ \A k \in Slots : openFile'[s][k] = openFile[s][k] \/ openFile'[s][k].fd = i
  BY <1>1, <1>2 DEF OpenGrant, End, Goto, TypeInv, TypeOK
<1>4. Used(i)
  <2>1. name[s] \in Names /\ i \in INumbers /\ entries[name[s]] = i
    BY <1>1, <1>2, <1>3 DEF OneInv, StillFound
  <2> QED
    BY <2>1, InodesAssumption DEF OneInv, EntriesInv, INumbers
<1>5. \A j : Used(j)' <=> Used(j)
  BY <1>3 DEF Used
<1>6. EntriesInv' /\ Covered(s)'
  BY <1>1, <1>3, <1>5 DEF OneInv, EntriesInv, Covered, Leads, Between
<1>7. StillFree(s)' /\ StillFound(s)'
  BY <1>3 DEF StillFree, StillFound, Between
<1>8. OpenUsed(s)'
  BY <1>1, <1>3, <1>4, <1>5 DEF OneInv, OpenUsed
<1> QED
  BY <1>6, <1>7, <1>8 DEF OneInv

\* A delete takes a number from its name and then frees its i-node, which is
\* not open.
LEMMA DeleteEntryKeepsOneInv ==
  ASSUME OneInv, TypeInv, SessionInv, NEW s, Sessions = {s}, DeleteEntry(s)
  PROVE  OneInv'
<1>1. s \in Sessions /\ pc \in [Sessions -> Places]
  BY DEF SessionInv
<1>2. PICK i, n : i = iNumber[s] /\ n = name[s]
  OBVIOUS
<1>3. /\ pc[s] = "delete" /\ pc'[s] = "inode_delete" /\ UNCHANGED <<inode_table, openFile, iNumber>>
      /\ \A m \in Names : entries'[m] = IF m = n THEN NoNode ELSE entries[m]
  BY <1>1, <1>2 DEF DeleteEntry, Step, Goto, TypeInv, TypeOK
<1>4. /\ n \in Names /\ i \in INumbers /\ entries[n] = i /\ i # -1
      /\ SlotsOf(s, i) = {}
  BY <1>1, <1>2, <1>3 DEF OneInv, StillFound
<1>5. \A j : Used(j)' <=> Used(j)
  BY <1>3 DEF Used
<1>6. Used(i) /\ \A m \in Names : m # n => entries[m] # i
  BY <1>4 DEF OneInv, EntriesInv
<1>7. EntriesInv'
  BY <1>3, <1>5, NoINumber DEF OneInv, EntriesInv
<1>8. Covered(s)'
  <2> SUFFICES ASSUME NEW j \in INumbers, Used(j)
               PROVE  (\E m \in Names : entries'[m] = j) \/ i = j
    BY <1>2, <1>3, <1>5 DEF Covered, Leads, Between
  <2>1. PICK m \in Names : entries[m] = j
    BY <1>1, <1>3 DEF OneInv, Covered, Leads, Between
  <2> QED
    BY <1>3, <1>4, <2>1
<1>9. StillFree(s)'
  BY <1>2, <1>3, <1>4, <1>5, <1>6, NoINumber DEF StillFree, Between, Leads
<1>10. StillFound(s)'
  BY <1>2, <1>3, <1>4 DEF StillFound, SlotsOf
<1>11. OpenUsed(s)'
  BY <1>1, <1>3, <1>5 DEF OneInv, OpenUsed
<1> QED
  BY <1>7, <1>8, <1>9, <1>10, <1>11 DEF OneInv

LEMMA DeleteInodeKeepsOneInv ==
  ASSUME OneInv, TypeInv, SessionInv, NEW s, Sessions = {s}, DeleteInode(s)
  PROVE  OneInv'
<1>1. s \in Sessions /\ pc \in [Sessions -> Places]
  BY DEF SessionInv
<1>2. PICK i : i = iNumber[s]
  OBVIOUS
<1>3. /\ pc[s] = "inode_delete" /\ pc'[s] = "read" /\ UNCHANGED <<entries, openFile>>
      /\ inode_delete(i)
  BY <1>1, <1>2 DEF DeleteInode, End, Goto
<1>4. /\ Used(i) /\ \A n \in Names : entries[n] # i
      /\ \A k \in Slots : openFile[s][k].fd # i
  BY <1>1, <1>2, <1>3 DEF OneInv, StillFree, StillFound, Between, Leads, SlotsOf
<1>5. \A j : Used(j)' <=> Used(j) /\ j # i
  <2>1. /\ inode_table'[i].owner = FREE_INODE
        /\ \A j \in INumbers \ {i} : inode_table'[j] = inode_table[j]
    BY <1>3, <1>4 DEF inode_delete, TypeInv, TypeOK, InodesTypeOK, Inode, Used
  <2> QED
    BY <1>4, <2>1 DEF Used
<1>6. EntriesInv'
  BY <1>3, <1>4, <1>5 DEF OneInv, EntriesInv
<1>7. Covered(s)'
  BY <1>1, <1>2, <1>3, <1>5 DEF OneInv, Covered, Leads
<1>8. StillFree(s)' /\ StillFound(s)'
  BY <1>3 DEF StillFree, StillFound, Between
<1>9. OpenUsed(s)'
  BY <1>1, <1>3, <1>4, <1>5 DEF OneInv, OpenUsed
<1> QED
  BY <1>6, <1>7, <1>8, <1>9 DEF OneInv

LEMMA NextKeepsOneInv ==
  ASSUME OneClient, OneInv, TypeInv, SessionInv, [Next]_vars
  PROVE  OneInv'
<1>1. PICK s : Sessions = {s}
  BY DEF OneClient
<1>2. s \in Sessions /\ pc \in [Sessions -> Places]
  BY <1>1 DEF SessionInv
<1>3. ASSUME applyCommands(s) PROVE OneInv'
  <2>1. CASE Looks(s)
    BY <1>1, <1>2, <2>1, LooksKeepsFiles, LooksFinds, QuietStep
  <2>2. CASE CreateInode(s) \/ CreateEntry(s)
    BY <1>1, <2>2, CreateInodeKeepsOneInv, CreateEntryKeepsOneInv
  <2>3. CASE RenameMove(s) \/ OpenGrant(s)
    BY <1>1, <2>3, RenameMoveKeepsOneInv, OpenGrantKeepsOneInv
  <2>4. CASE DeleteEntry(s) \/ DeleteInode(s)
    BY <1>1, <2>4, DeleteEntryKeepsOneInv, DeleteInodeKeepsOneInv
  <2> QED
    BY <1>3, <2>1, <2>2, <2>3, <2>4 DEF applyCommands, Looks
<1>4. ASSUME processCommand(s) PROVE OneInv'
  <2>1. PICK r : r = Head(inbox[s])
    OBVIOUS
  <2>2. inbox[s] \in Seq(Requests) /\ inbox[s] # <<>>
    BY <1>2, <1>4 DEF processCommand, SessionInv
  <2>3. r \in Requests
    BY <2>1, <2>2
  <2>4. r.cmd \in {"c", "l", "w", "r", "o", "d", "x"}
    BY <2>3, RequestFields
  <2>5. r.cmd = "c" => "name" \in DOMAIN r /\ r.name \in Names
    BY <2>3, RequestFields DEF Requests
  <2>6. /\ pc[s] = "read" /\ pc'[s] = r.cmd /\ UNCHANGED <<inode_table, entries, openFile>>
        /\ name'[s] = IF "name" \in DOMAIN r THEN r.name ELSE name[s]
    BY <1>2, <1>4, <2>1 DEF processCommand, TypeInv, TypeOK
  <2>7. StillFree(s)' /\ StillFound(s)' /\ ~Between(s) /\ ~Between(s)'
    BY <2>4, <2>5, <2>6 DEF StillFree, StillFound, Between
  <2>8. \A i \in INumbers : Used(i)' <=> Used(i)
    BY <2>6 DEF Used
  <2> QED
    BY <1>1, <2>6, <2>7, <2>8, QuietStep
<1>5. ASSUME UNCHANGED <<inode_table, entries, pc, name, iNumber, openFile>> PROVE OneInv'
  BY <1>5 DEF OneInv, EntriesInv, Covered, StillFree, StillFound, OpenUsed, Between, Leads, SlotsOf, Used
<1>6. ASSUME Send(s) \/ readOutp(s) \/ UNCHANGED vars PROVE OneInv'
  BY <1>5, <1>6 DEF Send, readOutp, vars, locals
<1> QED
  BY <1>1, <1>3, <1>4, <1>6 DEF Next, Quiet

LEMMA InitOneInv == Init => OneInv
<1> SUFFICES ASSUME Init PROVE OneInv
  OBVIOUS
<1>1. \A i : ~Used(i)
  BY DEF Init, inode_table_init, Used
<1>2. \A n \in Names : entries[n] \notin INumbers
  BY NoINumber DEF Init
<1>3. \A s \in Sessions : pc[s] = "read" /\ \A k \in Slots : openFile[s][k].fd = -1
  BY DEF Init, Closed
<1> QED
  BY <1>1, <1>2, <1>3 DEF OneInv, EntriesInv, Covered, StillFree, StillFound, OpenUsed, Between

OneClientInv == OneClient /\ OneInv /\ TypeInv /\ SessionInv /\ TableInv

LEMMA NextKeepsOneClientInv == OneClientInv /\ [Next]_vars => OneClientInv'
<1> SUFFICES ASSUME OneClientInv, [Next]_vars PROVE OneClientInv'
  OBVIOUS
<1>1. TableInv' /\ SessionInv'
  BY NextKeepsTable, NextKeepsSessionInv DEF OneClientInv
<1>2. TypeInv'
  BY <1>1, NextKeepsTypes DEF OneClientInv, TableInv
<1>3. OneInv'
  BY NextKeepsOneInv DEF OneClientInv
<1> QED
  BY <1>1, <1>2, <1>3 DEF OneClientInv

LEMMA InitOneClientInv == OneClient /\ Init => OneClientInv
  BY InitSessionInv, InitTable, InitTypes, InitOneInv DEF OneClientInv

\* With one client the directory and the i-node table describe the same files
\* between two commands: a create that fails or is refused, a rename or a
\* delete leaves no i-node without a name and no name without an i-node.
THEOREM ServerSameFiles == OneClient /\ Spec => []SameFiles
<1>1. ASSUME OneClientInv PROVE SameFiles
  <2> SUFFICES ASSUME \A s \in Sessions : Idle(s)
               PROVE  /\ {entries[n] : n \in Files} = {i \in INumbers : Used(i)}
                      /\ \A m, n \in Files : m # n => entries[m] # entries[n]
    BY DEF SameFiles
  <2>1. EntriesInv /\ \A i : Used(i) => i \in INumbers
    BY <1>1 DEF OneClientInv, OneInv, Used
  <2>2. \A n \in Names : n \in Files <=> entries[n] \in INumbers
    <3>1. \A n \in Names : entries[n] \in INumbers \cup {-1, NoNode}
      BY <1>1 DEF OneClientInv, TypeInv, TypeOK
    <3> QED
      BY <3>1, InodesAssumption DEF Files, INumbers, NoNode
  <2>3. \A n \in Files : n \in Names
    BY DEF Files
  <2>4. ASSUME NEW i \in INumbers, Used(i) PROVE \E n \in Files : entries[n] = i
    <3>1. PICK s \in Sessions : pc[s] = "read"
      BY <1>1 DEF OneClientInv, OneClient, Idle
    <3>2. PICK n \in Names : entries[n] = i
      BY <1>1, <2>4, <3>1 DEF OneClientInv, OneInv, Covered, Leads, Between
    <3>3. i # -1
      BY InodesAssumption DEF INumbers
    <3> QED
      BY <2>2, <3>2, <3>3
  <2> QED
    BY <2>1, <2>2, <2>3, <2>4 DEF EntriesInv
<1> QED
  BY <1>1, InitOneClientInv, NextKeepsOneClientInv, PTL DEF Spec

\* With one client a file that is open keeps its i-node, whatever the client
\* deletes, renames or closes.
THEOREM ServerOpenFilesExist == OneClient /\ Spec => []OpenFilesExist
<1>1. ASSUME OneClientInv PROVE OpenFilesExist
  <2> SUFFICES ASSUME NEW s \in Sessions, NEW k \in Slots, openFile[s][k].fd >= 0
               PROVE  Used(openFile[s][k].fd)
    BY DEF OpenFilesExist
  <2>1. openFile[s][k].fd # -1
    OBVIOUS
  <2> QED
    BY <1>1, <2>1 DEF OneClientInv, OneInv, OpenUsed
<1> QED
  BY <1>1, InitOneClientInv, NextKeepsOneClientInv, PTL DEF Spec
-----------------------------------------------------------------------------
(***************************************************************************)
(* One client.  What a rename has looked up still holds when it comes to   *)
(* reName: its name is that of a file, and its new name is not.            *)
(***************************************************************************)
LookedUp(s) ==
  /\ pc[s] \in {"r_old", "r_lookup", "r_owner", "reName"} => entries[cmd[s].newName] \notin INumbers
  /\ pc[s] \in {"r_lookup", "r_owner", "reName"} => entries[name[s]] \in INumbers

RenameInv == OwnLock /\ \A s \in Sessions : LookedUp(s)

\* lookup tells the names of files from the others.
LEMMA LookupFinds ==
  ASSUME TypeInv, NEW n \in Names
  PROVE  lookup(n) >= 0 <=> entries[n] \in INumbers
<1>1. entries[n] \in INumbers \cup {-1, NoNode}
  BY DEF TypeInv, TypeOK
<1> QED
  BY <1>1, InodesAssumption DEF lookup, INumbers, NoNode

LEMMA LooksKeepLookedUp ==
  ASSUME TypeInv, SessionInv, NEW s, Sessions = {s}, LookedUp(s),
         RenameNew(s) \/ RenameOld(s) \/ RenameLookup(s) \/ RenameOwner(s)
  PROVE  LookedUp(s)'
<1>1. s \in Sessions /\ pc \in [Sessions -> Places]
  BY DEF SessionInv
<1>2. UNCHANGED <<entries, name, cmd>>
  BY DEF RenameNew, RenameOld, RenameLookup, RenameOwner, Step, End, Goto
<1>3. pc[s] \in RenamePlaces
  BY <1>1, Moves DEF Goto, RenamePlaces
<1>4. name[s] \in Names /\ cmd[s].newName \in Names
  BY <1>1, <1>3, RequestFields DEF SessionInv, At
<1>5. /\ RenameNew(s) /\ pc'[s] = "r_old" => ~(lookup(cmd[s].newName) >= 0)
      /\ RenameOld(s) /\ pc'[s] = "r_lookup" => ~(lookup(name[s]) < 0)
  BY <1>1 DEF RenameNew, RenameOld, End, Goto
<1>6. lookup(name[s]) \in INumbers \cup {-1}
  BY LookupType
<1>7. ~(lookup(name[s]) < 0) => lookup(name[s]) >= 0
  BY <1>6, InodesAssumption DEF INumbers
<1>8. CASE RenameNew(s)
  <2>1. pc'[s] \in {"read", "r_old"}
    BY <1>1, <1>8, Moves DEF Goto
  <2>2. pc'[s] = "r_old" => entries[cmd[s].newName] \notin INumbers
    BY <1>4, <1>5, <1>8, LookupFinds
  <2> QED
    BY <1>2, <2>1, <2>2 DEF LookedUp
<1>9. CASE RenameOld(s)
  <2>1. pc[s] = "r_old" /\ pc'[s] \in {"read", "r_lookup"}
    BY <1>1, <1>9, Moves DEF Goto
  <2>2. pc'[s] = "r_lookup" => entries[name[s]] \in INumbers
    BY <1>4, <1>5, <1>7, <1>9, LookupFinds
  <2> QED
    BY <1>2, <2>1, <2>2 DEF LookedUp
<1>10. CASE RenameLookup(s) \/ RenameOwner(s)
  <2>1. pc[s] \in {"r_lookup", "r_owner"} /\ pc'[s] \in {"read", "r_owner", "reName"}
    BY <1>1, <1>10, Moves DEF Goto
  <2> QED
    BY <1>2, <2>1 DEF LookedUp
<1> QED
  BY <1>8, <1>9, <1>10

\* With one session nothing disturbs the search, so that a rename that finds no
\* room for its new name has found the node of a create without an i-node.
LEMMA SearchKeepsRenameInv ==
  ASSUME RenameInv, TypeInv, SessionInv, ~misused, NEW s, Sessions = {s}, RenameSearch(s)
  PROVE  RenameInv'
<1>1. s \in Sessions /\ pc \in [Sessions -> Places]
  BY DEF SessionInv
<1>2. /\ pc[s] = "reName" /\ pc'[s] \in {"read", "r_move"} /\ UNCHANGED <<entries, cmd>>
      /\ misused' => ~MayRename(s)
  BY <1>1 DEF RenameSearch, Step, End, Goto, Disturbed
<1>3. LookedUp(s)'
  BY <1>2 DEF LookedUp
<1>4. cmd[s].cmd = "r" /\ cmd[s].newName \in Names
  BY <1>1, <1>2, RequestFields DEF SessionInv, At, RenamePlaces
<1>5. entries[cmd[s].newName] \notin INumbers /\ entries[name[s]] # NoNode
  BY <1>1, <1>2, NoINumber DEF RenameInv, LookedUp
<1>6. entries[cmd[s].newName] \in INumbers \cup {-1, NoNode}
  BY <1>4 DEF TypeInv, TypeOK
<1>7. ~MayRename(s) => entries[cmd[s].newName] = -1
  BY <1>5, <1>6 DEF MayRename
<1> QED
  BY <1>1, <1>2, <1>3, <1>4, <1>7 DEF RenameInv, OwnLock

LEMMA NextKeepsRenameInv ==
  ASSUME OneClient, RenameInv, TypeInv, SessionInv, [Next]_vars
  PROVE  RenameInv'
<1>1. PICK s : Sessions = {s}
  BY DEF OneClient
<1>2. s \in Sessions /\ pc \in [Sessions -> Places]
  BY <1>1 DEF SessionInv
<1>3. ASSUME UNCHANGED <<entries, pc, cmd, name, misused>> PROVE RenameInv'
  BY <1>3 DEF RenameInv, OwnLock, LookedUp
<1>4. ASSUME ~misused, UNCHANGED misused, pc'[s] \notin {"r_old", "r_lookup", "r_owner", "reName"}
      PROVE  RenameInv'
  BY <1>1, <1>4 DEF RenameInv, OwnLock, LookedUp
<1>5. ASSUME ~misused, processCommand(s) PROVE RenameInv'
  <2>1. inbox[s] \in Seq(Requests) /\ inbox[s] # <<>>
    BY <1>2, <1>5 DEF processCommand, SessionInv
  <2>2. Head(inbox[s]).cmd \in {"c", "l", "w", "r", "o", "d", "x"}
    BY <2>1, RequestFields
  <2>3. pc'[s] = Head(inbox[s]).cmd /\ UNCHANGED misused
    BY <1>2, <1>5 DEF processCommand
  <2> QED
    BY <1>4, <1>5, <2>2, <2>3
<1>6. ASSUME ~misused, applyCommands(s) PROVE RenameInv'
  <2>1. CASE RenameSearch(s)
    BY <1>1, <1>6, <2>1, SearchKeepsRenameInv
  <2>2. CASE /\ UNCHANGED misused
             /\ RenameNew(s) \/ RenameOld(s) \/ RenameLookup(s) \/ RenameOwner(s)
    <3>1. LookedUp(s)'
      BY <1>1, <2>2, LooksKeepLookedUp DEF RenameInv
    <3> QED
      BY <1>1, <1>6, <2>2, <3>1 DEF RenameInv, OwnLock
  <2>3. CASE /\ UNCHANGED misused
             /\ \/ CreateCheck(s) \/ CreateInode(s) \/ CreateEntry(s) \/ ReadFile(s) \/ WriteFile(s)
                \/ RenameMove(s) \/ OpenLookup(s) \/ OpenGrant(s) \/ DeleteLookup(s)
                \/ DeleteCheck(s) \/ DeleteEntry(s) \/ DeleteInode(s) \/ CloseFile(s)
    <3>1. pc'[s] \notin {"r_old", "r_lookup", "r_owner", "reName"}
      BY <1>2, <2>3, Moves DEF Goto
    <3> QED
      BY <1>4, <1>6, <2>3, <3>1
  <2> QED
    BY <1>6, <2>1, <2>2, <2>3 DEF applyCommands
<1>7. ASSUME Send(s) \/ readOutp(s) \/ UNCHANGED vars PROVE RenameInv'
  BY <1>3, <1>7 DEF Send, readOutp, vars, locals
<1> QED
  BY <1>1, <1>5, <1>6, <1>7 DEF Next, Quiet

LEMMA InitRenameInv == Init => RenameInv
  BY DEF Init, RenameInv, OwnLock, LookedUp

\* With one client, a rename unlocks what it has not locked only when its new
\* name has the node that a create left which found the table full.
THEOREM ServerOwnLock == OneClient /\ Spec => []OwnLock
<1>1. RenameInv => OwnLock
  BY DEF RenameInv
<1>2. OneClientInv /\ RenameInv /\ [Next]_vars => RenameInv'
  BY NextKeepsRenameInv DEF OneClientInv
<1> QED
  BY <1>1, <1>2, InitOneClientInv, InitRenameInv, NextKeepsOneClientInv, PTL DEF Spec
=============================================================================
