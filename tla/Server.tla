------------------------------- MODULE Server -------------------------------
(***************************************************************************)
(* The TecnicoFS server and its clients (Operating Systems/proj3:          *)
(* server/main.c, client/tecnicofs-client-api.c).  Every client has a      *)
(* session: a thread that reads a command from the client's socket, runs   *)
(* applyCommands and writes the reply.  Sessions share the directory and   *)
(* the i-node table; a command takes the lock of one or the other several  *)
(* times, and other sessions run in between.                               *)
(*                                                                         *)
(* One call of lookup, create or delete is one step: module Directory      *)
(* shows that the bucket locks make it so.  The names are those of one     *)
(* bucket, so that reName takes one lock; its way of taking two is left    *)
(* out.                                                                    *)
(*                                                                         *)
(* A create that finds the table full stores a node with i-number -1.      *)
(* lookup answers -1 for it as it does for no node at all; search, which   *)
(* reName calls, tells the two apart.                                      *)
(*                                                                         *)
(* To unlock what one has not locked is undefined: the model goes no       *)
(* further there.                                                          *)
(***************************************************************************)
EXTENDS Inodes, Sequences, FiniteSets

CONSTANTS Sessions,        \* the connected clients
          Uid,             \* Uid[s]: the user at the other end of the socket
          Names,           \* the file names clients use
          Garbage,         \* a name variable that was never written
          Perms,           \* the permissions of new files: <<owner, others>>
          Modes,           \* the modes files are opened with
          Ops,             \* the commands clients send
          MAX_OPEN_FILES,
          MaxRequests      \* bound: the requests of one client

ASSUME ServerAssumption ==
  /\ \A s \in Sessions : Uid[s] \in Uids
  /\ Garbage \notin Names
  /\ Perms \subseteq (0 .. 9) \X (0 .. 9)
  /\ Modes \subseteq NONE .. RW
  /\ Ops \subseteq {"c", "l", "w", "r", "o", "d", "x"}
  /\ {MAX_OPEN_FILES, MaxRequests} \subseteq Nat \ {0}

FILE_ALREADY_EXISTS == -4
FILE_NOT_FOUND      == -5
PERMISSION_DENIED   == -6
MAXED_OPEN_FILES    == -7
FILE_NOT_OPEN       == -8
FILE_IS_OPEN        == -9
INVALID_MODE        == -10

\* What search answers for a name without a node: the null pointer.
NoNode == -2

Slots == 1 .. MAX_OPEN_FILES
Closed == [fd |-> -1, mode |-> -1]

Requests ==
  {r \in [cmd : {"c"}, name : Names, perms : Perms]
         \cup [cmd : {"l"}, fd : INumbers]
         \cup [cmd : {"w"}, fd : INumbers, content : Contents]
         \cup [cmd : {"r"}, name : Names, newName : Names]
         \cup [cmd : {"o"}, name : Names, mode : Modes]
         \cup [cmd : {"d"}, name : Names]
         \cup [cmd : {"x"}, fd : INumbers] : r.cmd \in Ops}
NoRequest == [cmd |-> "none"]

VARIABLES entries,    \* entries[n]: the i-number in the node of n, or NoNode
          pc,         \* pc[s]: the next step of session s
          cmd,        \* cmd[s]: the command session s runs
          name,       \* name[s]: the stack variable of that name
          iNumber,    \* iNumber[s]
          info,       \* info[s]: owner and permissions, as inode_get left them
          openFile,   \* openFile[s]: the table of open files of session s
          inbox,      \* inbox[s]: the bytes the client wrote
          replies,    \* replies[s]: the bytes the session wrote
          waiting,    \* waiting[s]: the client is blocked in read
          sent,       \* sent[s]: how many requests it made
          misused     \* a session has unlocked bstLock without holding it

locals   == <<name, iNumber, info>>
clients  == <<inbox, waiting, sent>>
vars == <<inode_table, entries, pc, cmd, locals, openFile, replies, clients, misused>>

Init == /\ inode_table_init
        /\ entries = [n \in Names |-> NoNode]
        /\ pc = [s \in Sessions |-> "read"]
        /\ cmd = [s \in Sessions |-> NoRequest]
        /\ name = [s \in Sessions |-> Garbage]
        /\ iNumber = [s \in Sessions |-> -1]
        /\ info = [s \in Sessions |-> [owner |-> FREE_INODE, mine |-> NONE, others |-> NONE]]
        /\ openFile = [s \in Sessions |-> [i \in Slots |-> Closed]]
        /\ inbox = [s \in Sessions |-> <<>>]
        /\ replies = [s \in Sessions |-> <<>>]
        /\ waiting = [s \in Sessions |-> FALSE]
        /\ sent = [s \in Sessions |-> 0]
        /\ misused = FALSE

-----------------------------------------------------------------------------
\* The client API: a request is written, then one reply is read.
Send(s) == /\ ~waiting[s]
           /\ sent[s] < MaxRequests
           /\ \E r \in Requests : inbox' = [inbox EXCEPT ![s] = Append(@, r)]
           /\ waiting' = [waiting EXCEPT ![s] = TRUE]
           /\ sent' = [sent EXCEPT ![s] = @ + 1]
           /\ UNCHANGED <<inode_table, entries, pc, cmd, locals, openFile, replies, misused>>

readOutp(s) == /\ waiting[s]
               /\ replies[s] # <<>>
               /\ replies' = [replies EXCEPT ![s] = Tail(@)]
               /\ waiting' = [waiting EXCEPT ![s] = FALSE]
               /\ UNCHANGED <<inode_table, entries, pc, cmd, locals, openFile, inbox, sent, misused>>

-----------------------------------------------------------------------------
\* processCommand: one read takes everything the client has written, and
\* applyCommands runs the command at its beginning.  A command without a
\* name leaves the variable name as the command before left it.
processCommand(s) ==
  /\ pc[s] = "read"
  /\ inbox[s] # <<>>
  /\ LET r == Head(inbox[s])
     IN /\ cmd' = [cmd EXCEPT ![s] = r]
        /\ name' = [name EXCEPT ![s] = IF "name" \in DOMAIN r THEN r.name ELSE @]
        /\ pc' = [pc EXCEPT ![s] = r.cmd]
  /\ inbox' = [inbox EXCEPT ![s] = <<>>]
  /\ UNCHANGED <<inode_table, entries, iNumber, info, openFile, replies, waiting, sent, misused>>

\* A step of a command, and its end with the replies it writes.  iNumber is a
\* local of applyCommands that each command sets before it uses it.
Goto(s, from, to) == pc[s] = from /\ pc' = [pc EXCEPT ![s] = to] /\ UNCHANGED <<cmd, name, clients>>

Step(s, from, to) == Goto(s, from, to) /\ UNCHANGED replies

End(s, from, codes) == /\ Goto(s, from, "read")
                       /\ replies' = [replies EXCEPT ![s] = @ \o codes]
                       /\ iNumber' = [iNumber EXCEPT ![s] = -1]

lookup(n) == IF n \in Names /\ entries[n] # NoNode THEN entries[n] ELSE -1

\* inode_get into owner, ownerPermissions, othersPermissions: a free i-node
\* leaves the three variables alone, and no caller looks at the result.
inode_get(s, i) ==
  info' = [info EXCEPT ![s] = IF Used(i)
                              THEN [owner  |-> inode_table[i].owner,
                                    mine   |-> inode_table[i].ownerPermissions,
                                    others |-> inode_table[i].othersPermissions]
                              ELSE @]

\* 'c'
InRange(p) == p \in NONE .. RW

PermsAccepted(perms) == \E i \in 1 .. 2 : InRange(perms[i])

CreateCheck(s) ==
  /\ pc[s] = "c"
  /\ \/ /\ ~PermsAccepted(cmd[s].perms)
        /\ End(s, "c", <<>>)
     \/ /\ PermsAccepted(cmd[s].perms)
        /\ lookup(name[s]) >= 0
        /\ End(s, "c", <<FILE_ALREADY_EXISTS>>)
     \/ /\ PermsAccepted(cmd[s].perms)
        /\ lookup(name[s]) < 0
        /\ Step(s, "c", "inode_create")
        /\ UNCHANGED iNumber
  /\ UNCHANGED <<inode_table, entries, info, openFile>>

CreateInode(s) ==
  /\ pc[s] = "inode_create"
  /\ Step(s, "inode_create", "create")
  /\ inode_create(Uid[s], cmd[s].perms[1], cmd[s].perms[2])
  /\ iNumber' = [iNumber EXCEPT ![s] = NextINumber]
  /\ UNCHANGED <<entries, info, openFile>>

CreateEntry(s) ==
  /\ End(s, "create", <<0>>)
  /\ entries' = [entries EXCEPT ![name[s]] = iNumber[s]]
  /\ UNCHANGED <<inode_table, info, openFile>>

\* 'l': the loop over the open files ends in its first turn, whatever it
\* finds there.  The reply to a read carries the content.
ReadFile(s) ==
  LET first == openFile[s][1]
  IN /\ pc[s] = "l"
     /\ End(s, "l", IF first.fd # cmd[s].fd THEN <<FILE_NOT_OPEN>>
                    ELSE IF first.mode \in {RW, READ} THEN <<0>>
                    ELSE <<INVALID_MODE>>)
     /\ IF first.fd = cmd[s].fd THEN inode_get(s, cmd[s].fd) ELSE UNCHANGED info
     /\ UNCHANGED <<inode_table, entries, openFile>>

\* 'w'
SlotsOf(s, fd) == {i \in Slots : openFile[s][i].fd = fd}
First(S) == CHOOSE i \in S : \A j \in S : i <= j

WriteFile(s) ==
  /\ pc[s] = "w"
  /\ \/ /\ SlotsOf(s, cmd[s].fd) = {}
        /\ End(s, "w", <<FILE_NOT_OPEN>>)
        /\ UNCHANGED inode_table
     \/ /\ SlotsOf(s, cmd[s].fd) # {}
        /\ openFile[s][First(SlotsOf(s, cmd[s].fd))].mode \in {RW, WRITE}
        /\ inode_set(cmd[s].fd, cmd[s].content)
        /\ End(s, "w", <<0>>)
     \/ /\ SlotsOf(s, cmd[s].fd) # {}
        /\ openFile[s][First(SlotsOf(s, cmd[s].fd))].mode \notin {RW, WRITE}
        /\ End(s, "w", <<INVALID_MODE>>)
        /\ UNCHANGED inode_table
  /\ UNCHANGED <<entries, info, openFile>>

\* Fault: the new name is not looked up.
RenameNewUnchecked(s) ==
  /\ pc[s] = "r"
  /\ Step(s, "r", "r_old")
  /\ UNCHANGED <<inode_table, entries, iNumber, info, openFile>>

\* 'r'
RenameNew(s) ==
  /\ pc[s] = "r"
  /\ IF lookup(cmd[s].newName) >= 0
     THEN End(s, "r", <<FILE_ALREADY_EXISTS>>)
     ELSE Step(s, "r", "r_old") /\ UNCHANGED iNumber
  /\ UNCHANGED <<inode_table, entries, info, openFile>>

RenameOld(s) ==
  /\ IF lookup(name[s]) < 0
     THEN End(s, "r_old", <<FILE_NOT_FOUND>>)
     ELSE Step(s, "r_old", "r_lookup") /\ UNCHANGED iNumber
  /\ UNCHANGED <<inode_table, entries, info, openFile>>

RenameLookup(s) ==
  /\ Step(s, "r_lookup", "r_owner")
  /\ iNumber' = [iNumber EXCEPT ![s] = lookup(name[s])]
  /\ UNCHANGED <<inode_table, entries, info, openFile>>

RenameOwner(s) ==
  /\ inode_get(s, iNumber[s])
  /\ IF Uid[s] = info'[s].owner
     THEN Step(s, "r_owner", "reName") /\ UNCHANGED iNumber
     ELSE End(s, "r_owner", <<>>)
  /\ UNCHANGED <<inode_table, entries, openFile>>

\* reName searches without a lock; if it finds what it needs it takes the
\* lock and searches again; and it unlocks whether it has locked or not.  What
\* a search on line 97 finds without the lock is left out: the unlock follows.
MayRename(s) == entries[name[s]] # NoNode /\ entries[cmd[s].newName] = NoNode

\* While another session is inside an update of the tree, the search without a
\* lock may find anything.
Disturbed(s) == \E t \in Sessions \ {s} : pc[t] \in {"create", "delete", "r_move"}

RenameSearch(s) ==
  /\ pc[s] = "reName"
  /\ \/ /\ MayRename(s) \/ Disturbed(s)
        /\ Step(s, "reName", "r_move")
        /\ UNCHANGED <<iNumber, misused>>
     \/ /\ ~MayRename(s) \/ Disturbed(s)
        /\ End(s, "reName", <<0>>)
        /\ misused' = TRUE
  /\ UNCHANGED <<inode_table, entries, info, openFile>>

RenameMove(s) ==
  /\ pc[s] = "r_move"
  /\ End(s, "r_move", <<0>>)
  /\ entries' = IF MayRename(s)
                THEN [entries EXCEPT ![name[s]] = NoNode, ![cmd[s].newName] = entries[name[s]]]
                ELSE entries
  /\ UNCHANGED <<inode_table, info, openFile>>

\* Fault: a missing file is not reported.
OpenLookupSilent(s) ==
  /\ pc[s] = "o"
  /\ IF lookup(name[s]) < 0
     THEN End(s, "o", <<>>)
     ELSE Step(s, "o", "o_grant") /\ iNumber' = [iNumber EXCEPT ![s] = lookup(name[s])]
  /\ UNCHANGED <<inode_table, entries, info, openFile>>

\* 'o'
OpenLookup(s) ==
  /\ pc[s] = "o"
  /\ IF lookup(name[s]) < 0
     THEN End(s, "o", <<FILE_NOT_FOUND>>)
     ELSE Step(s, "o", "o_grant") /\ iNumber' = [iNumber EXCEPT ![s] = lookup(name[s])]
  /\ UNCHANGED <<inode_table, entries, info, openFile>>

\* Fault: a mode that is none of the three is granted.
AllowsAny(perm, mode) == \/ mode = RW /\ perm > NONE
                         \/ mode = READ /\ perm \in {READ, RW}
                         \/ mode = WRITE /\ perm \in {WRITE, RW}
                         \/ mode \notin {WRITE, READ, RW}

Allows(perm, mode) == \/ mode = RW /\ perm > NONE
                      \/ mode = READ /\ perm \in {READ, RW}
                      \/ mode = WRITE /\ perm \in {WRITE, RW}

\* Fault: the permissions of the owner are everybody's.
GrantedAsOwner(s, mode) == Allows(info'[s].mine, mode)

Granted(s, mode) == IF Uid[s] = info'[s].owner THEN Allows(info'[s].mine, mode)
                                               ELSE Allows(info'[s].others, mode)

FreeSlots(s) == {i \in Slots : openFile[s][i].fd < 0}

OpenGrant(s) ==
  /\ pc[s] = "o_grant"
  /\ inode_get(s, iNumber[s])
  /\ \/ /\ Granted(s, cmd[s].mode) /\ FreeSlots(s) # {}
        /\ openFile' = [openFile EXCEPT ![s][First(FreeSlots(s))] =
                          [fd |-> iNumber[s], mode |-> cmd[s].mode]]
        /\ End(s, "o_grant", <<iNumber[s]>>)
     \/ /\ Granted(s, cmd[s].mode) /\ FreeSlots(s) = {}
        /\ End(s, "o_grant", <<MAXED_OPEN_FILES, PERMISSION_DENIED>>)
        /\ UNCHANGED openFile
     \/ /\ ~Granted(s, cmd[s].mode)
        /\ End(s, "o_grant", <<PERMISSION_DENIED>>)
        /\ UNCHANGED openFile
  /\ UNCHANGED <<inode_table, entries>>

\* 'd'
DeleteLookup(s) ==
  /\ pc[s] = "d"
  /\ IF lookup(name[s]) < 0
     THEN End(s, "d", <<FILE_NOT_FOUND>>)
     ELSE Step(s, "d", "d_check") /\ iNumber' = [iNumber EXCEPT ![s] = lookup(name[s])]
  /\ UNCHANGED <<inode_table, entries, info, openFile>>

\* Fault: an open file may be deleted.
DeleteCheckOwner(s) ==
  /\ pc[s] = "d_check"
  /\ inode_get(s, iNumber[s])
  /\ \/ /\ Uid[s] # info'[s].owner
        /\ End(s, "d_check", <<PERMISSION_DENIED>>)
     \/ /\ Uid[s] = info'[s].owner
        /\ Step(s, "d_check", "delete")
        /\ UNCHANGED iNumber
  /\ UNCHANGED <<inode_table, entries, openFile>>

DeleteCheck(s) ==
  /\ pc[s] = "d_check"
  /\ inode_get(s, iNumber[s])
  /\ \/ /\ Uid[s] # info'[s].owner
        /\ End(s, "d_check", <<PERMISSION_DENIED>>)
     \/ /\ Uid[s] = info'[s].owner
        /\ SlotsOf(s, iNumber[s]) # {}
        /\ End(s, "d_check", <<FILE_IS_OPEN>>)
     \/ /\ Uid[s] = info'[s].owner
        /\ SlotsOf(s, iNumber[s]) = {}
        /\ Step(s, "d_check", "delete")
        /\ UNCHANGED iNumber
  /\ UNCHANGED <<inode_table, entries, openFile>>

\* Fault: the entry of a deleted file stays in the directory.
DeleteEntryNot(s) ==
  /\ Step(s, "delete", "inode_delete")
  /\ UNCHANGED <<inode_table, entries, iNumber, info, openFile>>

DeleteEntry(s) ==
  /\ Step(s, "delete", "inode_delete")
  /\ entries' = [entries EXCEPT ![name[s]] = NoNode]
  /\ UNCHANGED <<inode_table, iNumber, info, openFile>>

DeleteInode(s) ==
  /\ End(s, "inode_delete", <<0>>)
  /\ inode_delete(iNumber[s])
  /\ UNCHANGED <<entries, info, openFile>>

\* 'x': the file that is closed is the one of the variable name, which this
\* command does not set.
CloseFile(s) ==
  LET i     == lookup(name[s])
      found == SlotsOf(s, i)
  IN /\ pc[s] = "x"
     /\ \/ i < 0 /\ End(s, "x", <<FILE_NOT_FOUND>>) /\ UNCHANGED openFile
        \/ i >= 0 /\ found = {} /\ End(s, "x", <<MAXED_OPEN_FILES>>) /\ UNCHANGED openFile
        \/ /\ i >= 0 /\ found # {}
           /\ openFile' = [openFile EXCEPT ![s][First(found)] = Closed]
           /\ End(s, "x", <<0>>)
     /\ UNCHANGED <<inode_table, entries, info>>

applyCommands(s) ==
  \/ RenameSearch(s)
  \/ /\ \/ CreateCheck(s) \/ CreateInode(s) \/ CreateEntry(s)
        \/ ReadFile(s) \/ WriteFile(s)
        \/ RenameNew(s) \/ RenameOld(s) \/ RenameLookup(s) \/ RenameOwner(s) \/ RenameMove(s)
        \/ OpenLookup(s) \/ OpenGrant(s)
        \/ DeleteLookup(s) \/ DeleteCheck(s) \/ DeleteEntry(s) \/ DeleteInode(s)
        \/ CloseFile(s)
     /\ UNCHANGED misused

\* Every client has made its requests and has its answers.
Quiet == /\ \A s \in Sessions : /\ sent[s] = MaxRequests /\ ~waiting[s]
                                /\ pc[s] = "read" /\ inbox[s] = <<>>
         /\ UNCHANGED vars

Next == /\ ~misused
        /\ \/ \E s \in Sessions : Send(s) \/ readOutp(s) \/ processCommand(s) \/ applyCommands(s)
           \/ Quiet

\* A session thread that can run runs, and a client that has a reply to read
\* reads it; no client has to make another request.  Once a session has
\* unlocked what it did not hold, nothing is promised any more.
Fairness == \A s \in Sessions : /\ WF_vars(~misused /\ (processCommand(s) \/ applyCommands(s)))
                              /\ WF_vars(~misused /\ readOutp(s))

Spec == Init /\ [][Next]_vars /\ Fairness
-----------------------------------------------------------------------------
TypeOK ==
  /\ InodesTypeOK
  /\ entries \in [Names -> INumbers \cup {-1, NoNode}]
  /\ cmd \in [Sessions -> Requests \cup {NoRequest}]
  /\ name \in [Sessions -> Names \cup {Garbage}]
  /\ iNumber \in [Sessions -> INumbers \cup {-1}]
  /\ openFile \in [Sessions -> [Slots -> [fd : INumbers, mode : {WRITE, READ, RW}] \cup {Closed}]]
  /\ \A s \in Sessions : replies[s] \in Seq(FILE_IS_OPEN - 1 .. INODE_TABLE_SIZE - 1)

Idle(s) == pc[s] = "read"

\* The names of files.  What a create leaves that has found the table full, a
\* node with i-number -1, is no file: OwnLock says what comes of it.
Files == {n \in Names : entries[n] >= 0}

\* With one client, between two commands the directory and the i-node table
\* describe the same files: the name of a file leads to an i-node of its own,
\* and no i-node is allocated that no name leads to.
SameFiles ==
  (\A s \in Sessions : Idle(s)) =>
    /\ {entries[n] : n \in Files} = {i \in INumbers : Used(i)}
    /\ \A m, n \in Files : m # n => entries[m] # entries[n]

\* With one client reName unlocks only what it has locked, save when the new
\* name has the node of a create that found the table full: applyCommands takes
\* that name for free, because lookup answers -1, and reName, which searches
\* for the node, does not.
OwnLock ==
  misused => \E s \in Sessions : cmd[s].cmd = "r" /\ entries[cmd[s].newName] = -1

\* With one client, a file it has open keeps its i-node whatever the client
\* deletes, renames or closes.
OpenFilesExist ==
  \A s \in Sessions : \A i \in Slots :
    openFile[s][i].fd >= 0 => Used(openFile[s][i].fd)

\* As long as nobody deletes, sessions that create and rename at the same time
\* never come to share an i-node by two names, the name of a file never leads
\* to a free i-node, and a name has a node without an i-node only when none is
\* left to be had.
EntriesHaveInodes ==
  /\ \A n \in Files : Used(entries[n])
  /\ \A m, n \in Files : m # n => entries[m] # entries[n]
  /\ (\E n \in Names : entries[n] = -1) => FreeINumbers = {}

\* As long as nobody deletes, a content changes only in an i-node that is in
\* use, and by a session that has it open in a mode for which the permissions
\* of its user are enough now, although they were looked at when the file was
\* opened: WRITE needs WRITE or RW.  RW needs, as the code has it, any
\* permission, so that who may only read can open in RW and write.
Permission(s, i) == IF inode_table[i].owner = Uid[s] THEN inode_table[i].ownerPermissions
                                                      ELSE inode_table[i].othersPermissions

MayWrite(s, i) == \E k \in Slots : /\ openFile[s][k].fd = i
                                  /\ openFile[s][k].mode \in {WRITE, RW}
                                  /\ Allows(Permission(s, i), openFile[s][k].mode)

WriteNeedsPermission ==
  [][\A s \in Sessions : \A i \in INumbers :
       /\ WriteFile(s)
       /\ inode_table'[i].fileContent # inode_table[i].fileContent
       => Used(i) /\ MayWrite(s, i)]_vars

\* The requests to which every way through applyCommands writes a reply.  A
\* create of which both permissions are out of range gets none, nor does a
\* rename by a user who does not own the file.
AlwaysAnswered(r) == r.cmd # "r" /\ (r.cmd = "c" => PermsAccepted(r.perms))

\* A client that is blocked in read while its session has such a request before
\* it gets an answer.
Answered ==
  \A s \in Sessions :
    waiting[s] /\ inbox[s] # <<>> /\ AlwaysAnswered(Head(inbox[s])) ~> (~waiting[s] \/ misused)

-----------------------------------------------------------------------------
(***************************************************************************)
(* What the comments of tecnicofs-api-constants.h say of the answers, and  *)
(* the code does not do.                                                   *)
(***************************************************************************)
\* -4, "Already exists a file with the given name": a create never replaces
\* the entry of a file that exists.
ExistingIsKept ==
  [][\A s \in Sessions : CreateEntry(s) => lookup(name[s]) < 0]_vars
=============================================================================
