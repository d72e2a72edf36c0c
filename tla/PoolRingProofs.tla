--------------------------- MODULE PoolRingProofs ---------------------------
(***************************************************************************)
(* Proofs about the command pool, for any number of consumers, any command *)
(* file and any number of slots: the types, the invariant of the directory *)
(* under the calls of the pool, who holds commandsLock, the units of the   *)
(* semaphores, that a consumer calls fs.c with what it has read from a     *)
(* command of the file, and that what the consumers read from the ring is  *)
(* the file, in order.                                                     *)
(***************************************************************************)
EXTENDS CommandPool, FiniteSetTheorems, TLAPS

(***************************************************************************)
(* The directory, as in DirectoryProofs.                                   *)
(***************************************************************************)
LEMMA DirHashRange == ASSUME NEW n \in Names PROVE Dir!hash(n) \in Dir!Indices
<1>1. FirstChar[n] \in Nat /\ Buckets \in Nat \ {0}
  BY PoolDirAssumption
<1>2. FirstChar[n] % Buckets \in 0 .. Buckets - 1
  BY <1>1
<1> QED
  BY <1>2 DEF Dir!hash, Dir!Indices

\* The three kinds of calls, and how a record tells which one it is.
LEMMA DirCallFields ==
  /\ Dir!NoCall.op = "none"
  /\ Dir!NoCall \notin Dir!Calls
  /\ \A c \in Dir!Calls : /\ c.op \in {"create", "delete", "lookup"}
                          /\ c.name \in Names
                          /\ c.inumber \in Nat
                          /\ c.op # "create" => c.inumber = Dir!Absent
<1>1. Dir!NoCall.op = "none"
  BY DEF Dir!NoCall
<1>2. ASSUME NEW c \in Dir!Calls
      PROVE  /\ c.op \in {"create", "delete", "lookup"}
             /\ c.name \in Names
             /\ c.inumber \in Nat
             /\ c.op # "create" => c.inumber = Dir!Absent
  <2>1. /\ c \in [op : {"create", "delete", "lookup"}, name : Names,
                inumber : (Nat \ {0}) \cup {Dir!Absent}]
        /\ c.op = "create" <=> c.inumber # Dir!Absent
    BY DEF Dir!Calls
  <2>2. (Nat \ {0}) \cup {Dir!Absent} \subseteq Nat
    BY PoolDirAssumption DEF Dir!Absent
  <2> QED
    BY <2>1, <2>2
<1>3. Dir!NoCall \notin Dir!Calls
  BY <1>1, <1>2
<1> QED
  BY <1>1, <1>2, <1>3

\* A thread that has begun a call addresses a bucket that exists.
LEMMA DirIndiceRange ==
  ASSUME Dir!TypeOK, Dir!CallOK, NEW t \in Consumers, at[t] # "idle"
  PROVE  call[t] \in Dir!Calls /\ call[t].name \in Names /\ Dir!indice(t) \in Dir!Indices
<1>1. call[t] \in Dir!Calls
  BY DEF Dir!TypeOK, Dir!CallOK
<1> QED
  BY <1>1, DirCallFields, DirHashRange DEF Dir!indice

LEMMA DirInitIInv == Dir!Init => Dir!IInv
<1> SUFFICES ASSUME Dir!Init PROVE Dir!IInv
  OBVIOUS
<1>1. Dir!TypeOK
  BY DEF Dir!Init, Dir!TypeOK, Dir!EmptyTree, Dir!Trees, Dir!Absent
<1>2. Dir!CallOK /\ Dir!HolderOK /\ Dir!Exclusive /\ Dir!FreshRoot
  BY DEF Dir!Init, Dir!CallOK, Dir!HolderOK, Dir!Exclusive, Dir!FreshRoot, Dir!Holding
<1>3. Dir!BucketPlacement
  BY DEF Dir!Init, Dir!BucketPlacement, Dir!EmptyTree, Dir!Absent
<1> QED
  BY <1>1, <1>2, <1>3 DEF Dir!IInv

-----------------------------------------------------------------------------
LEMMA DirInvokeIInv ==
  ASSUME Dir!IInv, NEW t \in Consumers, NEW c \in Dir!Calls, Dir!Invoke(t, c)
  PROVE  Dir!IInv'
<1> USE DEF Dir!Invoke, Dir!Goto
<1>1. Dir!TypeOK'
  BY DEF Dir!IInv, Dir!TypeOK
<1>2. Dir!CallOK'
  BY DirCallFields DEF Dir!IInv, Dir!TypeOK, Dir!CallOK
<1>3. Dir!HolderOK'
  BY DEF Dir!IInv, Dir!TypeOK, Dir!HolderOK, Dir!Holding, Dir!indice
<1>4. Dir!Exclusive'
  BY DEF Dir!IInv, Dir!Exclusive
<1>5. Dir!FreshRoot'
  BY DEF Dir!IInv, Dir!TypeOK, Dir!FreshRoot, Dir!indice
<1>6. Dir!BucketPlacement'
  BY DEF Dir!IInv, Dir!BucketPlacement
<1> QED
  BY <1>1, <1>2, <1>3, <1>4, <1>5, <1>6 DEF Dir!IInv

LEMMA DirWrlockIInv ==
  ASSUME Dir!IInv, NEW t \in Consumers, Dir!sync_wrlock(t)
  PROVE  Dir!IInv'
<1> USE DEF Dir!sync_wrlock, Dir!Goto
<1>0. Dir!indice(t) \in Dir!Indices
  BY DirIndiceRange DEF Dir!IInv
<1>1. Dir!TypeOK'
  BY <1>0 DEF Dir!IInv, Dir!TypeOK
<1>2. Dir!CallOK'
  BY DEF Dir!IInv, Dir!TypeOK, Dir!CallOK
<1>3. Dir!HolderOK'
  BY <1>0 DEF Dir!IInv, Dir!TypeOK, Dir!HolderOK, Dir!Holding, Dir!indice
<1>4. Dir!Exclusive'
  BY <1>0 DEF Dir!IInv, Dir!TypeOK, Dir!Exclusive, Dir!Free
<1>5. Dir!FreshRoot'
  BY DEF Dir!IInv, Dir!TypeOK, Dir!FreshRoot, Dir!indice
<1>6. Dir!BucketPlacement'
  BY DEF Dir!IInv, Dir!BucketPlacement
<1> QED
  BY <1>1, <1>2, <1>3, <1>4, <1>5, <1>6 DEF Dir!IInv

LEMMA DirRdlockIInv ==
  ASSUME Dir!IInv, NEW t \in Consumers, Dir!sync_rdlock(t)
  PROVE  Dir!IInv'
<1> USE DEF Dir!sync_rdlock, Dir!Goto
<1>0. Dir!indice(t) \in Dir!Indices
  BY DirIndiceRange DEF Dir!IInv
<1>1. Dir!TypeOK'
  BY <1>0 DEF Dir!IInv, Dir!TypeOK
<1>2. Dir!CallOK'
  BY DEF Dir!IInv, Dir!TypeOK, Dir!CallOK
<1>3. Dir!HolderOK'
  BY <1>0 DEF Dir!IInv, Dir!TypeOK, Dir!HolderOK, Dir!Holding, Dir!indice
<1>4. Dir!Exclusive'
  BY <1>0 DEF Dir!IInv, Dir!TypeOK, Dir!Exclusive, Dir!CanRead, Dir!Free
<1>5. Dir!FreshRoot'
  BY DEF Dir!IInv, Dir!TypeOK, Dir!FreshRoot, Dir!indice
<1>6. Dir!BucketPlacement'
  BY DEF Dir!IInv, Dir!BucketPlacement
<1> QED
  BY <1>1, <1>2, <1>3, <1>4, <1>5, <1>6 DEF Dir!IInv

LEMMA DirLoadIInv ==
  ASSUME Dir!IInv, NEW t \in Consumers, Dir!Load(t)
  PROVE  Dir!IInv'
<1> USE DEF Dir!Load, Dir!Goto
<1>0. Dir!indice(t) \in Dir!Indices
  BY DirIndiceRange DEF Dir!IInv
<1>1. Dir!TypeOK'
  BY <1>0 DEF Dir!IInv, Dir!TypeOK
<1>2. Dir!CallOK'
  BY DEF Dir!IInv, Dir!TypeOK, Dir!CallOK
<1>3. Dir!HolderOK'
  BY DEF Dir!IInv, Dir!TypeOK, Dir!HolderOK, Dir!Holding, Dir!indice
<1>4. Dir!Exclusive'
  BY DEF Dir!IInv, Dir!Exclusive
<1>5. Dir!FreshRoot'
  BY DEF Dir!IInv, Dir!TypeOK, Dir!FreshRoot, Dir!indice
<1>6. Dir!BucketPlacement'
  BY DEF Dir!IInv, Dir!BucketPlacement
<1> QED
  BY <1>1, <1>2, <1>3, <1>4, <1>5, <1>6 DEF Dir!IInv

\* What a writer stores is a tree, and it differs from the tree it replaces
\* at the name of the call only, whose bucket this is.
LEMMA DirStoredTree ==
  ASSUME Dir!IInv, NEW t \in Consumers, at[t] = "store"
  PROVE  /\ Dir!NewRoot(t) \in Dir!Trees
         /\ Dir!NewRoot(t) = [bstRoot[Dir!indice(t)] EXCEPT ![call[t].name] = call[t].inumber]
<1>1. call[t] \in Dir!Calls /\ Dir!indice(t) \in Dir!Indices
  BY DirIndiceRange DEF Dir!IInv
<1>2. root[t] = bstRoot[Dir!indice(t)] /\ root[t] \in Dir!Trees
  BY DEF Dir!IInv, Dir!FreshRoot, Dir!TypeOK
<1>3. call[t].name \in Names /\ call[t].inumber \in Nat
  BY <1>1, DirCallFields
<1>4. call[t].op # "create" => call[t].inumber = Dir!Absent
  BY <1>1, DirCallFields
<1>5. Dir!NewRoot(t) = [bstRoot[Dir!indice(t)] EXCEPT ![call[t].name] = call[t].inumber]
  BY <1>2, <1>4 DEF Dir!NewRoot, Dir!insert, Dir!remove_item
<1>6. [root[t] EXCEPT ![call[t].name] = call[t].inumber] \in Dir!Trees
  BY <1>2, <1>3 DEF Dir!Trees
<1> QED
  BY <1>2, <1>5, <1>6

LEMMA DirStoreIInv ==
  ASSUME Dir!IInv, NEW t \in Consumers, Dir!Store(t)
  PROVE  Dir!IInv'
<1> USE DEF Dir!Store, Dir!Goto
<1>0. Dir!indice(t) \in Dir!Indices /\ call[t] \in Dir!Calls /\ call[t].name \in Names
  BY DirIndiceRange DEF Dir!IInv
<1>1. Dir!TypeOK'
  BY <1>0, DirStoredTree DEF Dir!IInv, Dir!TypeOK
<1>2. Dir!CallOK'
  BY DEF Dir!IInv, Dir!TypeOK, Dir!CallOK
<1>3. Dir!HolderOK'
  BY DEF Dir!IInv, Dir!TypeOK, Dir!HolderOK, Dir!Holding, Dir!indice
<1>4. Dir!Exclusive'
  BY DEF Dir!IInv, Dir!Exclusive
<1>5. Dir!FreshRoot'
  <2> SUFFICES ASSUME NEW s \in Consumers, at'[s] = "store"
               PROVE  root'[s] = bstRoot'[Dir!indice(s)']
    BY DEF Dir!FreshRoot
  <2>1. s # t /\ at[s] = "store"
    BY DEF Dir!IInv, Dir!TypeOK
  <2>2. Dir!indice(s)' = Dir!indice(s)
    BY DEF Dir!indice
  <2>3. s \in writer[Dir!indice(s)] /\ t \in writer[Dir!indice(t)] /\ Dir!indice(s) \in Dir!Indices
    BY <1>0, <2>1, DirIndiceRange DEF Dir!IInv, Dir!HolderOK, Dir!Holding, Dir!CallOK
  <2>4. Dir!indice(s) # Dir!indice(t)
    BY <2>1, <2>3 DEF Dir!IInv, Dir!Exclusive
  <2> QED
    BY <2>1, <2>2, <2>3, <2>4 DEF Dir!IInv, Dir!TypeOK, Dir!FreshRoot
<1>6. Dir!BucketPlacement'
  <2> SUFFICES ASSUME NEW b \in Dir!Indices, NEW n \in Names, bstRoot'[b][n] # Dir!Absent
               PROVE  Dir!hash(n) = b
    BY DEF Dir!BucketPlacement
  <2>1. CASE b = Dir!indice(t) /\ n = call[t].name
    BY <2>1 DEF Dir!indice
  <2>2. CASE b = Dir!indice(t) /\ n # call[t].name
    <3>1. bstRoot'[b] = Dir!NewRoot(t)
      BY <1>0, <2>2 DEF Dir!IInv, Dir!TypeOK
    <3>2. bstRoot[b] \in Dir!Trees
      BY DEF Dir!IInv, Dir!TypeOK
    <3>3. bstRoot'[b][n] = bstRoot[b][n]
      BY <3>1, <3>2, <2>2, DirStoredTree DEF Dir!Trees
    <3> QED
      BY <3>3 DEF Dir!IInv, Dir!BucketPlacement
  <2>3. CASE b # Dir!indice(t)
    BY <2>3 DEF Dir!IInv, Dir!TypeOK, Dir!BucketPlacement
  <2> QED
    BY <2>1, <2>2, <2>3
<1> QED
  BY <1>1, <1>2, <1>3, <1>4, <1>5, <1>6 DEF Dir!IInv

LEMMA DirSearchIInv ==
  ASSUME Dir!IInv, NEW t \in Consumers, Dir!Search(t)
  PROVE  Dir!IInv'
<1> USE DEF Dir!Search, Dir!Goto
<1>0. Dir!indice(t) \in Dir!Indices /\ call[t].name \in Names
  BY DirIndiceRange DEF Dir!IInv
<1>1. Dir!TypeOK'
  <2>1. Dir!search(bstRoot[Dir!indice(t)], call[t].name) \in Nat
    BY <1>0 DEF Dir!IInv, Dir!TypeOK, Dir!Trees, Dir!search
  <2> QED
    BY <2>1 DEF Dir!IInv, Dir!TypeOK
<1>2. Dir!CallOK'
  BY DEF Dir!IInv, Dir!TypeOK, Dir!CallOK
<1>3. Dir!HolderOK'
  BY DEF Dir!IInv, Dir!TypeOK, Dir!HolderOK, Dir!Holding, Dir!indice
<1>4. Dir!Exclusive'
  BY DEF Dir!IInv, Dir!Exclusive
<1>5. Dir!FreshRoot'
  BY DEF Dir!IInv, Dir!TypeOK, Dir!FreshRoot, Dir!indice
<1>6. Dir!BucketPlacement'
  BY DEF Dir!IInv, Dir!BucketPlacement
<1> QED
  BY <1>1, <1>2, <1>3, <1>4, <1>5, <1>6 DEF Dir!IInv

LEMMA DirUnlockIInv ==
  ASSUME Dir!IInv, NEW t \in Consumers, Dir!sync_unlock(t)
  PROVE  Dir!IInv'
<1> USE DEF Dir!sync_unlock, Dir!Goto
<1>0. Dir!indice(t) \in Dir!Indices
  BY DirIndiceRange DEF Dir!IInv
<1>1. Dir!TypeOK'
  BY <1>0 DEF Dir!IInv, Dir!TypeOK, Dir!EmptyTree, Dir!Trees, Dir!Absent
<1>2. Dir!CallOK'
  BY DEF Dir!IInv, Dir!TypeOK, Dir!CallOK
<1>3. Dir!HolderOK'
  BY <1>0 DEF Dir!IInv, Dir!TypeOK, Dir!HolderOK, Dir!Holding, Dir!indice
<1>4. Dir!Exclusive'
  BY <1>0 DEF Dir!IInv, Dir!TypeOK, Dir!Exclusive
<1>5. Dir!FreshRoot'
  BY DEF Dir!IInv, Dir!TypeOK, Dir!FreshRoot, Dir!indice
<1>6. Dir!BucketPlacement'
  BY DEF Dir!IInv, Dir!BucketPlacement
<1> QED
  BY <1>1, <1>2, <1>3, <1>4, <1>5, <1>6 DEF Dir!IInv

LEMMA DirStepIInv ==
  ASSUME Dir!IInv, NEW t \in Consumers, Dir!Step(t)
  PROVE  Dir!IInv'
BY DirWrlockIInv, DirRdlockIInv, DirLoadIInv, DirStoreIInv, DirSearchIInv, DirUnlockIInv DEF Dir!Step

LEMMA DirStutter == Dir!IInv /\ UNCHANGED dir => Dir!IInv'
BY DEF dir, Dir!IInv, Dir!TypeOK, Dir!CallOK, Dir!HolderOK, Dir!Exclusive, Dir!FreshRoot,
       Dir!BucketPlacement, Dir!Holding, Dir!indice

-----------------------------------------------------------------------------
(***************************************************************************)
(* The pool.  The file and the threads of the pool never change, and so    *)
(* nothing that is defined by them.                                        *)
(***************************************************************************)
LEMMA ArgsFixed == [Next]_vars => args' = args
<1> USE DEF Goto
<1>1. ASSUME NEW t \in Threads, insertCommand(t) PROVE args' = args
  BY <1>1 DEF insertCommand, WaitLoad, CopyIn, Advance, PostExecute
<1>2. ASSUME NEW c \in Consumers, applyCommands(c) PROVE args' = args
  <2>1. CASE Switch(c)
    BY <2>1 DEF Switch, DoCreate, DoLookup, DoDelete, DoRename, DoEnd, DoFail, Start
  <2> QED
    BY <1>2, <2>1 DEF applyCommands, LockCommands, WaitExecute, TakeSlot, Parse, FreeSlot,
                      LookupNew, RemoveOld, KeepOld, CreateNew, Applied, ExtraPost, Returned
<1>3. ASSUME NEW c \in Consumers, InDirectory(c) PROVE args' = args
  BY <1>3 DEF InDirectory
<1> QED
  BY <1>1, <1>2, <1>3 DEF Next, ThreadStep, ReadLine, ReadEnd, Join, Exited, vars

LEMMA FileFixed ==
  ASSUME args' = args
  PROVE  /\ Script' = Script /\ Stop' = Stop /\ CommandLines' = CommandLines
         /\ Count' = Count /\ Commands' = Commands /\ Texts' = Texts /\ AtMostTwo' = AtMostTwo
BY DEF Script, Stop, CommandLines, Count, Commands, Texts, AtMostTwo

\* What a line has that is a command.
LEMMA CommandLine ==
  ASSUME args \in Arguments, NEW i \in CommandLines
  PROVE  /\ i \in 1 .. Len(Script) /\ i # Empty /\ i # End
         /\ Script[i] \in Lines /\ Script[i].token \in Tokens /\ Script[i].name \in Names
         /\ Script[i].token = "r" => Script[i].newName \in Names
<1>1. Script \in Seq(Lines) /\ i \in DOMAIN Script /\ Valid(Script[i])
  BY PoolAssumption DEF CommandLines, Script
<1>2. i \in 1 .. Len(Script) /\ Script[i] \in Lines
  BY <1>1
<1>3. Script[i].token \in Tokens /\ Script[i].name # Missing
  BY <1>1 DEF Valid, Tokens
<1>4. Script[i].name \in Names /\ Script[i].newName \in Names \cup {Missing}
  BY <1>2, <1>3 DEF Lines
<1>5. Script[i].token = "r" => Script[i].newName # Missing
  BY <1>1, PoolAssumption DEF Script
<1> QED
  BY <1>2, <1>3, <1>4, <1>5 DEF Empty, End

\* What sscanf reads from a slot.
LEMMA Scan ==
  ASSUME args \in Arguments, NEW s \in Texts, NEW old \in Scans
  PROVE  /\ sscanf(old, Text(s)) \in Scans
         /\ s = Empty => sscanf(old, Text(s)).token = old.token
                         /\ sscanf(old, Text(s)).name = old.name
                         /\ sscanf(old, Text(s)).newName = old.newName
         /\ s = End => sscanf(old, Text(s)).token = "x"
         /\ s \in CommandLines =>
              /\ sscanf(old, Text(s)).token = Script[s].token
              /\ sscanf(old, Text(s)).name = Script[s].name
              /\ Script[s].token = "r" => sscanf(old, Text(s)).newName = Script[s].newName
<1> USE PoolAssumption DEF sscanf, Scanned, Text, Scans, Tokens
<1>0. Empty \notin CommandLines /\ End \notin CommandLines /\ Empty # End
  BY CommandLine DEF Empty, End
<1>1. CASE s = Empty
  BY <1>0, <1>1
<1>2. CASE s = End
  BY <1>0, <1>2
<1>3. CASE s \in CommandLines
  <2>1. Text(s) = Script[s] /\ s # Empty /\ s # End
    BY <1>3, CommandLine
  <2>2. /\ Script[s].token \in {"c", "l", "r", "d"} /\ Script[s].token # Missing
        /\ Script[s].name \in Names /\ Script[s].name # Missing
        /\ Script[s].newName \in Names \cup {Missing}
        /\ Script[s].token = "r" => Script[s].newName # Missing
    BY <1>3, CommandLine DEF Lines
  <2> HIDE DEF Text
  <2> QED
    BY <2>1, <2>2
<1> QED
  BY <1>1, <1>2, <1>3 DEF Texts

-----------------------------------------------------------------------------
\* The types of the variables that module CommandPool adds to the directory,
\* with the bounds of the semaphores left out.
Places == {"none", "read", "extra", "done"} \cup InLoop \cup InCall \cup Inserting
Types ==
  /\ args \in Arguments /\ status \in {"running", "finished", "failed"}
  /\ pc \in [Threads -> Places]
  /\ lineNumber \in 0 .. Len(Script)
  /\ data \in [Threads -> Texts] /\ inputCommands \in [Slots -> Texts]
  /\ prodpos \in Slots /\ conspos \in Slots
  /\ loadInputCommand \in Nat /\ executeCommand \in Nat
  /\ commandsLock \in Consumers \cup {NoThread} /\ loadLock \in Threads \cup {NoThread}
  /\ command \in [Consumers -> Slots] /\ parsed \in [Consumers -> Scans]
  /\ idNumber \in [Consumers -> Nat] /\ nextINumber \in Nat
  /\ applied \in Seq(Texts)

LEMMA NextSlot == ASSUME NEW s \in Slots PROVE (s + 1) % MAX_COMMANDS \in Slots
BY PoolAssumption DEF Slots

\* The next line is a command of the file if it is a command at all.
LEMMA ValidLine ==
  ASSUME Types, ProducerInv, status = "running", lineNumber < Len(Script), Valid(Script[lineNumber + 1])
  PROVE  lineNumber + 1 \in CommandLines
<1>1. lineNumber + 1 \in DOMAIN Script
  BY PoolAssumption DEF Types, Script
<1>2. ASSUME NEW j \in Stop PROVE lineNumber + 1 < j
  <2>1. j \in Nat /\ lineNumber < j /\ ~Valid(Script[j])
    BY PoolAssumption DEF Types, ProducerInv, Stop, Script
  <2> QED
    BY <2>1 DEF Types
<1> QED
  BY <1>1, <1>2 DEF CommandLines

LEMMA InitTypes == Init => Types
<1> SUFFICES ASSUME Init PROVE Types
  OBVIOUS
<1>1. Script \in Seq(Lines) /\ 0 \in 0 .. Len(Script)
  BY PoolAssumption DEF Init, Script
<1>2. Empty \in Texts
  BY DEF Texts
<1>3. pc \in [Threads -> Places]
  BY DEF Init, Places, InLoop
<1>4. parsed \in [Consumers -> Scans]
  BY DEF Init, Scans
<1>5. 0 \in Slots
  BY PoolAssumption DEF Slots
<1> QED
  BY <1>1, <1>2, <1>3, <1>4, <1>5, PoolAssumption DEF Init, Types

LEMMA StepTypes ==
  ASSUME Types, DirInv, ProducerInv, [Next]_vars
  PROVE  Types'
<1> USE DEF Types, Goto, dir, ring, sems, mutexes, locals
<1>0. /\ args' = args /\ Script' = Script /\ Texts' = Texts /\ End \in Texts
      /\ Script \in Seq(Lines) /\ ret \in [Consumers -> Nat]
      /\ Consumers \subseteq Threads /\ Producer \in Threads
  BY ArgsFixed, FileFixed, PoolAssumption DEF Texts, Script, Threads, DirInv, Dir!IInv, Dir!TypeOK
<1>01. Len(Script) \in Nat /\ (lineNumber < Len(Script) => lineNumber + 1 \in 0 .. Len(Script))
  BY <1>0
<1>1. CASE ReadLine
  <2>1. CASE Valid(Script[lineNumber + 1]) /\ data' = [data EXCEPT ![Producer] = lineNumber']
    <3>1. lineNumber + 1 \in Texts
      BY <1>1, <2>1, ValidLine DEF Texts, ReadLine
    <3> QED
      BY <1>0, <1>01, <1>1, <2>1, <3>1 DEF ReadLine, Places, Inserting
  <2>2. CASE UNCHANGED data
    BY <1>0, <1>01, <1>1, <2>2 DEF ReadLine, Places, Inserting
  <2> QED
    BY <1>1, <2>1, <2>2 DEF ReadLine
<1>2. CASE ReadEnd
  BY <1>0, <1>2 DEF ReadEnd, Places, Inserting
<1>3. ASSUME NEW t \in Threads, WaitLoad(t) PROVE Types'
  BY <1>0, <1>3 DEF WaitLoad, Places, Inserting
<1>4. ASSUME NEW t \in Threads, CopyIn(t) PROVE Types'
  BY <1>0, <1>4 DEF CopyIn, Places, Inserting
<1>5. ASSUME NEW t \in Threads, Advance(t) PROVE Types'
  BY <1>0, <1>5, NextSlot DEF Advance, Places, Inserting
<1>6. ASSUME NEW t \in Threads, PostExecute(t) PROVE Types'
  BY <1>0, <1>6 DEF PostExecute, Places, AfterInsert
<1>7. ASSUME NEW c \in Consumers, LockCommands(c) \/ WaitExecute(c) \/ FreeSlot(c) PROVE Types'
  <2>1. CASE LockCommands(c)
    BY <1>0, <2>1 DEF LockCommands, Places, InLoop
  <2>2. CASE WaitExecute(c)
    BY <1>0, <2>2 DEF WaitExecute, Places, InLoop
  <2>3. CASE FreeSlot(c)
    BY <1>0, <2>3 DEF FreeSlot, Places, InLoop
  <2> QED
    BY <1>7, <2>1, <2>2, <2>3
<1>8. ASSUME NEW c \in Consumers, TakeSlot(c) PROVE Types'
  BY <1>0, <1>8, NextSlot DEF TakeSlot, Places, InLoop
<1>9. ASSUME NEW c \in Consumers, Parse(c) PROVE Types'
  <2>1. inputCommands[command[c]] \in Texts
    OBVIOUS
  <2>2. parsed' \in [Consumers -> Scans]
    BY <1>9, <2>1, Scan DEF Parse
  <2> QED
    BY <1>0, <1>9, <2>1, <2>2 DEF Parse, Places, InLoop
<1>10. ASSUME NEW c \in Consumers, Switch(c) PROVE Types'
  <2>1. CASE DoCreate(c)
    BY <1>0, <2>1 DEF DoCreate, Start, obtainNewInumber, Places, InCall
  <2>4. CASE DoLookup(c) \/ DoDelete(c) \/ DoRename(c)
    BY <1>0, <2>4 DEF DoLookup, DoDelete, DoRename, Start, Places, InCall
  <2>2. CASE DoEnd(c)
    BY <1>0, <2>2 DEF DoEnd, Places, Inserting
  <2>3. CASE DoFail(c)
    BY <1>0, <2>3 DEF DoFail, Places
  <2> QED
    BY <1>10, <2>1, <2>2, <2>3, <2>4 DEF Switch
<1>11. ASSUME NEW c \in Consumers, LookupNew(c) \/ RemoveOld(c) \/ KeepOld(c) \/ CreateNew(c) \/ Applied(c)
       PROVE Types'
  BY <1>0, <1>11 DEF LookupNew, RemoveOld, KeepOld, CreateNew, Applied, Returned, Places, InCall, InLoop
<1>12. ASSUME NEW c \in Consumers, ExtraPost(c) \/ InDirectory(c) PROVE Types'
  <2>1. CASE ExtraPost(c)
    BY <1>0, <2>1 DEF ExtraPost, Places
  <2>2. CASE InDirectory(c)
    BY <1>0, <2>2 DEF InDirectory
  <2> QED
    BY <1>12, <2>1, <2>2
<1>13. CASE Join \/ Exited \/ UNCHANGED vars
  BY <1>0, <1>13 DEF Join, Exited, vars
<1> QED
  BY <1>1, <1>2, <1>3, <1>4, <1>5, <1>6, <1>7, <1>8, <1>9, <1>10, <1>11, <1>12, <1>13
     DEF Next, ThreadStep, insertCommand, applyCommands

-----------------------------------------------------------------------------
(***************************************************************************)
(* Where the threads stand: commandsLock has the one consumer between      *)
(* LockCommands and the switch, and only a thread that has a command calls *)
(* the directory.                                                          *)
(***************************************************************************)
LEMMA InitConsumerInv == Init => ConsumerInv /\ ProducerInv
<1> SUFFICES ASSUME Init PROVE ConsumerInv /\ ProducerInv
  OBVIOUS
<1> USE PoolAssumption DEF Init, Threads
<1>1. ConsumerInv
  BY DEF ConsumerInv, Dir!Init, Critical, InCall, InRename, Inserting, Ending
<1>2. Stop \subseteq Nat \ {0}
  BY DEF Stop, Script
<1>3. ProducerInv
  BY <1>2 DEF ProducerInv, Empty, End
<1> QED
  BY <1>1, <1>3

LEMMA StepConsumerInv ==
  ASSUME Types, DirInv, ConsumerInv, [Next]_vars
  PROVE  ConsumerInv'
<1> USE PoolAssumption DEF Types, Goto, dir, ring, sems, mutexes, locals, ConsumerInv
<1>0. /\ args' = args /\ Consumers \subseteq Threads /\ Producer \in Threads /\ NoThread \notin Consumers
      /\ at \in [Consumers -> {"idle", "lock", "load", "store", "search", "unlock"}]
  BY ArgsFixed DEF Threads, DirInv, Dir!IInv, Dir!TypeOK
<1>1. CASE ReadLine
  BY <1>0, <1>1 DEF ReadLine
<1>2. CASE ReadEnd
  BY <1>0, <1>2 DEF ReadEnd
<1>3. ASSUME NEW t \in Threads, insertCommand(t) PROVE ConsumerInv'
  <2>1. CASE WaitLoad(t)
    BY <1>0, <2>1 DEF WaitLoad, Critical, InCall, InRename, Inserting, Ending
  <2>2. CASE CopyIn(t)
    BY <1>0, <2>2 DEF CopyIn, Critical, InCall, InRename, Inserting, Ending
  <2>3. CASE Advance(t)
    BY <1>0, <2>3 DEF Advance, Critical, InCall, InRename, Inserting, Ending
  <2>4. CASE PostExecute(t)
    BY <1>0, <2>4 DEF PostExecute, AfterInsert, Critical, InCall, InRename, Inserting, Ending
  <2> QED
    BY <1>3, <2>1, <2>2, <2>3, <2>4 DEF insertCommand
<1>4. ASSUME NEW c \in Consumers, LockCommands(c) PROVE ConsumerInv'
  BY <1>0, <1>4 DEF LockCommands, Critical, InCall, InRename, Inserting, Ending
<1>5. ASSUME NEW c \in Consumers, WaitExecute(c) PROVE ConsumerInv'
  BY <1>0, <1>5 DEF WaitExecute, Critical, InCall, InRename, Inserting, Ending
<1>6. ASSUME NEW c \in Consumers, TakeSlot(c) PROVE ConsumerInv'
  BY <1>0, <1>6 DEF TakeSlot, Critical, InCall, InRename, Inserting, Ending
<1>7. ASSUME NEW c \in Consumers, Parse(c) PROVE ConsumerInv'
  <2>1. \A e \in Consumers : e # c => parsed'[e] = parsed[e]
    BY <1>7 DEF Parse
  <2> QED
    BY <1>0, <1>7, <2>1 DEF Parse, Critical, InCall, InRename, Inserting, Ending
<1>8. ASSUME NEW c \in Consumers, FreeSlot(c) PROVE ConsumerInv'
  BY <1>0, <1>8 DEF FreeSlot, Critical, InCall, InRename, Inserting, Ending
<1>9. ASSUME NEW c \in Consumers, Switch(c) PROVE ConsumerInv'
  <2>1. ASSUME NEW to \in InCall, NEW request, Start(c, request, to), parsed[c].token \in Tokens,
               to # "apply" => to = "lookupNew" /\ parsed[c].token = "r"
        PROVE  ConsumerInv'
    <3>1. at' = [at EXCEPT ![c] = "lock"] /\ at[c] = "idle"
      BY <2>1 DEF Start, Dir!Invoke, Dir!Goto
    <3> QED
      BY <1>0, <2>1, <3>1 DEF Start, Critical, InCall, InRename, Inserting, Ending, Tokens
  <2>2. CASE DoCreate(c) \/ DoLookup(c) \/ DoDelete(c) \/ DoRename(c)
    BY <2>1, <2>2 DEF DoCreate, DoLookup, DoDelete, DoRename, InCall, Tokens
  <2>3. CASE DoEnd(c)
    BY <1>0, <2>3 DEF DoEnd, Critical, InCall, InRename, Inserting, Ending
  <2>4. CASE DoFail(c)
    BY <1>0, <2>4 DEF DoFail, Critical, InCall, InRename, Inserting, Ending
  <2> QED
    BY <1>9, <2>2, <2>3, <2>4 DEF Switch
<1>10. ASSUME NEW c \in Consumers, NEW from \in InCall, NEW to \in Places, NEW request,
              Returned(c, from, to), Dir!Invoke(c, request), to \in InCall,
              to # "apply" => /\ parsed[c].token = "r" /\ to \in InRename
                              /\ to = "recreate" => idNumber'[c] # 0,
              \A e \in Consumers : e # c => idNumber'[e] = idNumber[e]
       PROVE ConsumerInv'
  <2>1. at' = [at EXCEPT ![c] = "lock"] /\ at[c] = "idle"
    BY <1>10 DEF Dir!Invoke, Dir!Goto
  <2>2. /\ pc' = [pc EXCEPT ![c] = to] /\ pc[c] = from
        /\ UNCHANGED <<commandsLock, data, parsed, status>>
    BY <1>10 DEF Returned
  <2>3. /\ parsed[c].token \in Tokens \ {"x"} /\ to \notin Critical /\ pc[c] \notin Critical
        /\ c \in args.threads /\ to \notin {"none", "read", "done", "extra"} \cup Inserting
    BY <1>0, <1>10, <2>2 DEF Critical, InCall, Tokens, Inserting
  <2>4. ASSUME NEW e \in Consumers, e # c
        PROVE  pc'[e] = pc[e] /\ at'[e] = at[e] /\ idNumber'[e] = idNumber[e]
    BY <1>0, <1>10, <2>1, <2>2, <2>4
  <2>5. pc'[c] = to
    BY <1>0, <2>2
  <2> HIDE DEF Types, Goto
  <2> QED
    BY <1>0, <1>10, <2>2, <2>3, <2>4, <2>5 DEF InRename
<1>11. ASSUME NEW c \in Consumers, LookupNew(c) PROVE ConsumerInv'
  BY <1>10, <1>11 DEF LookupNew, Returned, InCall, InRename, Places
<1>12. ASSUME NEW c \in Consumers, RemoveOld(c) PROVE ConsumerInv'
  BY <1>10, <1>12 DEF RemoveOld, Returned, MayRename, InCall, InRename, Places
<1>13. ASSUME NEW c \in Consumers, CreateNew(c) PROVE ConsumerInv'
  BY <1>10, <1>13 DEF CreateNew, Returned, InCall, InRename, Places
<1>14. ASSUME NEW c \in Consumers, KeepOld(c) \/ Applied(c) PROVE ConsumerInv'
  BY <1>0, <1>14 DEF KeepOld, Applied, Returned, Critical, InCall, InRename, Inserting, Ending, Tokens
<1>15. ASSUME NEW c \in Consumers, ExtraPost(c) PROVE ConsumerInv'
  BY <1>0, <1>15 DEF ExtraPost, Critical, InCall, InRename, Inserting, Ending
<1>16. ASSUME NEW c \in Consumers, InDirectory(c) PROVE ConsumerInv'
  <2>1. at[c] # "idle" /\ \A e \in Consumers : e # c => at'[e] = at[e]
    BY <1>0, <1>16 DEF InDirectory, Dir!Step, Dir!sync_wrlock, Dir!sync_rdlock, Dir!Load, Dir!Store,
                       Dir!Search, Dir!sync_unlock, Dir!Goto
  <2>2. pc[c] \in InCall
    BY <2>1
  <2> QED
    BY <1>0, <1>16, <2>1, <2>2 DEF InDirectory
<1>17. CASE Join \/ Exited \/ UNCHANGED vars
  BY <1>0, <1>17 DEF Join, Exited, vars
<1> QED
  BY <1>1, <1>2, <1>3, <1>4, <1>5, <1>6, <1>7, <1>8, <1>9, <1>11, <1>12, <1>13, <1>14, <1>15, <1>16, <1>17
     DEF Next, ThreadStep, applyCommands

LEMMA StepProducerInv ==
  ASSUME Types, ConsumerInv, ProducerInv, [Next]_vars
  PROVE  ProducerInv'
<1> USE PoolAssumption DEF Types, Goto, dir, ring, sems, mutexes, locals, ProducerInv
<1>0. /\ args' = args /\ Script' = Script /\ Stop' = Stop /\ Consumers \subseteq Threads
      /\ Producer \in Threads /\ args.threads \subseteq Consumers
  BY ArgsFixed, FileFixed DEF Threads
<1>1. CASE ReadLine
  <2>1. lineNumber + 1 \in Nat /\ lineNumber' = lineNumber + 1 /\ lineNumber \in Nat
    BY <1>1 DEF ReadLine
  <2>2. ASSUME NEW j \in Stop, status' = "running" PROVE lineNumber' < j
    <3>1. lineNumber < j /\ j \in Nat /\ Script[j].token # "#" /\ ~Valid(Script[j])
      BY <1>1, <2>2 DEF ReadLine, Stop, Script
    <3>2. Script[lineNumber'].token = "#" \/ Valid(Script[lineNumber'])
      BY <1>1, <2>2 DEF ReadLine
    <3> QED
      BY <2>1, <3>1, <3>2
  <2>3. lineNumber' # End /\ (Valid(Script[lineNumber']) => lineNumber' # End)
    BY <2>1 DEF End
  <2> QED
    BY <1>0, <1>1, <2>2, <2>3 DEF ReadLine, Inserting
<1>2. CASE ReadEnd
  BY <1>0, <1>2 DEF ReadEnd, Inserting
<1>3. ASSUME NEW t \in Threads, insertCommand(t) PROVE ProducerInv'
  BY <1>0, <1>3 DEF insertCommand, WaitLoad, CopyIn, Advance, PostExecute, AfterInsert, Inserting
<1>4. ASSUME NEW c \in Consumers, applyCommands(c) PROVE ProducerInv'
  <2>1. pc'[Producer] = pc[Producer] /\ data'[Producer] = data[Producer] /\ lineNumber' = lineNumber
        /\ status = "running" /\ status' \in {"running", "failed"}
    <3>1. CASE Switch(c)
      BY <1>0, <3>1 DEF Switch, DoCreate, DoLookup, DoDelete, DoRename, DoEnd, DoFail, Start
    <3> QED
      BY <1>0, <1>4, <3>1 DEF applyCommands, LockCommands, WaitExecute, TakeSlot, Parse, FreeSlot,
                        LookupNew, RemoveOld, KeepOld, CreateNew, Applied, ExtraPost, Returned
  <2> QED
    BY <1>0, <2>1
<1>5. ASSUME NEW c \in Consumers, InDirectory(c) PROVE ProducerInv'
  BY <1>0, <1>5 DEF InDirectory
<1>6. CASE Join \/ Exited \/ UNCHANGED vars
  BY <1>0, <1>6 DEF Join, Exited, vars
<1> QED
  BY <1>1, <1>2, <1>3, <1>4, <1>5, <1>6 DEF Next, ThreadStep

-----------------------------------------------------------------------------
(***************************************************************************)
(* What the consumers have read, and what they call.                       *)
(***************************************************************************)
Calling == Types /\ DirInv /\ ConsumerInv /\ ProducerInv /\ ReadInv /\ CallInv

\* A consumer reads commands in Parse only.
LEMMA OnlyParseReads == [Next]_vars => UNCHANGED <<parsed, applied>> \/ \E c \in Consumers : Parse(c)
<1> SUFFICES ASSUME [Next]_vars PROVE UNCHANGED <<parsed, applied>> \/ \E c \in Consumers : Parse(c)
  OBVIOUS
<1> USE DEF locals
<1>1. ASSUME NEW t \in Threads, insertCommand(t) PROVE UNCHANGED <<parsed, applied>>
  BY <1>1 DEF insertCommand, WaitLoad, CopyIn, Advance, PostExecute
<1>2. ASSUME NEW c \in Consumers, applyCommands(c) PROVE UNCHANGED <<parsed, applied>> \/ Parse(c)
  <2>1. CASE Switch(c)
    BY <2>1 DEF Switch, DoCreate, DoLookup, DoDelete, DoRename, DoEnd, DoFail, Start
  <2> QED
    BY <1>2, <2>1 DEF applyCommands, LockCommands, WaitExecute, TakeSlot, FreeSlot,
                      LookupNew, RemoveOld, KeepOld, CreateNew, Applied, ExtraPost, Returned
<1>3. ASSUME NEW c \in Consumers, InDirectory(c) PROVE UNCHANGED <<parsed, applied>>
  BY <1>3 DEF InDirectory
<1> QED
  BY <1>1, <1>2, <1>3 DEF Next, ThreadStep, ReadLine, ReadEnd, Join, Exited, vars

LEMMA StepReadInv ==
  ASSUME Types, ConsumerInv, ReadInv, [Next]_vars
  PROVE  ReadInv'
<1> USE DEF ReadInv, Reads
<1>0. args' = args /\ Script' = Script /\ CommandLines' = CommandLines
  BY ArgsFixed, FileFixed
<1>1. CASE UNCHANGED parsed
  BY <1>0, <1>1
<1>2. ASSUME NEW c \in Consumers, Parse(c) PROVE ReadInv'
  <2> DEFINE s == inputCommands[command[c]]
  <2>1. /\ s \in Texts /\ parsed[c] \in Scans /\ args \in Arguments
        /\ parsed' = [parsed EXCEPT ![c] = sscanf(parsed[c], Text(s))]
    BY <1>2 DEF Types, Parse
  <2>2. ASSUME NEW e \in Consumers, e # c PROVE parsed'[e] = parsed[e]
    BY <2>1, <2>2
  <2>3. parsed'[c] = sscanf(parsed[c], Text(s))
    BY <2>1 DEF Types
  <2> HIDE DEF s
  <2>4. parsed'[c].token \in Tokens => \E i \in CommandLines : Reads(c, Script[i])'
    <3>1. CASE s = Empty
      BY <1>0, <2>1, <2>3, <3>1, Scan
    <3>2. CASE s = End
      BY <2>1, <2>3, <3>2, Scan DEF Tokens
    <3>3. CASE s \in CommandLines
      BY <1>0, <2>1, <2>3, <3>3, Scan
    <3> QED
      BY <2>1, <3>1, <3>2, <3>3 DEF Texts
  <2> QED
    BY <1>0, <2>2, <2>4
<1> QED
  BY <1>1, <1>2, OnlyParseReads

\* The names of a command that was read.
LEMMA ReadNames ==
  ASSUME Types, ReadInv, NEW c \in Consumers, parsed[c].token \in Tokens
  PROVE  parsed[c].name \in Names /\ (parsed[c].token = "r" => parsed[c].newName \in Names)
<1>1. PICK i \in CommandLines : Reads(c, Script[i])
  BY DEF ReadInv
<1> QED
  BY <1>1, CommandLine DEF Types, Reads

LEMMA Requests ==
  ASSUME NEW n \in Names
  PROVE  /\ Dir!Lookup(n) \in Dir!Calls /\ Dir!Delete(n) \in Dir!Calls
         /\ \A i \in Nat \ {0} : Dir!Create(n, i) \in Dir!Calls
BY DEF Dir!Lookup, Dir!Delete, Dir!Create, Dir!Calls, Dir!Absent

\* A step that leaves the directory and the threads inside it alone, and after
\* which no other thread is in a call.
Quiet == /\ UNCHANGED <<dir, idNumber>>
         /\ \A c \in Consumers : at[c] # "idle" \/ pc'[c] \in InCall =>
              pc'[c] = pc[c] /\ parsed'[c] = parsed[c]

\* The calls of a consumer, each with the place where it waits for the answer.
Called(c, request, next) ==
  /\ Dir!Invoke(c, request) /\ pc' = [pc EXCEPT ![c] = next]
  /\ UNCHANGED <<parsed, applied, args, status>>
Calls(c) ==
  \/ /\ pc[c] = "switch" /\ UNCHANGED idNumber
     /\ \/ /\ parsed[c].token = "c" /\ obtainNewInumber
           /\ Called(c, Dir!Create(parsed[c].name, nextINumber'), "apply")
        \/ parsed[c].token = "l" /\ Called(c, Dir!Lookup(parsed[c].name), "apply")
        \/ parsed[c].token = "d" /\ Called(c, Dir!Delete(parsed[c].name), "apply")
        \/ parsed[c].token = "r" /\ Called(c, Dir!Lookup(parsed[c].name), "lookupNew")
  \/ LookupNew(c) /\ Called(c, Dir!Lookup(parsed[c].newName), "decide")
  \/ RemoveOld(c) /\ Called(c, Dir!Delete(parsed[c].name), "recreate")
  \/ CreateNew(c) /\ Called(c, Dir!Create(parsed[c].newName, idNumber[c]), "apply")

\* Every step leaves the directory alone, calls it, or is one of its own.
LEMMA StepKinds ==
  ASSUME Types, DirInv, ConsumerInv, [Next]_vars
  PROVE  Quiet \/ \E c \in Consumers : Calls(c) \/ InDirectory(c)
<1> USE DEF Types, Goto, dir, ring, sems, mutexes, locals
<1>0. Consumers \subseteq Threads /\ Producer \notin Consumers
  BY PoolAssumption DEF Threads
<1>1. ASSUME NEW t \in Threads, NEW from \in Places \ InCall, NEW to \in Places \ InCall, Goto(t, from, to),
             UNCHANGED <<dir, idNumber>>,
             \A c \in Consumers : pc[c] \notin InCall \/ parsed'[c] = parsed[c]
      PROVE  Quiet
  BY <1>0, <1>1 DEF Quiet, ConsumerInv
<1>2. CASE ReadLine \/ ReadEnd
  <2>1. \E to \in Places \ InCall : Goto(Producer, "read", to)
    BY <1>2 DEF ReadLine, ReadEnd, Places, Inserting, InCall
  <2> QED
    BY <1>1, <1>2, <2>1 DEF ReadLine, ReadEnd, Places, InCall, Threads
<1>3. ASSUME NEW t \in Threads, insertCommand(t) PROVE Quiet
  <2>1. \E from \in Inserting : \E to \in Places \ InCall : Goto(t, from, to)
    BY <1>3 DEF insertCommand, WaitLoad, CopyIn, Advance, PostExecute, AfterInsert, Inserting, Places, InCall
  <2>2. UNCHANGED <<dir, parsed, idNumber>>
    BY <1>3 DEF insertCommand, WaitLoad, CopyIn, Advance, PostExecute
  <2> QED
    BY <1>1, <2>1, <2>2 DEF Inserting, Places, InCall
<1>4. ASSUME NEW c \in Consumers,
             \/ LockCommands(c) \/ WaitExecute(c) \/ TakeSlot(c) \/ FreeSlot(c)
             \/ DoEnd(c) \/ DoFail(c) \/ ExtraPost(c)
      PROVE  Quiet
  <2>1. \E from \in InLoop \cup {"extra"} : \E to \in Places \ InCall : Goto(c, from, to)
    BY <1>4 DEF LockCommands, WaitExecute, TakeSlot, FreeSlot, DoEnd, DoFail, ExtraPost, InLoop, Inserting,
                Places, InCall
  <2>2. UNCHANGED <<dir, parsed, idNumber>>
    BY <1>4 DEF LockCommands, WaitExecute, TakeSlot, FreeSlot, DoEnd, DoFail, ExtraPost
  <2> QED
    BY <1>0, <1>1, <2>1, <2>2 DEF InLoop, Places, InCall
<1>5. ASSUME NEW c \in Consumers, Parse(c) PROVE Quiet
  <2>1. \A e \in Consumers : pc[e] \notin InCall \/ parsed'[e] = parsed[e]
    BY <1>5 DEF Parse, InCall
  <2>2. Goto(c, "sscanf", "free") /\ UNCHANGED <<dir, idNumber>>
    BY <1>5 DEF Parse
  <2> QED
    BY <1>0, <1>1, <2>1, <2>2 DEF InLoop, Places, InCall
<1>6. ASSUME NEW c \in Consumers, KeepOld(c) \/ Applied(c) PROVE Quiet
  BY <1>0, <1>6 DEF KeepOld, Applied, Returned, Quiet, InCall
<1>7. ASSUME NEW c \in Consumers, DoCreate(c) \/ DoLookup(c) \/ DoDelete(c) \/ DoRename(c) PROVE Calls(c)
  BY <1>7 DEF DoCreate, DoLookup, DoDelete, DoRename, Start, Calls, Called
<1>8. ASSUME NEW c \in Consumers, LookupNew(c) \/ RemoveOld(c) \/ CreateNew(c) PROVE Calls(c)
  BY <1>8 DEF LookupNew, RemoveOld, CreateNew, Returned, Calls, Called
<1>9. CASE Join \/ Exited \/ UNCHANGED vars
  BY <1>9 DEF Join, Exited, vars, Quiet
<1> QED
  BY <1>2, <1>3, <1>4, <1>5, <1>6, <1>7, <1>8, <1>9 DEF Next, ThreadStep, applyCommands, Switch

\* A call of the pool is one that the directory admits.
LEMMA CallsAreCalls ==
  ASSUME Types, ConsumerInv, ReadInv, NEW c \in Consumers, Calls(c)
  PROVE  \E request \in Dir!Calls : Dir!Invoke(c, request)
<1>1. nextINumber + 1 \in Nat \ {0} /\ (CreateNew(c) => idNumber[c] \in Nat \ {0})
  BY DEF Types, CreateNew, Returned, Goto, ConsumerInv
<1>2. parsed[c].token \in {"c", "l", "d", "r"} => parsed[c].name \in Names
  BY ReadNames DEF Tokens
<1>3. LookupNew(c) \/ RemoveOld(c) \/ CreateNew(c) => parsed[c].token = "r"
  BY DEF LookupNew, RemoveOld, CreateNew, Returned, Goto, ConsumerInv, InRename
<1>4. parsed[c].token = "r" => parsed[c].newName \in Names
  BY ReadNames DEF Tokens
<1> QED
  BY <1>1, <1>2, <1>3, <1>4, Requests DEF Calls, Called, obtainNewInumber

LEMMA StepDirInv ==
  ASSUME Types, DirInv, ConsumerInv, ReadInv, [Next]_vars
  PROVE  DirInv'
<1>1. CASE Quiet
  BY <1>1, DirStutter DEF Quiet, DirInv
<1>2. ASSUME NEW c \in Consumers, Calls(c) PROVE DirInv'
  BY <1>2, CallsAreCalls, DirInvokeIInv DEF DirInv
<1>3. ASSUME NEW c \in Consumers, InDirectory(c) PROVE DirInv'
  BY <1>3, DirStepIInv DEF InDirectory, DirInv
<1> QED
  BY <1>1, <1>2, <1>3, StepKinds

\* What a step of the directory does to the thread that takes it.
LEMMA InDirectoryMoves ==
  ASSUME Types, DirInv, NEW c \in Consumers, InDirectory(c)
  PROVE  /\ UNCHANGED <<pc, parsed, idNumber, applied, args, status, nextINumber>>
         /\ at[c] # "idle" /\ at'[c] # "lock"
         /\ at'[c] # "idle" => call' = call
         /\ \A e \in Consumers : e # c => at'[e] = at[e] /\ call'[e] = call[e] /\ ret'[e] = ret[e]
<1> USE DEF InDirectory, Dir!Step, Dir!Goto, locals
<1>0. /\ at \in [Consumers -> {"idle", "lock", "load", "store", "search", "unlock"}]
      /\ call \in [Consumers -> Dir!Calls \cup {Dir!NoCall}] /\ ret \in [Consumers -> Nat]
  BY DEF DirInv, Dir!IInv, Dir!TypeOK
<1>1. CASE Dir!sync_unlock(c)
  BY <1>0, <1>1 DEF Dir!sync_unlock
<1>2. CASE Dir!Search(c)
  BY <1>0, <1>2 DEF Dir!Search
<1>3. CASE Dir!sync_wrlock(c) \/ Dir!sync_rdlock(c) \/ Dir!Load(c) \/ Dir!Store(c)
  BY <1>0, <1>3 DEF Dir!sync_wrlock, Dir!sync_rdlock, Dir!Load, Dir!Store
<1> QED
  BY <1>1, <1>2, <1>3

\* What a call does to the thread that makes it.
LEMMA CalledMoves ==
  ASSUME Types, DirInv, NEW c \in Consumers, NEW request, NEW next, Called(c, request, next)
  PROVE  /\ at[c] = "idle" /\ at'[c] = "lock" /\ call'[c] = request /\ pc'[c] = next
         /\ UNCHANGED <<bstRoot, ret, parsed, applied, args, status>>
         /\ \A e \in Consumers : e # c => at'[e] = at[e] /\ call'[e] = call[e] /\ pc'[e] = pc[e]
<1>1. /\ at \in [Consumers -> {"idle", "lock", "load", "store", "search", "unlock"}]
      /\ call \in [Consumers -> Dir!Calls \cup {Dir!NoCall}]
      /\ pc \in [Threads -> Places] /\ Consumers \subseteq Threads
  BY DEF DirInv, Dir!IInv, Dir!TypeOK, Types, Threads
<1> QED
  BY <1>1 DEF Called, Dir!Invoke, Dir!Goto

LEMMA StepCallInv ==
  ASSUME Types, DirInv, ConsumerInv, CallInv, [Next]_vars
  PROVE  CallInv'
<1>1. CASE Quiet
  BY <1>1 DEF Quiet, dir, CallInv, Dir!Lookup
<1>2. ASSUME NEW c \in Consumers, Calls(c) PROVE CallInv'
  <2> USE DEF Dir!Lookup, Dir!Delete, Dir!Create
  <2>1. ASSUME NEW request, NEW next, Called(c, request, next),
               next = "lookupNew" => request = Dir!Lookup(parsed[c].name),
               request.op = "create" => next = "apply",
               \/ request.op = "lookup" /\ parsed[c].token # "c"
               \/ /\ request.op = "create"
                  /\ \/ parsed[c].token = "c" /\ request.name = parsed[c].name
                     \/ parsed[c].token = "r" /\ request.name = parsed[c].newName
               \/ /\ request.op = "delete" /\ request.name = parsed[c].name
                  /\ parsed[c].token \in {"d", "r"}
        PROVE  CallInv'
    BY <2>1, CalledMoves DEF CallInv
  <2>2. LookupNew(c) \/ RemoveOld(c) \/ CreateNew(c) => parsed[c].token = "r"
    BY DEF LookupNew, RemoveOld, CreateNew, Returned, Goto, ConsumerInv, InRename
  <2> QED
    BY <1>2, <2>1, <2>2 DEF Calls
<1>3. ASSUME NEW c \in Consumers, InDirectory(c) PROVE CallInv'
  BY <1>3, InDirectoryMoves DEF CallInv, Dir!Lookup
<1> QED
  BY <1>1, <1>2, <1>3, StepKinds

LEMMA InitCalling == Init => Calling
<1> SUFFICES ASSUME Init PROVE Calling
  OBVIOUS
<1>1. Types /\ ConsumerInv /\ ProducerInv
  BY InitTypes, InitConsumerInv
<1>2. DirInv
  BY DirInitIInv DEF Init, DirInv
<1>3. ReadInv /\ CallInv
  BY PoolAssumption DEF Init, ReadInv, CallInv, Tokens, Dir!Init
<1> QED
  BY <1>1, <1>2, <1>3 DEF Calling

LEMMA StepCalling == Calling /\ [Next]_vars => Calling'
BY StepTypes, StepDirInv, StepConsumerInv, StepProducerInv, StepReadInv, StepCallInv DEF Calling

\* The consumers use the directory as module Directory has it (applyCommands
\* calls nothing of fs.c but create, delete and lookup): each makes one call at
\* a time, with a name and an i-number that fs.c can be given, whatever the
\* file says.  So what is proved of Directory is true of it inside the pool.
THEOREM PoolUsesDirectory == Spec => Dir!Spec
<1>1. Init => Dir!Init
  BY DEF Init
<1>2. Calling /\ [Next]_vars => [Dir!Next]_(Dir!dirVars)
  <2> SUFFICES ASSUME Calling, [Next]_vars PROVE Dir!Next \/ UNCHANGED Dir!dirVars
    OBVIOUS
  <2>1. CASE Quiet
    BY <2>1 DEF Quiet, dir, Dir!dirVars
  <2>2. ASSUME NEW c \in Consumers, Calls(c) PROVE Dir!Next
    BY <2>2, CallsAreCalls DEF Dir!Next, Calling
  <2>3. ASSUME NEW c \in Consumers, InDirectory(c) PROVE Dir!Next
    BY <2>3 DEF InDirectory, Dir!Next
  <2> QED
    BY <2>1, <2>2, <2>3, StepKinds DEF Calling
<1> QED
  BY <1>1, <1>2, InitCalling, StepCalling, PTL DEF Spec, Dir!Spec

-----------------------------------------------------------------------------
(***************************************************************************)
(* The units of the semaphores.                                            *)
(***************************************************************************)
CarryPlaces == {"strcpy", "advance", "post", "take", "sscanf", "free"}

LEMMA FiniteThreads == IsFiniteSet(Threads)
<1>1. IsFiniteSet(Consumers)
  BY PoolAssumption
<1>2. IsFiniteSet({Producer})
  BY FS_Singleton
<1> QED
  BY <1>1, <1>2, FS_Union DEF Threads

LEMMA CountsAreNat ==
  /\ IsFiniteSet(Carrying) /\ Cardinality(Carrying) \in Nat
  /\ IsFiniteSet(Ended) /\ Cardinality(Ended) \in Nat /\ Cardinality(Ended) <= Cardinality(Consumers)
  /\ Cardinality(Consumers) \in Nat
<1>1. Carrying \in SUBSET Threads /\ Ended \in SUBSET Consumers
  BY DEF Carrying, Ended
<1>2. IsFiniteSet(Threads) /\ IsFiniteSet(Consumers)
  BY FiniteThreads, PoolAssumption
<1> QED
  BY <1>1, <1>2, FS_Subset, FS_CardinalityType

\* A thread that takes a unit into its hands, and one that gives it away.
LEMMA TakesUnit ==
  ASSUME Types, NEW t \in Threads, NEW from, NEW to, Goto(t, from, to), from \notin CarryPlaces, to \in CarryPlaces
  PROVE  Cardinality(Carrying') = Cardinality(Carrying) + 1
<1>1. t \notin Carrying /\ Carrying' = Carrying \cup {t}
  BY DEF Types, Goto, Carrying, CarryPlaces
<1> QED
  BY <1>1, CountsAreNat, FS_AddElement

LEMMA GivesUnit ==
  ASSUME Types, NEW t \in Threads, NEW from, NEW to, Goto(t, from, to), from \in CarryPlaces, to \notin CarryPlaces
  PROVE  Cardinality(Carrying') = Cardinality(Carrying) - 1
<1>1. t \in Carrying /\ Carrying' = Carrying \ {t}
  BY DEF Types, Goto, Carrying, CarryPlaces
<1> QED
  BY <1>1, CountsAreNat, FS_RemoveElement

LEMMA KeepsUnits ==
  ASSUME Types, NEW t \in Threads, NEW from, NEW to, Goto(t, from, to), from \in CarryPlaces <=> to \in CarryPlaces
  PROVE  Carrying' = Carrying
BY DEF Types, Goto, Carrying, CarryPlaces

LEMMA KeepsEnded ==
  ASSUME Types, NEW t \in Threads, NEW from, NEW to, Goto(t, from, to), from # "done"
  PROVE  /\ Cardinality(Ended') \in Nat /\ Cardinality(Ended') >= Cardinality(Ended)
         /\ t \in Consumers /\ to = "done" => Cardinality(Ended') = Cardinality(Ended) + 1
<1>1. CASE t \in Consumers /\ to = "done"
  <2>1. t \notin Ended /\ Ended' = Ended \cup {t}
    BY <1>1 DEF Types, Goto, Ended, Threads
  <2>2. Cardinality(Ended') = Cardinality(Ended) + 1
    BY <2>1, CountsAreNat, FS_AddElement
  <2> QED
    BY <1>1, <2>2, CountsAreNat
<1>2. CASE ~(t \in Consumers /\ to = "done")
  <2>1. Ended' = Ended
    BY <1>2 DEF Types, Goto, Ended, Threads
  <2> QED
    BY <1>2, <2>1, CountsAreNat
<1> QED
  BY <1>1, <1>2

LEMMA StepUnitsInv ==
  ASSUME Types, UnitsInv, [Next]_vars
  PROVE  UnitsInv'
<1> USE CountsAreNat DEF UnitsInv, sems
<1>0. /\ loadInputCommand \in Nat /\ executeCommand \in Nat /\ MAX_COMMANDS \in Nat
      /\ Consumers \subseteq Threads /\ Producer \in Threads
  BY PoolAssumption DEF Types, Threads
<1>1. ASSUME NEW t \in Threads, NEW from, NEW to, Goto(t, from, to), from # "done",
             from \in CarryPlaces <=> to \in CarryPlaces, UNCHANGED sems
      PROVE  UnitsInv'
  BY <1>0, <1>1, KeepsUnits, KeepsEnded
<1>2. CASE ReadLine \/ ReadEnd
  BY <1>0, <1>1, <1>2 DEF ReadLine, ReadEnd, CarryPlaces
<1>3. ASSUME NEW t \in Threads, WaitLoad(t) PROVE UnitsInv'
  <2>1. Goto(t, "semwait", "strcpy") /\ loadInputCommand' = loadInputCommand - 1
        /\ executeCommand' = executeCommand
    BY <1>3 DEF WaitLoad
  <2> QED
    BY <1>0, <2>1, TakesUnit, KeepsEnded DEF CarryPlaces
<1>4. ASSUME NEW t \in Threads, CopyIn(t) \/ Advance(t) PROVE UnitsInv'
  BY <1>1, <1>4 DEF CopyIn, Advance, CarryPlaces
<1>5. ASSUME NEW t \in Threads, PostExecute(t) PROVE UnitsInv'
  <2>1. Goto(t, "post", AfterInsert(t)) /\ executeCommand' = executeCommand + 1
        /\ loadInputCommand' = loadInputCommand /\ AfterInsert(t) \notin CarryPlaces
    BY <1>5 DEF PostExecute, AfterInsert, CarryPlaces
  <2> QED
    BY <1>0, <2>1, GivesUnit, KeepsEnded DEF CarryPlaces
<1>6. ASSUME NEW c \in Consumers, WaitExecute(c) PROVE UnitsInv'
  <2>1. Goto(c, "wait", "take") /\ executeCommand' = executeCommand - 1
        /\ loadInputCommand' = loadInputCommand
    BY <1>6 DEF WaitExecute
  <2> QED
    BY <1>0, <2>1, TakesUnit, KeepsEnded DEF CarryPlaces
<1>7. ASSUME NEW c \in Consumers, LockCommands(c) \/ TakeSlot(c) \/ Parse(c) PROVE UnitsInv'
  BY <1>0, <1>1, <1>7 DEF LockCommands, TakeSlot, Parse, CarryPlaces
<1>8. ASSUME NEW c \in Consumers, FreeSlot(c) PROVE UnitsInv'
  <2>1. Goto(c, "free", "switch") /\ loadInputCommand' = loadInputCommand + 1
        /\ executeCommand' = executeCommand
    BY <1>8 DEF FreeSlot
  <2> QED
    BY <1>0, <2>1, GivesUnit, KeepsEnded DEF CarryPlaces
<1>9. ASSUME NEW c \in Consumers, Switch(c) PROVE UnitsInv'
  BY <1>0, <1>1, <1>9 DEF Switch, DoCreate, DoLookup, DoDelete, DoRename, DoEnd, DoFail, Start, CarryPlaces
<1>10. ASSUME NEW c \in Consumers, LookupNew(c) \/ RemoveOld(c) \/ KeepOld(c) \/ CreateNew(c) \/ Applied(c)
       PROVE UnitsInv'
  BY <1>0, <1>1, <1>10 DEF LookupNew, RemoveOld, KeepOld, CreateNew, Applied, Returned, CarryPlaces
<1>11. ASSUME NEW c \in Consumers, ExtraPost(c) PROVE UnitsInv'
  <2>1. Goto(c, "extra", "done") /\ executeCommand' = executeCommand + 1
        /\ loadInputCommand' = loadInputCommand
    BY <1>11 DEF ExtraPost
  <2> QED
    BY <1>0, <2>1, KeepsUnits, KeepsEnded DEF CarryPlaces
<1>12. ASSUME NEW c \in Consumers, InDirectory(c) PROVE UnitsInv'
  BY <1>12 DEF InDirectory, Carrying, Ended
<1>13. CASE Join \/ Exited \/ UNCHANGED vars
  BY <1>13 DEF Join, Exited, vars, Carrying, Ended
<1> QED
  BY <1>2, <1>3, <1>4, <1>5, <1>6, <1>7, <1>8, <1>9, <1>10, <1>11, <1>12, <1>13
     DEF Next, ThreadStep, insertCommand, applyCommands

LEMMA InitUnitsInv == Init => UnitsInv
<1> SUFFICES ASSUME Init PROVE UnitsInv
  OBVIOUS
<1>1. Carrying = {} /\ Cardinality({}) = 0
  BY FS_EmptySet DEF Init, Carrying
<1> QED
  BY <1>1, CountsAreNat, PoolAssumption DEF Init, UnitsInv

\* Every variable of the pool keeps its type, and the semaphores their bounds:
\* no more than MAX_COMMANDS units and one for every consumer that has ended.
THEOREM PoolTypes == Spec => []TypeOK
<1>1. Init => Calling /\ UnitsInv
  BY InitCalling, InitUnitsInv
<1>2. Calling /\ UnitsInv /\ [Next]_vars => Calling' /\ UnitsInv'
  BY StepCalling, StepUnitsInv DEF Calling
<1>3. Calling /\ UnitsInv => TypeOK
  <2> SUFFICES ASSUME Types, DirInv, UnitsInv PROVE TypeOK
    BY DEF Calling
  <2>1. loadInputCommand \in 0 .. MAX_COMMANDS + Cardinality(Consumers)
        /\ executeCommand \in 0 .. MAX_COMMANDS + Cardinality(Consumers)
    BY CountsAreNat, PoolAssumption DEF Types, UnitsInv
  <2> QED
    BY <2>1 DEF Types, TypeOK, Places, DirInv, Dir!IInv
<1> QED
  BY <1>1, <1>2, <1>3, PTL DEF Spec

-----------------------------------------------------------------------------

(***************************************************************************)
(* The commands of the file, counted.                                      *)
(***************************************************************************)
LEMMA FileLength == ASSUME args \in Arguments PROVE Len(Script) \in Nat /\ DOMAIN Script = 1 .. Len(Script)
BY PoolAssumption DEF Script

LEMMA FiniteCommands ==
  ASSUME args \in Arguments
  PROVE  /\ CommandLines \subseteq 1 .. Len(Script)
         /\ IsFiniteSet(CommandLines) /\ Count \in Nat
         /\ \A S \in SUBSET CommandLines : /\ IsFiniteSet(S) /\ Cardinality(S) \in Nat
                                           /\ Cardinality(S) <= Count
<1>1. CommandLines \subseteq 1 .. Len(Script) /\ Len(Script) \in Nat
  BY FileLength DEF CommandLines
<1>2. IsFiniteSet(CommandLines)
  <2>1. IsFiniteSet(1 .. Len(Script))
    BY <1>1, FS_Interval
  <2> QED
    BY <1>1, <2>1, FS_Subset
<1>3. Count \in Nat
  BY <1>2, FS_CardinalityType DEF Count
<1>4. ASSUME NEW S \in SUBSET CommandLines
      PROVE  IsFiniteSet(S) /\ Cardinality(S) \in Nat /\ Cardinality(S) <= Count
  <2>1. IsFiniteSet(S) /\ Cardinality(S) <= Cardinality(CommandLines)
    BY <1>2, FS_Subset
  <2> QED
    BY <2>1, FS_CardinalityType DEF Count
<1> QED
  BY <1>1, <1>2, <1>3, <1>4

LEMMA PlaceRange ==
  ASSUME args \in Arguments, NEW i
  PROVE  Place(i) \in Nat /\ Place(i) <= Count
<1> DEFINE S == {j \in CommandLines : j <= i}
<1>1. S \in SUBSET CommandLines
  OBVIOUS
<1>2. Cardinality(S) \in Nat /\ Cardinality(S) <= Count
  BY <1>1, FiniteCommands
<1> QED
  BY <1>2 DEF Place

\* The place of a command is one more than the place of the line before it.
LEMMA PlaceStep ==
  ASSUME args \in Arguments, NEW i \in Nat
  PROVE  Place(i + 1) = IF i + 1 \in CommandLines THEN Place(i) + 1 ELSE Place(i)
<1> DEFINE S == {j \in CommandLines : j <= i}
           T == {j \in CommandLines : j <= i + 1}
<1>1. CommandLines \subseteq Nat
  BY FiniteCommands, FileLength
<1>2. IsFiniteSet(S) /\ S \in SUBSET CommandLines
  BY FiniteCommands
<1>0. \A j \in CommandLines : j <= i + 1 <=> j <= i \/ j = i + 1
  BY <1>1
<1>3. CASE i + 1 \in CommandLines
  <2>1. T = S \cup {i + 1} /\ i + 1 \notin S
    BY <1>0, <1>3
  <2>2. Cardinality(T) = Cardinality(S) + 1
    BY <1>2, <2>1, FS_AddElement
  <2> QED
    BY <1>3, <2>2 DEF Place
<1>4. CASE i + 1 \notin CommandLines
  <2>1. T = S
    BY <1>0, <1>4
  <2> QED
    BY <1>4, <2>1 DEF Place
<1> QED
  BY <1>3, <1>4

LEMMA PlaceEnds ==
  ASSUME args \in Arguments
  PROVE  Place(0) = 0 /\ Place(Len(Script)) = Count
<1>1. CommandLines \subseteq 1 .. Len(Script) /\ Len(Script) \in Nat
  BY FiniteCommands, FileLength
<1>0. \A j \in CommandLines : ~(j <= 0) /\ j <= Len(Script)
  BY <1>1
<1>2. {j \in CommandLines : j <= 0} = {} /\ {j \in CommandLines : j <= Len(Script)} = CommandLines
  BY <1>0
<1> QED
  BY <1>2, FS_EmptySet DEF Place, Count

\* A later command has a later place, and two commands have two places.
LEMMA PlaceGrows ==
  ASSUME args \in Arguments, NEW i \in CommandLines, NEW j \in CommandLines, i < j
  PROVE  Place(i) < Place(j)
<1> DEFINE S == {k \in CommandLines : k <= i}
           T == {k \in CommandLines : k <= j}
<1>1. CommandLines \subseteq Nat
  BY FiniteCommands, FileLength
<1>0. ~(j <= i) /\ j <= j /\ \A k \in CommandLines : k <= i => k <= j
  BY <1>1
<1>2. S \in SUBSET T /\ j \in T /\ j \notin S /\ T \in SUBSET CommandLines
  BY <1>0
<1>3. IsFiniteSet(T) /\ Cardinality(T) \in Nat
  BY <1>2, FiniteCommands
<1>4. Cardinality(S) <= Cardinality(T) /\ Cardinality(S) # Cardinality(T)
  BY <1>2, <1>3, FS_Subset
<1>5. Cardinality(S) \in Nat
  BY FiniteCommands
<1> QED
  BY <1>3, <1>4, <1>5 DEF Place

LEMMA PlaceOne ==
  ASSUME args \in Arguments, NEW i \in CommandLines
  PROVE  Place(i) \in 1 .. Count
<1> DEFINE S == {k \in CommandLines : k <= i}
<1>1. i \in S /\ S \in SUBSET CommandLines
  BY FiniteCommands, FileLength
<1>2. IsFiniteSet(S) /\ Cardinality(S) \in Nat /\ Cardinality(S) <= Count /\ Cardinality(S) # 0
  BY <1>1, FiniteCommands, FS_EmptySet
<1> QED
  BY <1>2, FiniteCommands DEF Place

LEMMA PlaceInjective ==
  ASSUME args \in Arguments, NEW i \in CommandLines, NEW j \in CommandLines, Place(i) = Place(j)
  PROVE  i = j
<1>1. i \in Nat /\ j \in Nat /\ Place(i) \in Nat /\ Place(j) \in Nat
  BY FiniteCommands, FileLength, PlaceRange
<1>2. ~(i < j) /\ ~(j < i)
  BY <1>1, PlaceGrows
<1> QED
  BY <1>1, <1>2

\* Commands lists the command lines by their places.
LEMMA EveryPlace ==
  ASSUME args \in Arguments, NEW k \in 1 .. Count
  PROVE  \E i \in CommandLines : Place(i) = k
<1> DEFINE f == [i \in CommandLines |-> Place(i)]
<1>1. f \in Injection(CommandLines, 1 .. Count)
  BY PlaceOne, PlaceInjective DEF Injection, IsInjective
<1>2. IsFiniteSet(1 .. Count) /\ Cardinality(1 .. Count) = Count
  BY FiniteCommands, FS_Interval
<1>3. f \in Surjection(CommandLines, 1 .. Count)
  BY <1>1, <1>2, FS_Injection DEF Count
<1> QED
  BY <1>3 DEF Surjection

LEMMA CommandsAre ==
  ASSUME args \in Arguments
  PROVE  Commands = [k \in 1 .. Count |-> CHOOSE i \in CommandLines : Place(i) = k]
BY DEF Commands, Count, Place

LEMMA CommandAt ==
  ASSUME args \in Arguments, NEW k \in 1 .. Count
  PROVE  Commands[k] \in CommandLines /\ Place(Commands[k]) = k
<1>1. Commands[k] = CHOOSE i \in CommandLines : Place(i) = k
  BY CommandsAre
<1> QED
  BY <1>1, EveryPlace

LEMMA CommandOfPlace ==
  ASSUME args \in Arguments, NEW i \in CommandLines
  PROVE  Commands[Place(i)] = i
<1>1. Place(i) \in 1 .. Count
  BY PlaceOne
<1> QED
  BY <1>1, CommandAt, PlaceInjective

\* Two places of the ring that are less than its size apart are two slots.
LEMMA TwoSlots ==
  ASSUME NEW M \in Nat \ {0}, NEW a \in Nat, NEW b \in Nat, a < b, b - a < M
  PROVE  a % M # b % M
<1>1. /\ a = M * (a \div M) + (a % M) /\ b = M * (b \div M) + (b % M)
      /\ a \div M \in Int /\ b \div M \in Int /\ a % M \in 0 .. M - 1 /\ b % M \in 0 .. M - 1
  OBVIOUS
<1> SUFFICES ASSUME a % M = b % M PROVE FALSE
  OBVIOUS
<1> DEFINE q == b \div M - a \div M
<1>2. q \in Int /\ M * q = M * (b \div M) - M * (a \div M)
  BY <1>1
<1>3. b - a = M * q
  BY <1>1, <1>2
<1> HIDE DEF q
<1>4. q >= 1 => M * q >= M
  BY <1>2
<1>5. q <= 0 => M * q <= 0
  BY <1>2
<1> QED
  BY <1>2, <1>3, <1>4, <1>5

LEMMA NextSlotOf ==
  ASSUME NEW M \in Nat \ {0}, NEW a \in Nat
  PROVE  ((a % M) + 1) % M = (a + 1) % M
<1> DEFINE q == a \div M
           r == a % M
<1>1. a = M * q + r /\ q \in Int /\ r \in 0 .. M - 1
  OBVIOUS
<1>2. ASSUME NEW x \in Int, NEW y \in 0 .. M - 1 PROVE (M * x + y) % M = y
  OBVIOUS
<1>3. (M * (q + 1)) = M * q + M
  BY <1>1
<1> HIDE DEF q, r
<1>4. CASE r + 1 < M
  <2>1. a + 1 = M * q + (r + 1) /\ r + 1 \in 0 .. M - 1
    BY <1>1, <1>4
  <2>2. (a + 1) % M = r + 1 /\ (r + 1) % M = r + 1
    BY <1>1, <1>2, <2>1
  <2> QED
    BY <2>2 DEF r
<1>5. CASE r + 1 = M
  <2>1. a + 1 = M * (q + 1) + 0
    BY <1>1, <1>3, <1>5
  <2>2. (a + 1) % M = 0 /\ (r + 1) % M = 0
    BY <1>1, <1>2, <1>5, <2>1
  <2> QED
    BY <2>2 DEF r
<1> QED
  BY <1>1, <1>4, <1>5

-----------------------------------------------------------------------------
(***************************************************************************)
(* The producer and the one consumer that holds commandsLock.              *)
(***************************************************************************)
Holding == {"take", "sscanf", "free"}

\* A thread that moves outside these places changes nothing that is counted.
LEMMA ConsumingKept ==
  ASSUME \A c \in Consumers : pc'[c] = pc[c] \/ (pc[c] \notin Holding /\ pc'[c] \notin Holding)
  PROVE  /\ Consuming({"free"})' = Consuming({"free"})
         /\ Consuming({"take", "sscanf"})' = Consuming({"take", "sscanf"})
         /\ Consuming({"sscanf"})' = Consuming({"sscanf"})
BY DEF Consuming, Holding

LEMMA GotoKeeps ==
  ASSUME Types, NEW t \in Threads, NEW from, NEW to, Goto(t, from, to), from \notin Holding, to \notin Holding
  PROVE  \A c \in Consumers : pc'[c] = pc[c] \/ (pc[c] \notin Holding /\ pc'[c] \notin Holding)
<1>1. pc \in [Threads -> Places] /\ pc[t] = from /\ pc' = [pc EXCEPT ![t] = to]
  BY DEF Types, Goto
<1>2. ASSUME NEW c \in Consumers, c # t PROVE pc'[c] = pc[c]
  BY <1>1, <1>2 DEF Threads
<1>3. pc'[t] = to
  BY <1>1
<1> QED
  BY <1>1, <1>2, <1>3

\* The consumer that holds commandsLock is the only one that is counted.
LEMMA ConsumingMoves ==
  ASSUME Types, ConsumerInv, NEW c \in Consumers, NEW from \in Critical, NEW to, Goto(c, from, to)
  PROVE  /\ Consuming({"free"}) = IF from = "free" THEN 1 ELSE 0
         /\ Consuming({"free"})' = IF to = "free" THEN 1 ELSE 0
         /\ Consuming({"take", "sscanf"}) = IF from \in {"take", "sscanf"} THEN 1 ELSE 0
         /\ Consuming({"take", "sscanf"})' = IF to \in {"take", "sscanf"} THEN 1 ELSE 0
         /\ Consuming({"sscanf"}) = IF from = "sscanf" THEN 1 ELSE 0
         /\ Consuming({"sscanf"})' = IF to = "sscanf" THEN 1 ELSE 0
         /\ \A e \in Consumers : e # c => pc'[e] = pc[e] /\ pc'[e] \notin Critical
<1>1. pc \in [Threads -> Places] /\ c \in Threads /\ pc[c] = from /\ pc'[c] = to
  BY DEF Types, Goto, Threads
<1>2. ASSUME NEW e \in Consumers, e # c PROVE pc'[e] = pc[e] /\ pc[e] \notin Critical
  <2>1. commandsLock = c /\ e \in Threads
    BY <1>1 DEF ConsumerInv, Threads
  <2> QED
    BY <1>1, <1>2, <2>1 DEF ConsumerInv, Goto
<1> QED
  BY <1>1, <1>2 DEF Consuming, Critical

LEMMA BegunKept ==
  ASSUME args' = args, lineNumber' = lineNumber, data'[Producer] = data[Producer]
  PROVE  Begun' = Begun
BY FileFixed DEF Begun, Place

LEMMA Numbers ==
  ASSUME Types
  PROVE  /\ Begun \in Nat /\ Begun <= Count + 1 /\ Taken \in Nat /\ Count \in Nat
         /\ data[Producer] # End => Begun = Place(lineNumber)
         /\ data[Producer] = End => Begun = Place(lineNumber) + 1
         /\ Place(lineNumber) \in Nat /\ Place(lineNumber) <= Count
         /\ applied \in Seq(Texts) /\ MAX_COMMANDS \in Nat \ {0}
         /\ Consuming({"free"}) \in {0, 1} /\ Consuming({"take", "sscanf"}) \in {0, 1}
         /\ Consuming({"sscanf"}) \in {0, 1}
         /\ loadInputCommand \in Nat /\ executeCommand \in Nat
         /\ Producer \in Threads /\ Consumers \subseteq Threads /\ Producer \notin Consumers
<1>1. args \in Arguments /\ applied \in Seq(Texts)
  BY DEF Types
<1>2. Place(lineNumber) \in Nat /\ Place(lineNumber) <= Count /\ Count \in Nat
  BY <1>1, PlaceRange, FiniteCommands
<1>3. Taken \in Nat
  BY <1>1 DEF Taken
<1>4. /\ Consuming({"free"}) \in {0, 1} /\ Consuming({"take", "sscanf"}) \in {0, 1}
      /\ Consuming({"sscanf"}) \in {0, 1}
  BY DEF Consuming
<1> QED
  BY <1>1, <1>2, <1>3, <1>4, PoolAssumption DEF Begun, Types, Threads

\* The file does not change, and what was read is not unread.
LEMMA FileKept ==
  ASSUME Types, [Next]_vars
  PROVE  /\ args' = args /\ Script' = Script /\ CommandLines' = CommandLines /\ Count' = Count
         /\ Commands' = Commands /\ \A k : Item(k)' = Item(k)
         /\ Taken' \in Nat /\ Taken <= Taken' /\ Taken' <= Taken + 1
<1>1. args' = args
  BY ArgsFixed
<1>2. Taken' = Taken \/ Taken' = Taken + 1
  <2>1. ASSUME NEW c \in Consumers, Parse(c) PROVE Taken' = Taken + 1
    BY <2>1 DEF Types, Parse, Taken
  <2> QED
    BY <2>1, OnlyParseReads DEF Taken
<1>3. Taken \in Nat
  BY Numbers
<1> QED
  BY <1>1, <1>2, <1>3, FileFixed DEF Item

\* A step that leaves the ring and those at it alone.
LEMMA CalmQueue ==
  ASSUME Types, [Next]_vars, Queue,
         UNCHANGED <<lineNumber, ring, sems, applied, command, parsed>>,
         pc'[Producer] = pc[Producer], data'[Producer] = data[Producer],
         \A c \in Consumers : pc'[c] = pc[c] \/ (pc[c] \notin Holding /\ pc'[c] \notin Holding)
  PROVE  Queue'
<1>1. Begun' = Begun /\ Taken' = Taken
  BY BegunKept, ArgsFixed DEF Taken
<1>2. \A k : Item(k)' = Item(k)
  BY FileKept
<1>3. /\ Producing({"semwait"})' = Producing({"semwait"}) /\ Producing(Inserting)' = Producing(Inserting)
      /\ Producing(Inserting \ {"post"})' = Producing(Inserting \ {"post"})
      /\ Producing({"semwait", "strcpy"})' = Producing({"semwait", "strcpy"})
  BY DEF Producing
<1>4. \A c \in Consumers : pc'[c] = "sscanf" => pc[c] = "sscanf"
  BY DEF Holding
<1> QED
  BY <1>1, <1>2, <1>3, <1>4, ConsumingKept DEF Queue, ring, sems

\* Where the producer is counted.
LEMMA ProducingIs ==
  /\ Producing({"semwait"}) = IF pc[Producer] = "semwait" THEN 1 ELSE 0
  /\ Producing(Inserting) = IF pc[Producer] \in Inserting THEN 1 ELSE 0
  /\ Producing(Inserting \ {"post"}) = IF pc[Producer] \in {"semwait", "strcpy", "advance"} THEN 1 ELSE 0
  /\ Producing({"semwait", "strcpy"}) = IF pc[Producer] \in {"semwait", "strcpy"} THEN 1 ELSE 0
BY DEF Producing, Inserting

LEMMA ProducingWillBe ==
  /\ Producing({"semwait"})' = IF pc'[Producer] = "semwait" THEN 1 ELSE 0
  /\ Producing(Inserting)' = IF pc'[Producer] \in Inserting THEN 1 ELSE 0
  /\ Producing(Inserting \ {"post"})' = IF pc'[Producer] \in {"semwait", "strcpy", "advance"} THEN 1 ELSE 0
  /\ Producing({"semwait", "strcpy"})' = IF pc'[Producer] \in {"semwait", "strcpy"} THEN 1 ELSE 0
BY DEF Producing, Inserting

-----------------------------------------------------------------------------
(***************************************************************************)
(* The ring as a queue, as long as not all commands were read.             *)
(***************************************************************************)
\* The producer has one more command to insert.
LEMMA PutQueue ==
  ASSUME Types, Queue, [Next]_vars, pc[Producer] = "read", pc'[Producer] = "semwait",
         Begun' = Begun + 1, data'[Producer] = Item(Begun'),
         UNCHANGED <<ring, sems, applied, command, parsed>>, \A c \in Consumers : pc'[c] = pc[c]
  PROVE  Queue'
<1>1. Taken' = Taken /\ \A k : Item(k)' = Item(k)
  BY FileKept DEF Taken
<1>2. /\ Consuming({"free"})' = Consuming({"free"})
      /\ Consuming({"take", "sscanf"})' = Consuming({"take", "sscanf"})
      /\ Consuming({"sscanf"})' = Consuming({"sscanf"})
  BY ConsumingKept
<1>3. /\ Producing({"semwait"}) = 0 /\ Producing({"semwait"})' = 1
      /\ Producing(Inserting) = 0 /\ Producing(Inserting)' = 1
      /\ Producing(Inserting \ {"post"}) = 0 /\ Producing(Inserting \ {"post"})' = 1
      /\ Producing({"semwait", "strcpy"}) = 0 /\ Producing({"semwait", "strcpy"})' = 1
  BY ProducingIs, ProducingWillBe DEF Inserting
<1>4. UNCHANGED <<inputCommands, prodpos, conspos, loadInputCommand, executeCommand>>
  BY DEF ring, sems
<1>5. /\ Begun \in Nat /\ Taken \in Nat /\ MAX_COMMANDS \in Nat \ {0}
      /\ Consuming({"free"}) \in {0, 1} /\ Consuming({"take", "sscanf"}) \in {0, 1}
  BY Numbers
<1> USE <1>1, <1>2, <1>3, <1>4, <1>5
<1>6. executeCommand' = Begun' - 1 - Taken' - Consuming({"take", "sscanf"})'
  BY DEF Queue
<1>7. loadInputCommand' = MAX_COMMANDS - (Begun' - 1) + Taken' - Consuming({"free"})'
  BY DEF Queue
<1>8. prodpos' = (Begun' - 1) % MAX_COMMANDS
  <2>1. Begun' - 1 = Begun - 0
    OBVIOUS
  <2> QED
    BY <2>1 DEF Queue
<1>9. \A k \in Taken' + 1 .. Begun' - 1 : inputCommands'[(k - 1) % MAX_COMMANDS] = Item(k)'
  BY DEF Queue
<1>10. data'[Producer] = Item(Begun)'
  OBVIOUS
<1> QED
  BY <1>6, <1>7, <1>8, <1>9, <1>10 DEF Queue

LEMMA ReadLineQueue ==
  ASSUME Types, ProducerInv, Queue, Taken <= Count, ReadLine
  PROVE  Queue'
<1>0. [Next]_vars
  BY DEF Next
<1> USE Numbers
<1>1. /\ lineNumber \in Nat /\ lineNumber' = lineNumber + 1 /\ args \in Arguments /\ args' = args
      /\ pc[Producer] = "read" /\ data[Producer] # End /\ status = "running"
      /\ UNCHANGED <<ring, sems, applied, command, parsed>>
      /\ \A c \in Consumers : pc'[c] = pc[c]
      /\ lineNumber < Len(Script) /\ CommandLines' = CommandLines /\ Script' = Script
  BY <1>0, FileKept DEF ReadLine, Goto, Types, ProducerInv, locals
<1>2. Place(lineNumber)' = Place(lineNumber + 1)
  BY <1>1 DEF Place
<1>3. Taken' = Taken /\ \A k : Item(k)' = Item(k)
  BY <1>0, <1>1, FileKept DEF Taken
<1>4. CASE Valid(Script[lineNumber + 1])
  <2>1. pc'[Producer] = "semwait" /\ data'[Producer] = lineNumber + 1 /\ lineNumber + 1 \in CommandLines
    BY <1>1, <1>4, ValidLine DEF ReadLine, Goto, Types, Valid
  <2>2. Begun' = Begun + 1 /\ Begun' = Place(lineNumber + 1)
    <3>1. lineNumber + 1 # End /\ Place(lineNumber + 1) = Place(lineNumber) + 1
      BY <1>1, <2>1, PlaceStep, CommandLine
    <3> QED
      BY <1>1, <1>2, <2>1, <3>1 DEF Begun
  <2>3. data'[Producer] = Item(Begun')
    BY <1>1, <2>1, <2>2, PlaceOne, CommandOfPlace DEF Item
  <2> QED
    BY <1>0, <1>1, <2>1, <2>2, <2>3, PutQueue
<1>5. CASE ~Valid(Script[lineNumber + 1])
  <2>1. pc'[Producer] \in {"read", "done"} /\ data'[Producer] = data[Producer]
    BY <1>1, <1>5 DEF ReadLine, Goto, Types, Valid
  <2>2. Begun' = Begun
    <3>1. lineNumber + 1 \notin CommandLines
      BY <1>5 DEF CommandLines
    <3> QED
      BY <1>1, <1>2, <2>1, <3>1, PlaceStep DEF Begun
  <2>4. /\ Producing({"semwait"}) = 0 /\ Producing({"semwait"})' = 0
        /\ Producing(Inserting) = 0 /\ Producing(Inserting)' = 0
        /\ Producing(Inserting \ {"post"}) = 0 /\ Producing(Inserting \ {"post"})' = 0
        /\ Producing({"semwait", "strcpy"}) = 0 /\ Producing({"semwait", "strcpy"})' = 0
    BY <1>1, <2>1, ProducingIs, ProducingWillBe DEF Inserting
  <2>5. pc'[Producer] \notin Inserting
    BY <2>1 DEF Inserting
  <2> QED
    BY <1>1, <1>3, <2>2, <2>4, <2>5, ConsumingKept DEF Queue, ring, sems
<1> QED
  BY <1>4, <1>5

LEMMA ReadEndQueue ==
  ASSUME Types, ProducerInv, Queue, Taken <= Count, ReadEnd
  PROVE  Queue'
<1>0. [Next]_vars
  BY DEF Next
<1> USE Numbers
<1>1. /\ lineNumber' = lineNumber /\ lineNumber = Len(Script) /\ args \in Arguments /\ args' = args
      /\ pc[Producer] = "read" /\ data[Producer] # End /\ pc'[Producer] = "semwait" /\ data'[Producer] = End
      /\ UNCHANGED <<ring, sems, applied, command, parsed>>
      /\ \A c \in Consumers : pc'[c] = pc[c]
      /\ CommandLines' = CommandLines
  BY <1>0, FileKept DEF ReadEnd, Goto, Types, ProducerInv, locals
<1>2. Begun = Count /\ Begun' = Count + 1
  BY <1>1, PlaceEnds DEF Begun, Place
<1>3. Taken' = Taken /\ \A k : Item(k)' = Item(k)
  BY <1>0, <1>1, FileKept DEF Taken
<1>4. data'[Producer] = Item(Begun')
  BY <1>1, <1>2 DEF Item
<1> QED
  BY <1>0, <1>1, <1>2, <1>4, PutQueue

\* insertCommand: as long as the queue holds only the producer runs it.
LEMMA InsertFrame ==
  ASSUME Types, insertCommand(Producer)
  PROVE  /\ Begun' = Begun /\ Taken' = Taken /\ \A k : Item(k)' = Item(k)
         /\ UNCHANGED <<args, data, lineNumber, conspos, command, parsed>>
         /\ Consuming({"free"})' = Consuming({"free"})
         /\ Consuming({"take", "sscanf"})' = Consuming({"take", "sscanf"})
         /\ Consuming({"sscanf"})' = Consuming({"sscanf"})
         /\ \A c \in Consumers : pc'[c] = pc[c]
<1> USE Numbers
<1>0. [Next]_vars
  BY DEF Next, ThreadStep
<1>1. UNCHANGED <<args, data, lineNumber, conspos, command, parsed, applied>>
      /\ \A c \in Consumers : pc'[c] = pc[c]
  BY DEF insertCommand, WaitLoad, CopyIn, Advance, PostExecute, Goto, Types, ring, locals
<1> QED
  BY <1>0, <1>1, BegunKept, FileKept, ConsumingKept DEF Taken

LEMMA WaitLoadQueue ==
  ASSUME Types, Queue, Taken <= Count, WaitLoad(Producer)
  PROVE  Queue'
<1>0. /\ Begun' = Begun /\ Taken' = Taken /\ \A k : Item(k)' = Item(k)
      /\ UNCHANGED <<data, conspos, command, parsed>>
      /\ Consuming({"free"})' = Consuming({"free"})
      /\ Consuming({"take", "sscanf"})' = Consuming({"take", "sscanf"})
      /\ Consuming({"sscanf"})' = Consuming({"sscanf"})
      /\ \A c \in Consumers : pc'[c] = pc[c]
  BY InsertFrame DEF insertCommand
<1>00. /\ Begun \in Nat /\ Taken \in Nat /\ MAX_COMMANDS \in Nat \ {0}
       /\ loadInputCommand \in Nat /\ executeCommand \in Nat
       /\ Consuming({"free"}) \in {0, 1} /\ Consuming({"take", "sscanf"}) \in {0, 1}
       /\ Producer \in Threads
  BY Numbers
<1> USE <1>0, <1>00
<1>1. /\ pc[Producer] = "semwait" /\ pc'[Producer] = "strcpy"
      /\ loadInputCommand' = loadInputCommand - 1 /\ UNCHANGED <<executeCommand, ring>>
  BY DEF WaitLoad, Goto, Types
<1>2. /\ Producing({"semwait"}) = 1 /\ Producing({"semwait"})' = 0
      /\ Producing(Inserting) = 1 /\ Producing(Inserting)' = 1
      /\ Producing(Inserting \ {"post"}) = 1 /\ Producing(Inserting \ {"post"})' = 1
      /\ Producing({"semwait", "strcpy"}) = 1 /\ Producing({"semwait", "strcpy"})' = 1
  BY <1>1, ProducingIs, ProducingWillBe DEF Inserting
<1>3. data[Producer] = Item(Begun)
  BY <1>1 DEF Queue, Inserting
<1>4. UNCHANGED <<inputCommands, prodpos>>
  BY <1>1 DEF ring
<1>5. executeCommand' = Begun' - 1 - Taken' - Consuming({"take", "sscanf"})'
  BY <1>1, <1>2, <1>4 DEF Queue
<1>6. loadInputCommand' = MAX_COMMANDS - (Begun' - 0) + Taken' - Consuming({"free"})'
  BY <1>1, <1>2, <1>4 DEF Queue
<1>7. prodpos' = (Begun' - 1) % MAX_COMMANDS
  BY <1>1, <1>2, <1>4 DEF Queue
<1>8. \A k \in Taken' + 1 .. Begun' - 1 : inputCommands'[(k - 1) % MAX_COMMANDS] = Item(k)'
  BY <1>1, <1>2, <1>4 DEF Queue
<1> QED
  BY <1>2, <1>3, <1>5, <1>6, <1>7, <1>8 DEF Queue

LEMMA CopyInQueue ==
  ASSUME Types, Queue, Taken <= Count, CopyIn(Producer)
  PROVE  Queue'
<1>0. /\ Begun' = Begun /\ Taken' = Taken /\ \A k : Item(k)' = Item(k)
      /\ UNCHANGED <<data, conspos, command, parsed>>
      /\ Consuming({"free"})' = Consuming({"free"})
      /\ Consuming({"take", "sscanf"})' = Consuming({"take", "sscanf"})
      /\ Consuming({"sscanf"})' = Consuming({"sscanf"})
      /\ \A c \in Consumers : pc'[c] = pc[c]
  BY InsertFrame DEF insertCommand
<1>00. /\ Begun \in Nat /\ Taken \in Nat /\ MAX_COMMANDS \in Nat \ {0}
       /\ loadInputCommand \in Nat /\ executeCommand \in Nat
       /\ Consuming({"free"}) \in {0, 1} /\ Consuming({"take", "sscanf"}) \in {0, 1}
       /\ Producer \in Threads
  BY Numbers
<1> USE <1>0, <1>00
<1>1. /\ pc[Producer] = "strcpy" /\ pc'[Producer] = "advance" /\ UNCHANGED <<sems, prodpos>>
      /\ inputCommands' = [inputCommands EXCEPT ![prodpos] = data[Producer]]
      /\ inputCommands \in [Slots -> Texts] /\ prodpos \in Slots
  BY DEF CopyIn, Goto, Types
<1>2. /\ Producing({"semwait"}) = 0 /\ Producing({"semwait"})' = 0
      /\ Producing(Inserting) = 1 /\ Producing(Inserting)' = 1
      /\ Producing(Inserting \ {"post"}) = 1 /\ Producing(Inserting \ {"post"})' = 1
      /\ Producing({"semwait", "strcpy"}) = 1 /\ Producing({"semwait", "strcpy"})' = 0
  BY <1>1, ProducingIs, ProducingWillBe DEF Inserting
<1>3. data[Producer] = Item(Begun)
  BY <1>1 DEF Queue, Inserting
<1>4. prodpos = (Begun - 1) % MAX_COMMANDS /\ Begun - Taken <= MAX_COMMANDS
  BY <1>2 DEF Queue
<1>5. ASSUME NEW k \in Taken + 1 .. Begun
      PROVE  inputCommands'[(k - 1) % MAX_COMMANDS] = Item(k)
  <2>1. CASE k = Begun
    BY <1>1, <1>3, <1>4, <2>1
  <2>2. CASE k < Begun
    <3>1. /\ k \in Nat /\ k - 1 \in Nat /\ Begun - 1 \in Nat
          /\ k - 1 < Begun - 1 /\ (Begun - 1) - (k - 1) < MAX_COMMANDS
      BY <1>4, <2>2
    <3>2. (k - 1) % MAX_COMMANDS # (Begun - 1) % MAX_COMMANDS
      BY <3>1, TwoSlots
    <3>3. (k - 1) % MAX_COMMANDS \in Slots
      BY <3>1 DEF Slots
    <3>4. inputCommands[(k - 1) % MAX_COMMANDS] = Item(k)
      BY <1>2, <2>2 DEF Queue
    <3> QED
      BY <1>1, <1>4, <3>2, <3>3, <3>4
  <2> QED
    BY <2>1, <2>2
<1>6. UNCHANGED <<loadInputCommand, executeCommand>>
  BY <1>1 DEF sems
<1>7. executeCommand' = Begun' - 1 - Taken' - Consuming({"take", "sscanf"})'
  BY <1>1, <1>2, <1>6 DEF Queue
<1>8. loadInputCommand' = MAX_COMMANDS - (Begun' - 0) + Taken' - Consuming({"free"})'
  BY <1>1, <1>2, <1>6 DEF Queue
<1>9. prodpos' = (Begun' - 1) % MAX_COMMANDS
  BY <1>1, <1>2, <1>6 DEF Queue
<1>10. \A k \in Taken' + 1 .. Begun' - 0 : inputCommands'[(k - 1) % MAX_COMMANDS] = Item(k)'
  BY <1>5 DEF Queue
<1> QED
  BY <1>2, <1>3, <1>7, <1>8, <1>9, <1>10 DEF Queue

LEMMA AdvanceQueue ==
  ASSUME Types, Queue, Taken <= Count, Advance(Producer)
  PROVE  Queue'
<1>0. /\ Begun' = Begun /\ Taken' = Taken /\ \A k : Item(k)' = Item(k)
      /\ UNCHANGED <<data, conspos, command, parsed>>
      /\ Consuming({"free"})' = Consuming({"free"})
      /\ Consuming({"take", "sscanf"})' = Consuming({"take", "sscanf"})
      /\ Consuming({"sscanf"})' = Consuming({"sscanf"})
      /\ \A c \in Consumers : pc'[c] = pc[c]
  BY InsertFrame DEF insertCommand
<1>00. /\ Begun \in Nat /\ Taken \in Nat /\ MAX_COMMANDS \in Nat \ {0}
       /\ loadInputCommand \in Nat /\ executeCommand \in Nat
       /\ Consuming({"free"}) \in {0, 1} /\ Consuming({"take", "sscanf"}) \in {0, 1}
       /\ Producer \in Threads
  BY Numbers
<1> USE <1>0, <1>00
<1>1. /\ pc[Producer] = "advance" /\ pc'[Producer] = "post" /\ UNCHANGED <<sems, inputCommands>>
      /\ prodpos' = (prodpos + 1) % MAX_COMMANDS
  BY DEF Advance, Goto, Types
<1>2. /\ Producing({"semwait"}) = 0 /\ Producing({"semwait"})' = 0
      /\ Producing(Inserting) = 1 /\ Producing(Inserting)' = 1
      /\ Producing(Inserting \ {"post"}) = 1 /\ Producing(Inserting \ {"post"})' = 0
      /\ Producing({"semwait", "strcpy"}) = 0 /\ Producing({"semwait", "strcpy"})' = 0
  BY <1>1, ProducingIs, ProducingWillBe DEF Inserting
<1>3. data[Producer] = Item(Begun)
  BY <1>1 DEF Queue, Inserting
<1>4. Begun - 1 \in Nat
  <2>1. executeCommand = Begun - 1 - Taken - Consuming({"take", "sscanf"})
    BY <1>2 DEF Queue
  <2> QED
    BY <2>1
<1>5. prodpos' = (Begun - 0) % MAX_COMMANDS
  <2>1. prodpos = (Begun - 1) % MAX_COMMANDS
    BY <1>2 DEF Queue
  <2>2. (((Begun - 1) % MAX_COMMANDS) + 1) % MAX_COMMANDS = (Begun - 1 + 1) % MAX_COMMANDS
    BY <1>4, NextSlotOf
  <2>3. Begun - 1 + 1 = Begun - 0
    OBVIOUS
  <2> QED
    BY <1>1, <2>1, <2>2, <2>3
<1>6. UNCHANGED <<loadInputCommand, executeCommand>>
  BY <1>1 DEF sems
<1>7. executeCommand' = Begun' - 1 - Taken' - Consuming({"take", "sscanf"})'
  BY <1>1, <1>2, <1>6 DEF Queue
<1>8. loadInputCommand' = MAX_COMMANDS - (Begun' - 0) + Taken' - Consuming({"free"})'
  BY <1>1, <1>2, <1>6 DEF Queue
<1>9. prodpos' = (Begun' - 0) % MAX_COMMANDS
  BY <1>5 DEF Queue
<1>10. \A k \in Taken' + 1 .. Begun' - 0 : inputCommands'[(k - 1) % MAX_COMMANDS] = Item(k)'
  BY <1>1, <1>2, <1>6 DEF Queue
<1> QED
  BY <1>2, <1>3, <1>7, <1>8, <1>9, <1>10 DEF Queue

LEMMA PostExecuteQueue ==
  ASSUME Types, Queue, Taken <= Count, PostExecute(Producer)
  PROVE  Queue'
<1>0. /\ Begun' = Begun /\ Taken' = Taken /\ \A k : Item(k)' = Item(k)
      /\ UNCHANGED <<data, conspos, command, parsed>>
      /\ Consuming({"free"})' = Consuming({"free"})
      /\ Consuming({"take", "sscanf"})' = Consuming({"take", "sscanf"})
      /\ Consuming({"sscanf"})' = Consuming({"sscanf"})
      /\ \A c \in Consumers : pc'[c] = pc[c]
  BY InsertFrame DEF insertCommand
<1>00. /\ Begun \in Nat /\ Taken \in Nat /\ MAX_COMMANDS \in Nat \ {0}
       /\ loadInputCommand \in Nat /\ executeCommand \in Nat
       /\ Consuming({"free"}) \in {0, 1} /\ Consuming({"take", "sscanf"}) \in {0, 1}
       /\ Producer \in Threads
  BY Numbers
<1> USE <1>0, <1>00
<1>1. /\ pc[Producer] = "post" /\ pc'[Producer] \in {"read", "done"} /\ UNCHANGED <<loadInputCommand, ring>>
      /\ executeCommand' = executeCommand + 1
  BY DEF PostExecute, Goto, Types, AfterInsert
<1>2. /\ Producing({"semwait"}) = 0 /\ Producing({"semwait"})' = 0
      /\ Producing(Inserting) = 1 /\ Producing(Inserting)' = 0
      /\ Producing(Inserting \ {"post"}) = 0 /\ Producing(Inserting \ {"post"})' = 0
      /\ Producing({"semwait", "strcpy"}) = 0 /\ Producing({"semwait", "strcpy"})' = 0
  BY <1>1, ProducingIs, ProducingWillBe DEF Inserting
<1>3. pc'[Producer] \notin Inserting
  BY <1>1 DEF Inserting
<1>4. UNCHANGED <<inputCommands, prodpos>>
  BY <1>1 DEF ring
<1>5. executeCommand' = Begun' - 0 - Taken' - Consuming({"take", "sscanf"})'
  BY <1>1, <1>2 DEF Queue
<1>6. prodpos' = (Begun' - 0) % MAX_COMMANDS
  BY <1>1, <1>2, <1>4 DEF Queue
<1>7. loadInputCommand' = MAX_COMMANDS - (Begun' - 0) + Taken' - Consuming({"free"})'
  BY <1>1, <1>2, <1>4 DEF Queue
<1>8. \A k \in Taken' + 1 .. Begun' - 0 : inputCommands'[(k - 1) % MAX_COMMANDS] = Item(k)'
  BY <1>1, <1>2, <1>4 DEF Queue
<1> QED
  BY <1>2, <1>3, <1>5, <1>6, <1>7, <1>8 DEF Queue

\* A consumer that moves leaves the producer where it is.
LEMMA ConsumerFrame ==
  ASSUME Types, NEW c \in Consumers, NEW from, NEW to, Goto(c, from, to),
         args' = args, lineNumber' = lineNumber, data' = data
  PROVE  /\ Begun' = Begun /\ pc'[Producer] = pc[Producer] /\ \A k : Item(k)' = Item(k)
         /\ Producing({"semwait"})' = Producing({"semwait"})
         /\ Producing(Inserting)' = Producing(Inserting)
         /\ Producing(Inserting \ {"post"})' = Producing(Inserting \ {"post"})
         /\ Producing({"semwait", "strcpy"})' = Producing({"semwait", "strcpy"})
         /\ Producing({"semwait"}) \in {0, 1} /\ Producing(Inserting) \in {0, 1}
         /\ Producing({"semwait", "strcpy"}) \in {0, 1}
         /\ Producing({"semwait", "strcpy"}) <= Producing(Inserting)
<1>1. pc'[Producer] = pc[Producer]
  BY Numbers DEF Goto, Types
<1>2. Begun' = Begun /\ \A k : Item(k)' = Item(k)
  BY BegunKept, FileFixed DEF Item
<1> QED
  BY <1>1, <1>2, ProducingIs, ProducingWillBe DEF Inserting

LEMMA WaitExecuteQueue ==
  ASSUME Types, ConsumerInv, Queue, NEW c \in Consumers, WaitExecute(c)
  PROVE  Queue'
<1>1. /\ Goto(c, "wait", "take") /\ executeCommand' = executeCommand - 1
      /\ UNCHANGED <<args, lineNumber, data, loadInputCommand, inputCommands, prodpos, conspos, command,
                     parsed, applied>>
  BY DEF WaitExecute, ring, locals
<1>2. /\ Consuming({"free"}) = 0 /\ Consuming({"free"})' = 0
      /\ Consuming({"take", "sscanf"}) = 0 /\ Consuming({"take", "sscanf"})' = 1
      /\ Consuming({"sscanf"}) = 0 /\ Consuming({"sscanf"})' = 0
      /\ \A e \in Consumers : pc'[e] = "sscanf" => pc[e] = "sscanf"
  <2>1. pc'[c] # "sscanf"
    BY <1>1 DEF Goto, Types, Threads
  <2> QED
    BY <1>1, <2>1, ConsumingMoves DEF Critical
<1>3. Taken' = Taken /\ Taken \in Nat /\ Begun \in Nat /\ executeCommand \in Nat
  BY <1>1, Numbers DEF Taken
<1> USE <1>1, <1>2, <1>3, ConsumerFrame
<1>4. executeCommand' = Begun' - Producing(Inserting)' - Taken' - Consuming({"take", "sscanf"})'
  BY DEF Queue
<1> QED
  BY <1>4 DEF Queue

LEMMA TakeSlotQueue ==
  ASSUME Types, ConsumerInv, Queue, NEW c \in Consumers, TakeSlot(c)
  PROVE  Queue'
<1>1. /\ Goto(c, "take", "sscanf") /\ conspos' = (conspos + 1) % MAX_COMMANDS
      /\ command' = [command EXCEPT ![c] = conspos]
      /\ UNCHANGED <<args, lineNumber, data, loadInputCommand, executeCommand, inputCommands, prodpos,
                     parsed, applied>>
  BY DEF TakeSlot, sems
<1>2. /\ Consuming({"free"}) = 0 /\ Consuming({"free"})' = 0
      /\ Consuming({"take", "sscanf"}) = 1 /\ Consuming({"take", "sscanf"})' = 1
      /\ Consuming({"sscanf"}) = 0 /\ Consuming({"sscanf"})' = 1
      /\ \A e \in Consumers : e # c => pc'[e] # "sscanf"
  BY <1>1, ConsumingMoves DEF Critical
<1>3. Taken' = Taken /\ Taken \in Nat /\ Begun \in Nat /\ MAX_COMMANDS \in Nat \ {0}
  BY <1>1, Numbers DEF Taken
<1>4. conspos = Taken % MAX_COMMANDS
  <2>1. Taken + 0 = Taken
    BY <1>3
  <2> QED
    BY <1>2, <2>1 DEF Queue
<1>5. conspos' = (Taken + 1) % MAX_COMMANDS
  BY <1>1, <1>3, <1>4, NextSlotOf
<1>6. command'[c] = Taken % MAX_COMMANDS
  BY <1>1, <1>4 DEF Types
<1> QED
  BY <1>1, <1>2, <1>3, <1>5, <1>6, ConsumerFrame DEF Queue

LEMMA FreeSlotQueue ==
  ASSUME Types, ConsumerInv, Queue, NEW c \in Consumers, FreeSlot(c)
  PROVE  Queue'
<1>1. /\ Goto(c, "free", "switch") /\ loadInputCommand' = loadInputCommand + 1
      /\ UNCHANGED <<args, lineNumber, data, executeCommand, inputCommands, prodpos, conspos, command,
                     parsed, applied>>
  BY DEF FreeSlot, ring, locals
<1>2. /\ Consuming({"free"}) = 1 /\ Consuming({"free"})' = 0
      /\ Consuming({"take", "sscanf"}) = 0 /\ Consuming({"take", "sscanf"})' = 0
      /\ Consuming({"sscanf"}) = 0 /\ Consuming({"sscanf"})' = 0
      /\ \A e \in Consumers : pc'[e] = "sscanf" => pc[e] = "sscanf"
  <2>1. pc'[c] # "sscanf"
    BY <1>1 DEF Goto, Types, Threads
  <2> QED
    BY <1>1, <2>1, ConsumingMoves DEF Critical
<1>3. Taken' = Taken /\ Taken \in Nat /\ Begun \in Nat /\ MAX_COMMANDS \in Nat
  BY <1>1, Numbers DEF Taken
<1> USE <1>1, <1>2, <1>3, ConsumerFrame
<1>4. loadInputCommand' = MAX_COMMANDS - (Begun' - Producing({"semwait"})') + Taken' - Consuming({"free"})'
  BY DEF Queue
<1> QED
  BY <1>4 DEF Queue

\* What a consumer finds in its slot is the next command of the file, or "x"
\* when the producer has no more.
LEMMA FindsItem ==
  ASSUME Types, ConsumerInv, Queue, NEW c \in Consumers, Parse(c)
  PROVE  /\ inputCommands[command[c]] = Item(Taken + 1)
         /\ Taken + 1 <= Begun - Producing(Inserting)
<1>1. Goto(c, "sscanf", "free") /\ UNCHANGED <<args, lineNumber, data>>
  BY DEF Parse
<1>2. Consuming({"take", "sscanf"}) = 1
  BY <1>1, ConsumingMoves DEF Critical
<1>3. Taken \in Nat /\ Begun \in Nat /\ executeCommand \in Nat
  BY Numbers
<1>4. Taken + 1 <= Begun - Producing(Inserting)
  BY <1>1, <1>2, <1>3, ConsumerFrame DEF Queue
<1>5. Taken + 1 \in Taken + 1 .. Begun - Producing({"semwait", "strcpy"})
  BY <1>1, <1>3, <1>4, ConsumerFrame
<1>6. command[c] = Taken % MAX_COMMANDS /\ Taken + 1 - 1 = Taken
  BY <1>1, <1>3 DEF Queue, Goto
<1>7. inputCommands[(Taken + 1 - 1) % MAX_COMMANDS] = Item(Taken + 1)
  <2>1. \A k \in Taken + 1 .. Begun - Producing({"semwait", "strcpy"}) :
          inputCommands[(k - 1) % MAX_COMMANDS] = Item(k)
    BY DEF Queue
  <2> QED
    BY <1>3, <1>5, <2>1, Numbers
<1> QED
  BY <1>4, <1>6, <1>7

LEMMA ParseTakes ==
  ASSUME Types, NEW c \in Consumers, Parse(c)
  PROVE  /\ Taken' = Taken + 1
         /\ applied' = Append(applied, inputCommands[command[c]])
         /\ DOMAIN applied' = 1 .. Taken + 1
         /\ applied'[Taken + 1] = inputCommands[command[c]]
         /\ \A i \in 1 .. Taken : applied'[i] = applied[i]
<1>1. applied \in Seq(Texts) /\ inputCommands[command[c]] \in Texts
  BY DEF Types
<1> QED
  BY <1>1 DEF Parse, Taken

LEMMA ParseQueue ==
  ASSUME Types, ConsumerInv, Queue, NEW c \in Consumers, Parse(c), Taken + 1 <= Count
  PROVE  Queue'
<1>1. /\ Goto(c, "sscanf", "free")
      /\ UNCHANGED <<args, lineNumber, data, loadInputCommand, executeCommand, inputCommands, prodpos, conspos,
                     command>>
      /\ parsed' = [parsed EXCEPT ![c] = sscanf(parsed[c], Text(inputCommands[command[c]]))]
  BY DEF Parse, ring, sems, Types
<1>2. /\ Consuming({"free"}) = 0 /\ Consuming({"free"})' = 1
      /\ Consuming({"take", "sscanf"}) = 1 /\ Consuming({"take", "sscanf"})' = 0
      /\ Consuming({"sscanf"}) = 1 /\ Consuming({"sscanf"})' = 0
      /\ \A e \in Consumers : pc'[e] # "sscanf"
  BY <1>1, ConsumingMoves DEF Critical, Goto, Types, Threads
<1>3. Taken' = Taken + 1 /\ Taken \in Nat /\ Begun \in Nat /\ MAX_COMMANDS \in Nat \ {0} /\ Count \in Nat
  BY ParseTakes, Numbers
<1>4. \A e \in Consumers : parsed'[e].token # "x"
  <2>1. inputCommands[command[c]] = Commands[Taken + 1] /\ Taken + 1 \in 1 .. Count
    BY <1>3, FindsItem DEF Item
  <2>2. inputCommands[command[c]] \in CommandLines
    BY <2>1, CommandAt DEF Types
  <2>3. sscanf(parsed[c], Text(inputCommands[command[c]])).token \in Tokens
    BY <2>2, Scan, CommandLine DEF Types, Texts
  <2>4. "x" \notin Tokens
    BY DEF Tokens
  <2> QED
    BY <1>1, <2>3, <2>4 DEF Queue, Types
<1> USE <1>1, <1>2, <1>3, ConsumerFrame
<1>5. executeCommand' = Begun' - Producing(Inserting)' - Taken' - Consuming({"take", "sscanf"})'
  BY DEF Queue
<1>6. loadInputCommand' = MAX_COMMANDS - (Begun' - Producing({"semwait"})') + Taken' - Consuming({"free"})'
  BY DEF Queue
<1>7. conspos' = (Taken' + Consuming({"sscanf"})') % MAX_COMMANDS
  <2>1. Taken' + Consuming({"sscanf"})' = Taken + Consuming({"sscanf"})
    OBVIOUS
  <2> QED
    BY <2>1 DEF Queue
<1>8. \A k \in Taken' + 1 .. Begun' - Producing({"semwait", "strcpy"})' :
        inputCommands'[(k - 1) % MAX_COMMANDS] = Item(k)'
  BY DEF Queue
<1> QED
  BY <1>4, <1>5, <1>6, <1>7, <1>8 DEF Queue

\* The steps at which no consumer moves at the ring.
LEMMA CalmGoto ==
  ASSUME Types, [Next]_vars, Queue, NEW c \in Consumers, NEW from, NEW to, Goto(c, from, to),
         from \notin Holding, to \notin Holding, data'[Producer] = data[Producer],
         UNCHANGED <<lineNumber, ring, sems, applied, command, parsed>>
  PROVE  Queue'
<1>1. c \in Threads /\ pc'[Producer] = pc[Producer]
  BY Numbers DEF Goto, Types
<1> QED
  BY <1>1, GotoKeeps, CalmQueue

LEMMA StepRingInv ==
  ASSUME Types, ConsumerInv, ProducerInv, RingInv, [Next]_vars
  PROVE  RingInv'
<1> SUFFICES ASSUME Taken' <= Count' PROVE Queue'
  BY DEF RingInv
<1>0. Taken <= Count /\ Queue
  BY FileKept, Numbers DEF RingInv
<1>1. CASE ReadLine \/ ReadEnd
  BY <1>0, <1>1, ReadLineQueue, ReadEndQueue
<1>2. ASSUME NEW t \in Threads, insertCommand(t) PROVE Queue'
  <2>1. t = Producer
    <3>1. pc[t] \in Inserting
      BY <1>2 DEF insertCommand, WaitLoad, CopyIn, Advance, PostExecute, Goto, Inserting
    <3>2. t \in Consumers => parsed[t].token = "x"
      BY <3>1 DEF ConsumerInv
    <3> QED
      BY <1>0, <3>2 DEF Queue, Threads
  <2> QED
    BY <1>0, <1>2, <2>1, WaitLoadQueue, CopyInQueue, AdvanceQueue, PostExecuteQueue DEF insertCommand
<1>3. ASSUME NEW c \in Consumers, LockCommands(c) PROVE Queue'
  <2>1. Goto(c, "lock", "wait") /\ UNCHANGED <<data, lineNumber, ring, sems, applied, command, parsed>>
    BY <1>3 DEF LockCommands, locals
  <2> QED
    BY <1>0, <2>1, CalmGoto DEF Holding
<1>4. ASSUME NEW c \in Consumers, WaitExecute(c) \/ TakeSlot(c) \/ FreeSlot(c) PROVE Queue'
  BY <1>0, <1>4, WaitExecuteQueue, TakeSlotQueue, FreeSlotQueue
<1>5. ASSUME NEW c \in Consumers, Parse(c) PROVE Queue'
  <2>1. Taken + 1 <= Count
    BY <1>5, ParseTakes, FileKept
  <2> QED
    BY <1>0, <1>5, <2>1, ParseQueue
<1>6. ASSUME NEW c \in Consumers, Switch(c) PROVE Queue'
  <2>1. ~DoEnd(c)
    BY <1>0 DEF DoEnd, Queue
  <2>2. \E to \in {"apply", "lookupNew", "done"} : Goto(c, "switch", to)
    BY <1>6, <2>1 DEF Switch, DoCreate, DoLookup, DoDelete, DoRename, DoFail, Start
  <2>3. UNCHANGED <<data, lineNumber, ring, sems, applied, command, parsed>>
    BY <1>6, <2>1 DEF Switch, DoCreate, DoLookup, DoDelete, DoRename, DoFail, Start, locals
  <2> QED
    BY <1>0, <2>2, <2>3, CalmGoto DEF Holding
<1>7. ASSUME NEW c \in Consumers, LookupNew(c) \/ RemoveOld(c) \/ KeepOld(c) \/ CreateNew(c) \/ Applied(c)
      PROVE Queue'
  <2>1. \E from, to \in InCall \cup {"lock"} : Goto(c, from, to)
    BY <1>7 DEF LookupNew, RemoveOld, KeepOld, CreateNew, Applied, Returned, InCall
  <2>2. UNCHANGED <<data, lineNumber, ring, sems, applied, command, parsed>>
    BY <1>7 DEF LookupNew, RemoveOld, KeepOld, CreateNew, Applied, Returned
  <2> QED
    BY <1>0, <2>1, <2>2, CalmGoto DEF Holding, InCall
<1>8. ASSUME NEW c \in Consumers, ExtraPost(c) PROVE Queue'
  BY <1>0, <1>8 DEF ExtraPost, Goto, ConsumerInv, Queue
<1>9. CASE (\E c \in Consumers : InDirectory(c)) \/ Join \/ Exited \/ UNCHANGED vars
  <2>1. UNCHANGED <<pc, data, lineNumber, ring, sems, applied, command, parsed>>
    BY <1>9 DEF InDirectory, Join, Exited, vars, locals
  <2> QED
    BY <1>0, <2>1, CalmQueue
<1> QED
  BY <1>1, <1>2, <1>3, <1>4, <1>5, <1>6, <1>7, <1>8, <1>9 DEF Next, ThreadStep, applyCommands

LEMMA InitQueue == Init => Queue
<1> SUFFICES ASSUME Init PROVE Queue
  OBVIOUS
<1>1. args \in Arguments /\ Begun = 0 /\ Taken = 0
  BY PoolAssumption, PlaceEnds DEF Init, Begun, Taken, Threads, Empty, End
<1>2. /\ pc[Producer] = "read" /\ \A c \in Consumers : pc[c] \in {"lock", "none"} /\ parsed[c].token = Missing
      /\ Missing # "x"
  BY PoolAssumption DEF Init, Threads
<1>3. /\ Producing({"semwait"}) = 0 /\ Producing(Inserting) = 0
      /\ Producing(Inserting \ {"post"}) = 0 /\ Producing({"semwait", "strcpy"}) = 0
      /\ Consuming({"free"}) = 0 /\ Consuming({"take", "sscanf"}) = 0 /\ Consuming({"sscanf"}) = 0
  BY <1>2, ProducingIs DEF Consuming, Inserting
<1>4. 0 % MAX_COMMANDS = 0 /\ MAX_COMMANDS \in Nat
  BY PoolAssumption
<1> QED
  BY <1>1, <1>2, <1>3, <1>4 DEF Init, Queue, Inserting

LEMMA StepDelivered ==
  ASSUME Types, ConsumerInv, RingInv, Delivered, [Next]_vars
  PROVE  Delivered'
<1>1. CASE UNCHANGED applied
  BY <1>1, FileKept DEF Delivered
<1>2. ASSUME NEW c \in Consumers, Parse(c) PROVE Delivered'
  <2> SUFFICES ASSUME NEW i \in DOMAIN applied', i <= Count'
               PROVE  applied'[i] = Commands'[i]
    BY DEF Delivered
  <2>1. i \in 1 .. Taken + 1 /\ i <= Count /\ Commands' = Commands
    BY <1>2, ParseTakes, FileKept
  <2>2. CASE i <= Taken
    <3>1. i \in 1 .. Taken /\ DOMAIN applied = 1 .. Taken
      BY <2>1, <2>2, Numbers DEF Taken
    <3> QED
      BY <1>2, <2>1, <3>1, ParseTakes DEF Delivered
  <2>3. CASE i = Taken + 1
    <3>1. Taken <= Count
      BY <2>1, <2>3, Numbers
    <3>2. applied'[i] = Item(i)
      BY <1>2, <2>3, <3>1, FindsItem, ParseTakes DEF RingInv
    <3> QED
      BY <2>1, <3>2 DEF Item
  <2> QED
    BY <2>1, <2>2, <2>3, Numbers
<1> QED
  BY <1>1, <1>2, OnlyParseReads

\* The ring, with any number of consumers and any number of slots: the first
\* commands that are read are those of the file, in its order.
Ringing == Calling /\ RingInv /\ Delivered

LEMMA InitRinging == Init => Ringing
BY InitCalling, InitQueue DEF Init, Ringing, RingInv, Delivered

LEMMA StepRinging == Ringing /\ [Next]_vars => Ringing'
BY StepCalling, StepRingInv, StepDelivered DEF Ringing, Calling

THEOREM PoolDelivers == Spec => []Delivered
<1>1. Ringing => Delivered
  BY DEF Ringing
<1> QED
  BY <1>1, InitRinging, StepRinging, PTL DEF Spec

-----------------------------------------------------------------------------
(***************************************************************************)
(* The end of the commands, with two consumers at most: the second takes a *)
(* slot only after the first has put an "x" there.                         *)
(***************************************************************************)
LEMMA TwoOnly ==
  ASSUME args \in Arguments, AtMostTwo,
         NEW a \in args.threads, NEW b \in args.threads, NEW c \in args.threads
  PROVE  a = b \/ a = c \/ b = c
<1> SUFFICES ASSUME a # b, a # c, b # c PROVE FALSE
  OBVIOUS
<1>1. IsFiniteSet({a}) /\ Cardinality({a}) = 1
  BY FS_Singleton
<1> DEFINE one == {a}
           two == one \cup {b}
           three == two \cup {c}
<1>01. b \notin one /\ c \notin two
  OBVIOUS
<1>4. three \in SUBSET args.threads
  OBVIOUS
<1> HIDE DEF one
<1>2. IsFiniteSet(two) /\ Cardinality(two) = Cardinality(one) + 1
  BY <1>1, <1>01, FS_AddElement DEF one
<1> HIDE DEF two
<1>3. IsFiniteSet(three) /\ Cardinality(three) = Cardinality(two) + 1
  BY <1>2, <1>01, FS_AddElement
<1> HIDE DEF three
<1>5. IsFiniteSet(args.threads)
  BY PoolAssumption, FS_Subset
<1>6. 3 <= Cardinality(args.threads) /\ Cardinality(args.threads) \in Nat
  <2>1. Cardinality(three) = 3
    BY <1>1, <1>2, <1>3 DEF one
  <2> QED
    BY <2>1, <1>4, <1>5, FS_Subset, FS_CardinalityType
<1> QED
  BY <1>6 DEF AtMostTwo

\* The first "x" is read when the producer has ended.
LEMMA FirstEnd ==
  ASSUME Types, ConsumerInv, ProducerInv, Queue, Taken = Count, NEW c \in Consumers, Parse(c)
  PROVE  /\ pc'[Producer] = "done" /\ c \in args'.threads /\ OneEnded(c)'
         /\ inputCommands[command[c]] = End
<1>1. /\ Goto(c, "sscanf", "free") /\ status = "running"
      /\ UNCHANGED <<args, lineNumber, data, loadInputCommand, executeCommand, inputCommands, prodpos, conspos,
                     command>>
      /\ parsed' = [parsed EXCEPT ![c] = sscanf(parsed[c], Text(inputCommands[command[c]]))]
  BY DEF Parse, ring, sems, Types, Goto
<1>2. /\ Consuming({"take", "sscanf"}) = 1 /\ Consuming({"take", "sscanf"})' = 0
      /\ Consuming({"sscanf"}) = 1 /\ Consuming({"sscanf"})' = 0
      /\ \A e \in Consumers : e # c => pc'[e] = pc[e] /\ pc'[e] \notin Critical
  BY <1>1, ConsumingMoves DEF Critical
<1>3. Taken' = Count + 1 /\ Count' = Count /\ Count \in Nat /\ Begun \in Nat /\ Begun <= Count + 1
  BY <1>1, ParseTakes, Numbers, FileFixed
<1>4. Producing(Inserting) = 0 /\ Begun = Count + 1
  BY <1>1, <1>3, FindsItem, ConsumerFrame
<1>5. pc[Producer] = "done" /\ pc'[Producer] = "done"
  <2>1. data[Producer] = End
    BY <1>3, <1>4, Numbers
  <2>2. pc[Producer] \notin Inserting
    BY <1>4 DEF Producing
  <2> QED
    BY <1>1, <2>1, <2>2, ConsumerFrame DEF ProducerInv
<1>6. inputCommands[command[c]] = End
  BY <1>3, FindsItem DEF Item
<1>7. parsed'[c].token = "x" /\ \A e \in Consumers \ {c} : parsed'[e].token # "x"
  BY <1>1, <1>6, Scan DEF Types, Queue, Texts
<1>8. c \in args.threads /\ pc'[c] = "free"
  BY <1>1 DEF ConsumerInv, Goto, Types, Threads
<1>9. executeCommand = 0 /\ prodpos = (Count + 1) % MAX_COMMANDS /\ conspos = (Count + 1) % MAX_COMMANDS
  <2>1. executeCommand = Begun - 0 - Taken - 1
    BY <1>2, <1>4 DEF Queue
  <2>2. Producing(Inserting \ {"post"}) = 0 /\ Begun - 0 = Count + 1
    BY <1>3, <1>4, <1>5, ProducingIs
  <2>3. prodpos = (Begun - 0) % MAX_COMMANDS
    BY <2>2 DEF Queue
  <2>4. conspos = (Taken + 1) % MAX_COMMANDS
    BY <1>2 DEF Queue
  <2> QED
    BY <1>3, <1>4, <2>1, <2>2, <2>3, <2>4
<1>10. Count + 1 + 0 = Count + 1
  BY <1>3
<1>11. \A e \in Consumers : pc'[e] # "sscanf"
  BY <1>2, <1>8 DEF Critical
<1>12. /\ executeCommand' + Consuming({"take", "sscanf"})' = Posted(c)'
       /\ prodpos' = (Count' + 1 + (IF pc'[c] \in {"post", "extra", "done"} THEN 1 ELSE 0)) % MAX_COMMANDS
       /\ conspos' = (Count' + 1 + Consuming({"sscanf"})') % MAX_COMMANDS
  BY <1>1, <1>2, <1>3, <1>8, <1>9, <1>10 DEF Posted
<1>13. \A e \in Consumers \ {c} : pc'[e] \notin {"free", "switch"}
  BY <1>2 DEF Critical
<1>14. OneEnded(c)'
  BY <1>3, <1>7, <1>8, <1>11, <1>12, <1>13 DEF OneEnded
<1> QED
  BY <1>1, <1>5, <1>6, <1>8, <1>14

\* The second "x" is the one the first consumer has put there.
LEMMA SecondEnd ==
  ASSUME Types, ConsumerInv, AtMostTwo, NEW e \in args.threads, OneEnded(e), NEW c \in Consumers, Parse(c)
  PROVE  inputCommands[command[c]] = End /\ AllEnded'
<1>1. /\ Goto(c, "sscanf", "free") /\ args' = args
      /\ parsed' = [parsed EXCEPT ![c] = sscanf(parsed[c], Text(inputCommands[command[c]]))]
  BY DEF Parse, Types
<1>2. e \in Consumers /\ c \in args.threads /\ c # e
  BY <1>1, PoolAssumption DEF Types, ConsumerInv, OneEnded, Goto, Ending, Inserting
<1>3. Consuming({"take", "sscanf"}) = 1
  BY <1>1, ConsumingMoves DEF Critical
<1>4. pc[e] \in {"extra", "done"}
  BY <1>3, Numbers DEF OneEnded, Posted
<1>5. inputCommands[command[c]] = End
  BY <1>1, <1>2, <1>4 DEF OneEnded, Goto
<1>6. parsed'[c].token = "x" /\ parsed'[e].token = "x"
  BY <1>1, <1>2, <1>5, Scan DEF Types, Texts, OneEnded
<1>7. \A d \in args'.threads : parsed'[d].token = "x"
  BY <1>1, <1>2, <1>6, TwoOnly DEF Types
<1>8. Taken' = Count + 2 /\ Count' = Count
  BY <1>1, ParseTakes, FileFixed, Numbers DEF OneEnded
<1> QED
  BY <1>5, <1>7, <1>8 DEF AllEnded

\* The steps that leave the ring to the others.
LEMMA CalmOneEnded ==
  ASSUME Types, [Next]_vars, NEW e \in args.threads, OneEnded(e),
         UNCHANGED <<ring, executeCommand, applied, command, parsed>>,
         pc'[e] = pc[e] \/ (pc[e] = "free" /\ pc'[e] = "switch") \/ (pc[e] = "switch" /\ pc'[e] = "semwait")
                        \/ (pc[e] = "semwait" /\ pc'[e] = "strcpy"),
         Consuming({"take", "sscanf"})' = Consuming({"take", "sscanf"}),
         Consuming({"sscanf"})' = Consuming({"sscanf"}),
         \A c \in Consumers \ {e} : /\ pc'[c] = "sscanf" => pc[c] = "sscanf"
                                    /\ pc'[c] \in {"free", "switch"} => pc[c] \in {"free", "switch"}
  PROVE  OneEnded(e)'
<1>1. Taken' = Taken /\ Count' = Count /\ e \in Consumers
  BY FileKept, PoolAssumption DEF Taken, Types
<1>2. /\ Posted(e)' = Posted(e)
      /\ pc'[e] \in {"post", "extra", "done"} <=> pc[e] \in {"post", "extra", "done"}
      /\ pc'[e] \in {"advance", "post", "extra", "done"} => pc[e] \in {"advance", "post", "extra", "done"}
      /\ pc'[e] = "sscanf" => pc[e] = "sscanf"
  BY DEF Posted
<1>3. UNCHANGED <<inputCommands, prodpos, conspos>>
  BY DEF ring
<1> QED
  BY <1>1, <1>2, <1>3 DEF OneEnded

\* The steps of the second consumer at the ring.
LEMMA WaitExecuteOneEnded ==
  ASSUME Types, ConsumerInv, NEW e \in args.threads, OneEnded(e), NEW c \in Consumers, WaitExecute(c)
  PROVE  OneEnded(e)'
<1>0. [Next]_vars
  BY Numbers DEF Next, ThreadStep, applyCommands
<1>1. /\ Goto(c, "wait", "take") /\ executeCommand' = executeCommand - 1
      /\ UNCHANGED <<args, inputCommands, prodpos, conspos, command, parsed, applied>>
  BY DEF WaitExecute, ring, locals
<1>2. e \in Consumers /\ c # e
  BY <1>1, PoolAssumption DEF Types, ConsumerInv, OneEnded, Goto, Ending, Inserting
<1>3. /\ Consuming({"take", "sscanf"}) = 0 /\ Consuming({"take", "sscanf"})' = 1
      /\ Consuming({"sscanf"}) = 0 /\ Consuming({"sscanf"})' = 0
      /\ \A d \in Consumers : d # c => pc'[d] = pc[d] /\ pc'[d] \notin Critical
  BY <1>1, ConsumingMoves DEF Critical
<1>4. pc'[c] = "take"
  BY <1>1, Numbers DEF Goto, Types
<1>5. /\ Taken' = Taken /\ Count' = Count /\ Posted(e)' = Posted(e) /\ pc'[e] = pc[e]
      /\ executeCommand \in Nat
  BY <1>0, <1>1, <1>2, <1>3, FileKept, Numbers DEF Taken, Posted
<1>6. executeCommand' + Consuming({"take", "sscanf"})' = Posted(e)'
  BY <1>1, <1>3, <1>5 DEF OneEnded
<1>7. \A d \in Consumers \ {e} : pc'[d] \notin {"free", "switch"} /\ pc'[d] # "sscanf"
  BY <1>3, <1>4 DEF Critical
<1>8. \A d \in Consumers : pc'[d] = "sscanf" => pc[d] = "sscanf"
  BY <1>5, <1>7
<1> QED
  BY <1>1, <1>3, <1>5, <1>6, <1>7, <1>8 DEF OneEnded

LEMMA TakeSlotOneEnded ==
  ASSUME Types, ConsumerInv, NEW e \in args.threads, OneEnded(e), NEW c \in Consumers, TakeSlot(c)
  PROVE  OneEnded(e)'
<1>0. [Next]_vars
  BY Numbers DEF Next, ThreadStep, applyCommands
<1>1. /\ Goto(c, "take", "sscanf") /\ conspos' = (conspos + 1) % MAX_COMMANDS
      /\ command' = [command EXCEPT ![c] = conspos]
      /\ UNCHANGED <<args, inputCommands, prodpos, executeCommand, parsed, applied>>
  BY DEF TakeSlot, sems
<1>2. e \in Consumers /\ c # e
  BY <1>1, PoolAssumption DEF Types, ConsumerInv, OneEnded, Goto, Ending, Inserting
<1>3. /\ Consuming({"take", "sscanf"}) = 1 /\ Consuming({"take", "sscanf"})' = 1
      /\ Consuming({"sscanf"}) = 0 /\ Consuming({"sscanf"})' = 1
      /\ \A d \in Consumers : d # c => pc'[d] = pc[d] /\ pc'[d] \notin Critical
  BY <1>1, ConsumingMoves DEF Critical
<1>4. pc'[c] = "sscanf"
  BY <1>1, Numbers DEF Goto, Types
<1>5. /\ Taken' = Taken /\ Count' = Count /\ Posted(e)' = Posted(e) /\ pc'[e] = pc[e]
      /\ Count \in Nat /\ MAX_COMMANDS \in Nat \ {0}
  BY <1>0, <1>1, <1>2, <1>3, FileKept, Numbers DEF Taken, Posted
<1>6. conspos = (Count + 1) % MAX_COMMANDS
  <2>1. Count + 1 + 0 = Count + 1
    BY <1>5
  <2> QED
    BY <1>3, <2>1 DEF OneEnded
<1>7. conspos' = (Count' + 1 + Consuming({"sscanf"})') % MAX_COMMANDS
  <2>1. (((Count + 1) % MAX_COMMANDS) + 1) % MAX_COMMANDS = (Count + 1 + 1) % MAX_COMMANDS
    <3>1. Count + 1 \in Nat
      BY <1>5
    <3> QED
      BY <1>5, <3>1, NextSlotOf
  <2> QED
    BY <1>1, <1>3, <1>5, <1>6, <2>1
<1>8. \A d \in Consumers : pc'[d] = "sscanf" => command'[d] = (Count' + 1) % MAX_COMMANDS
  <2>1. command'[c] = conspos
    BY <1>1 DEF Types
  <2> QED
    BY <1>3, <1>5, <1>6, <2>1 DEF Critical
<1>9. \A d \in Consumers \ {e} : pc'[d] \notin {"free", "switch"}
  BY <1>3, <1>4 DEF Critical
<1> QED
  BY <1>1, <1>3, <1>5, <1>7, <1>8, <1>9 DEF OneEnded

\* The steps of the first consumer while it puts the "x".
LEMMA PutsEnd ==
  ASSUME Types, ConsumerInv, NEW e \in args.threads, OneEnded(e),
         CopyIn(e) \/ Advance(e) \/ PostExecute(e) \/ ExtraPost(e)
  PROVE  OneEnded(e)'
<1>1. e \in Consumers /\ e \in Threads
  BY PoolAssumption, Numbers DEF Types
<1>0. [Next]_vars
  BY <1>1 DEF Next, ThreadStep, applyCommands, insertCommand
<1>2. PICK from \in {"strcpy", "advance", "post", "extra"}, to \in {"advance", "post", "extra", "done"} :
        /\ Goto(e, from, to)
        /\ from = "strcpy" => to = "advance" /\ CopyIn(e)
        /\ from = "advance" => to = "post" /\ Advance(e)
        /\ from = "post" => to = "extra" /\ PostExecute(e)
        /\ from = "extra" => to = "done" /\ ExtraPost(e)
  BY <1>1 DEF CopyIn, Advance, PostExecute, ExtraPost, AfterInsert
<1>3. /\ pc[e] = from /\ pc'[e] = to /\ \A c \in Consumers \ {e} : pc'[c] = pc[c]
  BY <1>1, <1>2 DEF Goto, Types, Threads
<1>4. /\ Consuming({"take", "sscanf"})' = Consuming({"take", "sscanf"})
      /\ Consuming({"sscanf"})' = Consuming({"sscanf"})
  BY <1>3, ConsumingKept DEF Holding
<1>5. /\ UNCHANGED <<applied, conspos, command, parsed>>
  BY DEF CopyIn, Advance, PostExecute, ExtraPost, ring, locals
<1>6. /\ Taken' = Taken /\ Count' = Count /\ Count \in Nat /\ MAX_COMMANDS \in Nat \ {0}
      /\ executeCommand \in Nat /\ Consuming({"take", "sscanf"}) \in {0, 1}
  BY <1>0, <1>5, FileKept, Numbers DEF Taken
<1>7. /\ from \in {"strcpy", "advance"} => executeCommand' = executeCommand
      /\ from \in {"post", "extra"} => executeCommand' = executeCommand + 1
      /\ from # "strcpy" => inputCommands' = inputCommands
      /\ from = "strcpy" => inputCommands' = [inputCommands EXCEPT ![prodpos] = data[e]]
      /\ from # "advance" => prodpos' = prodpos
      /\ from = "advance" => prodpos' = (prodpos + 1) % MAX_COMMANDS
  BY <1>2 DEF CopyIn, Advance, PostExecute, ExtraPost, sems, ring
<1>8. executeCommand' + Consuming({"take", "sscanf"})' = Posted(e)'
  <2>1. executeCommand + Consuming({"take", "sscanf"}) = Posted(e)
    BY DEF OneEnded
  <2>2. Posted(e) = (IF from = "extra" THEN 1 ELSE 0)
        /\ Posted(e)' = (IF to = "extra" THEN 1 ELSE IF to = "done" THEN 2 ELSE 0)
    BY <1>2, <1>3 DEF Posted
  <2> QED
    BY <1>2, <1>4, <1>6, <1>7, <2>1, <2>2
<1>9. prodpos' = (Count' + 1 + (IF pc'[e] \in {"post", "extra", "done"} THEN 1 ELSE 0)) % MAX_COMMANDS
  <2>1. CASE from = "advance"
    <3>1. Count + 1 + 0 = Count + 1 /\ Count + 1 \in Nat
      BY <1>6
    <3>2. prodpos = (Count + 1) % MAX_COMMANDS
      BY <1>3, <2>1, <3>1 DEF OneEnded
    <3>3. (((Count + 1) % MAX_COMMANDS) + 1) % MAX_COMMANDS = (Count + 1 + 1) % MAX_COMMANDS
      BY <1>6, <3>1, NextSlotOf
    <3> QED
      BY <1>2, <1>3, <1>6, <1>7, <2>1, <3>2, <3>3
  <2>2. CASE from # "advance"
    <3>1. pc[e] \in {"post", "extra", "done"} <=> pc'[e] \in {"post", "extra", "done"}
      BY <1>2, <1>3, <2>2
    <3> QED
      BY <1>6, <1>7, <2>2, <3>1 DEF OneEnded
  <2> QED
    BY <2>1, <2>2
<1>10. inputCommands'[(Count + 1) % MAX_COMMANDS] = End
  <2>1. CASE from = "strcpy"
    <3>1. data[e] = End /\ Count + 1 + 0 = Count + 1
      BY <1>1, <1>3, <1>6, <2>1 DEF ConsumerInv, Inserting
    <3>2. prodpos = (Count + 1) % MAX_COMMANDS
      BY <1>3, <2>1, <3>1 DEF OneEnded
    <3> QED
      BY <1>7, <2>1, <3>1, <3>2 DEF Types
  <2>2. CASE from # "strcpy"
    <3>1. inputCommands[(Count + 1) % MAX_COMMANDS] = End
      BY <1>2, <1>3, <2>2 DEF OneEnded
    <3> QED
      BY <1>7, <2>2, <3>1
  <2> QED
    BY <2>1, <2>2
<1>11. \A c \in Consumers : pc'[c] = "sscanf" => pc[c] = "sscanf"
  BY <1>3
<1> QED
  BY <1>3, <1>4, <1>5, <1>6, <1>8, <1>9, <1>10, <1>11 DEF OneEnded

LEMMA StepOneEnded ==
  ASSUME Types, ConsumerInv, NEW e \in args.threads, OneEnded(e), pc[Producer] = "done", [Next]_vars,
         UNCHANGED applied
  PROVE  pc'[Producer] = "done" /\ OneEnded(e)'
<1>0. /\ e \in Consumers /\ e \in Threads /\ Consumers \subseteq Threads /\ Producer \notin Consumers
      /\ parsed[e].token = "x" /\ pc[e] \in Ending
      /\ \A c \in Consumers \ {e} : parsed[c].token # "x"
  BY PoolAssumption, Numbers DEF Types, OneEnded, ConsumerInv
<1>1. ASSUME NEW c \in Consumers, NEW from, NEW to, from \notin Holding, to \notin Holding, Goto(c, from, to),
             UNCHANGED <<ring, executeCommand, command, parsed>>,
             IF c = e THEN \/ from = "switch" /\ to = "semwait"
                           \/ from = "semwait" /\ to = "strcpy"
                      ELSE to # "switch"
      PROVE  pc'[Producer] = "done" /\ OneEnded(e)'
  <2>1. pc[c] = from /\ pc'[c] = to /\ \A d \in Threads : d # c => pc'[d] = pc[d]
    BY <1>0, <1>1 DEF Goto, Types
  <2>2. /\ Consuming({"take", "sscanf"})' = Consuming({"take", "sscanf"})
        /\ Consuming({"sscanf"})' = Consuming({"sscanf"})
    BY <1>0, <1>1, GotoKeeps, ConsumingKept
  <2>3. \A d \in Consumers \ {e} : /\ pc'[d] = "sscanf" => pc[d] = "sscanf"
                                   /\ pc'[d] \in {"free", "switch"} => pc[d] \in {"free", "switch"}
    BY <1>0, <1>1, <2>1 DEF Holding
  <2>4. \/ pc'[e] = pc[e] \/ (pc[e] = "switch" /\ pc'[e] = "semwait")
        \/ (pc[e] = "semwait" /\ pc'[e] = "strcpy")
    BY <1>0, <1>1, <2>1
  <2>5. OneEnded(e)'
    BY <1>1, <2>2, <2>3, <2>4, CalmOneEnded
  <2> QED
    BY <1>0, <2>1, <2>5, Numbers
<1>2. CASE ReadLine \/ ReadEnd
  BY <1>2 DEF ReadLine, ReadEnd, Goto
<1>3. ASSUME NEW t \in Threads, insertCommand(t) PROVE pc'[Producer] = "done" /\ OneEnded(e)'
  <2>1. t = e
    <3>1. pc[t] \in Inserting
      BY <1>3 DEF insertCommand, WaitLoad, CopyIn, Advance, PostExecute, Goto, Inserting
    <3>2. t \in Consumers
      BY <3>1 DEF Threads, Inserting
    <3> QED
      BY <1>0, <3>1, <3>2 DEF ConsumerInv
  <2>2. CASE WaitLoad(t)
    BY <1>0, <1>1, <2>1, <2>2 DEF WaitLoad, Holding, locals
  <2>3. CASE CopyIn(t) \/ Advance(t) \/ PostExecute(t)
    <3>1. pc'[Producer] = pc[Producer]
      BY <1>0, <2>1, <2>3, Numbers DEF CopyIn, Advance, PostExecute, Goto, Types
    <3> QED
      BY <2>1, <2>3, <3>1, PutsEnd
  <2> QED
    BY <1>3, <2>2, <2>3 DEF insertCommand
<1>4. ASSUME NEW c \in Consumers, LockCommands(c) PROVE pc'[Producer] = "done" /\ OneEnded(e)'
  <2>1. c # e
    BY <1>0, <1>4 DEF LockCommands, Goto, Ending, Inserting
  <2> QED
    BY <1>1, <1>4, <2>1 DEF LockCommands, Holding, locals, sems
<1>5. ASSUME NEW c \in Consumers, WaitExecute(c) \/ TakeSlot(c) PROVE pc'[Producer] = "done" /\ OneEnded(e)'
  <2>1. pc'[Producer] = pc[Producer]
    BY <1>0, <1>5, Numbers DEF WaitExecute, TakeSlot, Goto, Types
  <2> QED
    BY <1>5, <2>1, WaitExecuteOneEnded, TakeSlotOneEnded
<1>6. ASSUME NEW c \in Consumers, Parse(c) PROVE FALSE
  BY <1>6, ParseTakes, Numbers DEF Taken
<1>7. ASSUME NEW c \in Consumers, FreeSlot(c) PROVE pc'[Producer] = "done" /\ OneEnded(e)'
  <2>1. c = e
    BY <1>7 DEF FreeSlot, Goto, OneEnded
  <2>2. Goto(e, "free", "switch") /\ UNCHANGED <<ring, executeCommand, command, parsed>>
    BY <1>7, <2>1 DEF FreeSlot, locals
  <2>3. /\ Consuming({"take", "sscanf"})' = Consuming({"take", "sscanf"})
        /\ Consuming({"sscanf"})' = Consuming({"sscanf"})
        /\ \A d \in Consumers : d # e => pc'[d] = pc[d]
    BY <1>0, <2>2, ConsumingMoves DEF Critical
  <2>4. pc[e] = "free" /\ pc'[e] = "switch" /\ pc'[Producer] = pc[Producer]
    BY <1>0, <2>2, Numbers DEF Goto, Types
  <2>5. OneEnded(e)'
    BY <2>2, <2>3, <2>4, CalmOneEnded
  <2> QED
    BY <2>4, <2>5
<1>8. ASSUME NEW c \in Consumers, Switch(c) PROVE pc'[Producer] = "done" /\ OneEnded(e)'
  <2>1. c = e
    <3>1. pc[c] = "switch"
      BY <1>8 DEF Switch, DoCreate, DoLookup, DoDelete, DoRename, DoEnd, DoFail, Start, Goto
    <3> QED
      BY <3>1 DEF OneEnded
  <2>2. DoEnd(c)
    BY <1>0, <1>8, <2>1 DEF Switch, DoCreate, DoLookup, DoDelete, DoRename, DoEnd, DoFail
  <2> QED
    BY <1>0, <1>1, <2>1, <2>2 DEF DoEnd, Holding, sems, locals
<1>9. ASSUME NEW c \in Consumers, LookupNew(c) \/ RemoveOld(c) \/ KeepOld(c) \/ CreateNew(c) \/ Applied(c)
      PROVE pc'[Producer] = "done" /\ OneEnded(e)'
  <2>1. PICK from \in InCall, to \in InCall \cup {"lock"} : Goto(c, from, to)
    BY <1>9 DEF LookupNew, RemoveOld, KeepOld, CreateNew, Applied, Returned, InCall
  <2>2. c # e
    BY <1>0, <2>1 DEF Goto, Ending, Inserting, InCall
  <2>3. UNCHANGED <<ring, executeCommand, command, parsed>>
    BY <1>9 DEF LookupNew, RemoveOld, KeepOld, CreateNew, Applied, Returned, sems
  <2> QED
    BY <1>1, <2>1, <2>2, <2>3 DEF InCall, Holding
<1>10. ASSUME NEW c \in Consumers, ExtraPost(c) PROVE pc'[Producer] = "done" /\ OneEnded(e)'
  <2>1. c = e
    BY <1>0, <1>10 DEF ExtraPost, Goto, ConsumerInv
  <2>2. pc'[Producer] = pc[Producer]
    BY <1>0, <1>10, Numbers DEF ExtraPost, Goto, Types
  <2> QED
    BY <1>10, <2>1, <2>2, PutsEnd
<1>11. CASE (\E c \in Consumers : InDirectory(c)) \/ Join \/ Exited \/ UNCHANGED vars
  <2>1. UNCHANGED <<pc, ring, executeCommand, command, parsed>>
    BY <1>11 DEF InDirectory, Join, Exited, vars, locals, sems
  <2>2. OneEnded(e)'
    BY <2>1, ConsumingKept, CalmOneEnded
  <2> QED
    BY <2>1, <2>2
<1> QED
  BY <1>2, <1>3, <1>4, <1>5, <1>6, <1>7, <1>8, <1>9, <1>10, <1>11 DEF Next, ThreadStep, applyCommands

\* When both have read "x" nobody reads any more.
LEMMA StepAllEnded ==
  ASSUME Types, ConsumerInv, AllEnded, pc[Producer] = "done", [Next]_vars
  PROVE  pc'[Producer] = "done" /\ AllEnded' /\ UNCHANGED applied
<1>1. ASSUME NEW c \in Consumers, Parse(c) PROVE FALSE
  <2>1. pc[c] = "sscanf"
    BY <1>1 DEF Parse, Goto
  <2>2. c \in args.threads
    BY <2>1 DEF ConsumerInv
  <2> QED
    BY <2>1, <2>2 DEF AllEnded, ConsumerInv, Ending, Inserting
<1>2. UNCHANGED <<parsed, applied>>
  BY <1>1, OnlyParseReads
<1>3. AllEnded'
  BY <1>2, FileKept DEF AllEnded, Taken
<1>4. pc'[Producer] = "done"
  <2> USE Numbers DEF Types, Goto
  <2>1. ASSUME NEW t \in Threads, insertCommand(t) PROVE pc'[Producer] = pc[Producer]
    BY <2>1 DEF insertCommand, WaitLoad, CopyIn, Advance, PostExecute
  <2>2. ASSUME NEW c \in Consumers, applyCommands(c) PROVE pc'[Producer] = pc[Producer]
    <3>1. CASE Switch(c)
      BY <3>1 DEF Switch, DoCreate, DoLookup, DoDelete, DoRename, DoEnd, DoFail, Start
    <3> QED
      BY <2>2, <3>1 DEF applyCommands, LockCommands, WaitExecute, TakeSlot, Parse, FreeSlot,
                        LookupNew, RemoveOld, KeepOld, CreateNew, Applied, ExtraPost, Returned
  <2> QED
    BY <2>1, <2>2 DEF Next, ThreadStep, ReadLine, ReadEnd, InDirectory, Join, Exited, vars
<1> QED
  BY <1>2, <1>3, <1>4

\* The end of the ring, and what was read there.
LEMMA StepEndInv ==
  ASSUME Types, ConsumerInv, ProducerInv, RingInv, EndInv, Delivered, FileOrder, [Next]_vars
  PROVE  EndInv' /\ FileOrder'
<1> SUFFICES ASSUME AtMostTwo PROVE EndInv' /\ FileOrder'
  BY ArgsFixed, FileFixed DEF EndInv, FileOrder
<1>0. /\ AtMostTwo' = AtMostTwo /\ args' = args /\ Count' = Count /\ \A k : Item(k)' = Item(k)
      /\ Taken \in Nat /\ Count \in Nat /\ DOMAIN applied = 1 .. Taken
  BY FileKept, FileFixed, Numbers DEF Taken, AtMostTwo, Types
<1>1. ASSUME NEW c \in Consumers, Parse(c), inputCommands[command[c]] = Item(Taken + 1) PROVE FileOrder'
  <2> SUFFICES ASSUME NEW i \in DOMAIN applied' PROVE applied'[i] = Item(i)
    BY <1>0 DEF FileOrder
  <2>1. i \in 1 .. Taken + 1
    BY <1>1, ParseTakes
  <2>2. CASE i = Taken + 1
    BY <1>1, <2>2, ParseTakes
  <2>3. CASE i \in 1 .. Taken
    BY <1>0, <1>1, <2>3, ParseTakes DEF FileOrder
  <2> QED
    BY <1>0, <2>1, <2>2, <2>3
<1>2. UNCHANGED applied => FileOrder'
  BY <1>0 DEF FileOrder
<1>3. CASE Taken <= Count
  <2>1. ASSUME NEW c \in Consumers, Parse(c) PROVE EndInv' /\ FileOrder'
    <3>1. inputCommands[command[c]] = Item(Taken + 1)
      BY <1>3, <2>1, FindsItem DEF RingInv
    <3>2. CASE Taken = Count
      BY <1>1, <1>3, <2>1, <3>1, <3>2, FirstEnd DEF RingInv, EndInv
    <3>3. CASE Taken < Count
      <4>1. Taken' = Taken + 1
        BY <2>1, ParseTakes
      <4> QED
        BY <1>0, <1>1, <2>1, <3>1, <3>3, <4>1 DEF EndInv
    <3> QED
      BY <1>0, <1>3, <3>2, <3>3
  <2>2. CASE UNCHANGED applied
    BY <1>0, <1>2, <1>3, <2>2 DEF EndInv, Taken
  <2> QED
    BY <2>1, <2>2, OnlyParseReads
<1>4. CASE Taken > Count /\ AllEnded
  BY <1>0, <1>2, <1>4, StepAllEnded DEF EndInv
<1>5. CASE Taken > Count /\ ~AllEnded
  <2>1. PICK e \in args.threads : OneEnded(e)
    BY <1>5 DEF EndInv
  <2>2. pc[Producer] = "done" /\ Taken = Count + 1
    BY <1>5, <2>1 DEF EndInv, OneEnded
  <2>3. ASSUME NEW c \in Consumers, Parse(c) PROVE EndInv' /\ FileOrder'
    <3>1. inputCommands[command[c]] = Item(Taken + 1) /\ AllEnded'
      BY <1>0, <2>1, <2>2, <2>3, SecondEnd DEF Item
    <3>2. pc'[Producer] = "done"
      BY <2>2, <2>3, Numbers DEF Parse, Goto, Types
    <3> QED
      BY <1>1, <2>3, <3>1, <3>2 DEF EndInv
  <2>4. CASE UNCHANGED applied
    BY <1>0, <1>2, <2>1, <2>2, <2>4, StepOneEnded DEF EndInv
  <2> QED
    BY <2>3, <2>4, OnlyParseReads
<1> QED
  BY <1>0, <1>3, <1>4, <1>5

-----------------------------------------------------------------------------
\* With two consumers the ring ends as it should.
Ordered == Ringing /\ EndInv /\ FileOrder

LEMMA InitOrdered == Init => Ordered
<1> SUFFICES ASSUME Init PROVE Ordered
  OBVIOUS
<1>1. Ringing
  BY InitRinging
<1>2. Count \in Nat /\ Taken = 0
  BY <1>1, Numbers DEF Init, Taken, Ringing, Calling
<1>3. EndInv
  BY <1>2 DEF EndInv
<1>4. FileOrder
  BY DEF Init, FileOrder
<1> QED
  BY <1>1, <1>3, <1>4 DEF Ordered

LEMMA StepOrdered == Ordered /\ [Next]_vars => Ordered'
BY StepRinging, StepEndInv DEF Ordered, Ringing, Calling

\* Until the last consumer reads "x" the ring hands every command to exactly
\* one consumer, in the order of the file (insertCommand, removeCommand): so it
\* is with two consumers, a ring of any size and any file.
THEOREM PoolFileOrder == Spec => []FileOrder
<1>1. Ordered => FileOrder
  BY DEF Ordered
<1> QED
  BY <1>1, InitOrdered, StepOrdered, PTL DEF Spec

=============================================================================
