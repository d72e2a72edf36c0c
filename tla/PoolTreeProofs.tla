--------------------------- MODULE PoolTreeProofs ---------------------------
(***************************************************************************)
(* Proofs about what the consumers of the command pool make of the file:   *)
(* the i-numbers they give, the names these are found under, and the tree  *)
(* that is left when the program ends.                                     *)
(***************************************************************************)
EXTENDS PoolRingProofs, WellFoundedInduction

(***************************************************************************)
(* The steps by what they do to the creates that were read.                *)
(***************************************************************************)
Due == {"free", "switch"}

\* A step that gives no i-number and reads nothing; a consumer that has read a
\* create stays where it is until it gets its number.
NoNumber ==
  /\ UNCHANGED <<nextINumber, applied, parsed>>
  /\ \A c \in Consumers : /\ pc'[c] \in Due => pc[c] \in Due
                          /\ pc[c] \in Due /\ parsed[c].token = "c" => pc'[c] \in Due

LEMMA NumberKinds ==
  ASSUME Types, [Next]_vars
  PROVE  NoNumber \/ \E c \in Consumers : Parse(c) \/ DoCreate(c)
<1>0. Consumers \subseteq Threads /\ Producer \notin Consumers /\ pc \in [Threads -> Places]
  BY PoolAssumption DEF Types, Threads
<1>1. ASSUME NEW t \in Threads, NEW from, NEW to, Goto(t, from, to), UNCHANGED <<nextINumber, applied, parsed>>,
             to \in Due => from \in Due,
             from \in Due /\ t \in Consumers => to \in Due \/ parsed[t].token # "c"
      PROVE  NoNumber
  BY <1>0, <1>1 DEF NoNumber, Goto
<1>2. CASE ReadLine \/ ReadEnd
  <2>1. \E to \in {"read", "semwait", "done"} : Goto(Producer, "read", to)
    BY <1>2 DEF ReadLine, ReadEnd
  <2> QED
    BY <1>1, <1>2, <2>1 DEF ReadLine, ReadEnd, Due, Threads, locals
<1>3. ASSUME NEW t \in Threads, insertCommand(t) PROVE NoNumber
  <2>1. \E from \in Inserting : \E to \in Inserting \cup {"extra", "done", "read"} : Goto(t, from, to)
    BY <1>3 DEF insertCommand, WaitLoad, CopyIn, Advance, PostExecute, AfterInsert, Inserting
  <2>2. UNCHANGED <<nextINumber, applied, parsed>>
    BY <1>3 DEF insertCommand, WaitLoad, CopyIn, Advance, PostExecute, locals
  <2> QED
    BY <1>1, <2>1, <2>2 DEF Inserting, Due
<1>4. ASSUME NEW c \in Consumers,
             \/ LockCommands(c) \/ WaitExecute(c) \/ TakeSlot(c) \/ ExtraPost(c)
             \/ LookupNew(c) \/ RemoveOld(c) \/ KeepOld(c) \/ CreateNew(c) \/ Applied(c)
      PROVE  NoNumber
  <2>1. \E from \in InCall \cup {"lock", "wait", "take", "extra"} :
          \E to \in InCall \cup {"lock", "wait", "take", "sscanf", "done"} : Goto(c, from, to)
    BY <1>4 DEF LockCommands, WaitExecute, TakeSlot, ExtraPost, LookupNew, RemoveOld, KeepOld, CreateNew,
                Applied, Returned, InCall
  <2>2. UNCHANGED <<nextINumber, applied, parsed>>
    BY <1>4 DEF LockCommands, WaitExecute, TakeSlot, ExtraPost, LookupNew, RemoveOld, KeepOld, CreateNew,
                Applied, Returned, locals
  <2> QED
    BY <1>0, <1>1, <2>1, <2>2 DEF InCall, Due
<1>5. ASSUME NEW c \in Consumers, FreeSlot(c) PROVE NoNumber
  BY <1>0, <1>1, <1>5 DEF FreeSlot, Due, locals
<1>6. ASSUME NEW c \in Consumers, DoLookup(c) \/ DoDelete(c) \/ DoRename(c) \/ DoEnd(c) \/ DoFail(c)
      PROVE  NoNumber
  <2>1. \E to : Goto(c, "switch", to)
    BY <1>6 DEF DoLookup, DoDelete, DoRename, DoEnd, DoFail, Start
  <2>2. UNCHANGED <<nextINumber, applied, parsed>> /\ parsed[c].token # "c"
    BY <1>6 DEF DoLookup, DoDelete, DoRename, DoEnd, DoFail, Start, locals
  <2>3. PICK to : Goto(c, "switch", to)
    BY <2>1
  <2>4. to \notin Due
    BY <1>6, <2>3, <1>0 DEF DoLookup, DoDelete, DoRename, DoEnd, DoFail, Start, Goto, Due
  <2> QED
    BY <1>0, <1>1, <2>2, <2>3, <2>4 DEF Due
<1>7. CASE (\E c \in Consumers : InDirectory(c)) \/ Join \/ Exited \/ UNCHANGED vars
  BY <1>7 DEF InDirectory, Join, Exited, vars, NoNumber, locals
<1> QED
  BY <1>2, <1>3, <1>4, <1>5, <1>6, <1>7 DEF Next, ThreadStep, applyCommands, Switch

(***************************************************************************)
(* The i-numbers.                                                          *)
(***************************************************************************)
\* The consumer that holds commandsLock is the only one with a number due.
LEMMA OneDue ==
  ASSUME Types, ConsumerInv, NEW c \in Consumers, NEW from \in Critical, NEW to, Goto(c, from, to)
  PROVE  \A e \in Consumers : e # c => pc'[e] = pc[e] /\ pc[e] \notin Due
BY ConsumingMoves DEF Due, Critical, Goto

\* What was read last.
LEMMA LastRead ==
  ASSUME Ordered, Ordered', NEW c \in Consumers, Parse(c)
  PROVE  /\ Taken' = Taken + 1 /\ Taken \in Nat /\ Count \in Nat
         /\ Taken + 1 <= Count =>
              /\ Commands[Taken + 1] \in CommandLines /\ Place(Commands[Taken + 1]) = Taken + 1
              /\ parsed'[c].token = Script[Commands[Taken + 1]].token
              /\ parsed'[c].name = Script[Commands[Taken + 1]].name
              /\ Script[Commands[Taken + 1]].token = "r" =>
                   parsed'[c].newName = Script[Commands[Taken + 1]].newName
         /\ AtMostTwo /\ Taken + 1 > Count => parsed'[c].token = "x"
         /\ \A e \in Consumers : e # c => parsed'[e] = parsed[e]
<1> USE DEF Ordered, Ringing, Calling
<1>1. /\ Taken' = Taken + 1 /\ DOMAIN applied' = 1 .. Taken + 1
      /\ applied'[Taken + 1] = inputCommands[command[c]]
  BY ParseTakes
<1>2. /\ Taken \in Nat /\ Count \in Nat /\ Count' = Count /\ Commands' = Commands /\ AtMostTwo' = AtMostTwo
      /\ args \in Arguments /\ \A k : Item(k)' = Item(k)
  BY Numbers, FileFixed DEF Types, Parse, Item
<1>3. /\ inputCommands[command[c]] \in Texts /\ parsed[c] \in Scans
      /\ parsed' = [parsed EXCEPT ![c] = sscanf(parsed[c], Text(inputCommands[command[c]]))]
      /\ parsed \in [Consumers -> Scans]
  BY DEF Types, Parse
<1>4. parsed'[c] = sscanf(parsed[c], Text(inputCommands[command[c]]))
  BY <1>3
<1>5. ASSUME Taken + 1 <= Count
      PROVE  /\ Commands[Taken + 1] \in CommandLines /\ Place(Commands[Taken + 1]) = Taken + 1
             /\ inputCommands[command[c]] = Commands[Taken + 1]
  <2>1. Taken + 1 \in 1 .. Count
    BY <1>2, <1>5
  <2>2. applied'[Taken + 1] = Commands[Taken + 1]
    BY <1>1, <1>2, <2>1 DEF Delivered
  <2> QED
    BY <1>1, <1>2, <2>1, <2>2, CommandAt
<1>6. ASSUME AtMostTwo, Taken + 1 > Count PROVE inputCommands[command[c]] = End
  <2>1. applied'[Taken + 1] = Item(Taken + 1)
    BY <1>1, <1>2, <1>6 DEF FileOrder
  <2> QED
    BY <1>1, <1>2, <1>6, <2>1 DEF Item
<1>7. \A e \in Consumers : e # c => parsed'[e] = parsed[e]
  BY <1>3
<1> QED
  BY <1>1, <1>2, <1>3, <1>4, <1>5, <1>6, <1>7, Scan

LEMMA InitNumberInv == Init => NumberInv
<1> SUFFICES ASSUME Init PROVE NumberInv
  OBVIOUS
<1>1. Taken = 0 /\ nextINumber = 0 /\ args \in Arguments
  BY DEF Init, Taken
<1>2. \A c \in Consumers : pc[c] \notin Due
  BY PoolAssumption DEF Init, Due, Threads
<1>3. CreatesRead = {}
  BY <1>1, PlaceOne, FiniteCommands DEF CreatesRead
<1>4. ~CreateDue
  BY <1>2 DEF CreateDue, Due
<1> QED
  BY <1>1, <1>2, <1>3, <1>4, FS_EmptySet DEF NumberInv, Due

\* The creates that were read, after one more command was.
LEMMA CreatesReadGrow ==
  ASSUME args \in Arguments, args' = args, Taken \in Nat, Taken' = Taken + 1
  PROVE  CreatesRead' = IF Taken + 1 <= Count /\ Script[Commands[Taken + 1]].token = "c"
                        THEN CreatesRead \cup {Commands[Taken + 1]} ELSE CreatesRead
<1>1. /\ \A i \in CommandLines : Place(i) \in 1 .. Count /\ Place(i)' = Place(i)
      /\ CommandLines' = CommandLines /\ Script' = Script /\ Count \in Nat
  BY PlaceOne, FileFixed, FiniteCommands DEF Place
<1>2. CreatesRead' = {i \in CommandLines : Place(i) <= Taken + 1 /\ Script[i].token = "c"}
  BY <1>1 DEF CreatesRead
<1>3. CASE Taken + 1 <= Count
  <2>1. Commands[Taken + 1] \in CommandLines /\ Place(Commands[Taken + 1]) = Taken + 1
    BY <1>1, <1>3, CommandAt
  <2>2. \A i \in CommandLines : Place(i) <= Taken + 1 <=> Place(i) <= Taken \/ i = Commands[Taken + 1]
    BY <1>1, <2>1, PlaceInjective
  <2> QED
    BY <1>2, <1>3, <2>1, <2>2 DEF CreatesRead
<1>4. CASE ~(Taken + 1 <= Count)
  <2>1. \A i \in CommandLines : Place(i) <= Taken + 1 <=> Place(i) <= Taken
    BY <1>1, <1>4
  <2> QED
    BY <1>2, <1>4, <2>1 DEF CreatesRead
<1> QED
  BY <1>3, <1>4

LEMMA StepNumberInv ==
  ASSUME Ordered, Ordered', NumberInv, [Next]_vars
  PROVE  NumberInv'
<1> USE DEF Ordered, Ringing, Calling
<1>0. /\ args' = args /\ args \in Arguments /\ Taken \in Nat /\ Count \in Nat /\ Count' = Count
      /\ AtMostTwo' = AtMostTwo /\ Script' = Script /\ Commands' = Commands /\ nextINumber \in Nat
      /\ Consumers \subseteq Threads /\ pc \in [Threads -> Places]
  BY ArgsFixed, FileFixed, Numbers DEF Types
<1>1. IsFiniteSet(CreatesRead) /\ Cardinality(CreatesRead) \in Nat
  BY <1>0, FiniteCommands DEF CreatesRead
<1>2. ASSUME NoNumber PROVE NumberInv'
  <2>1. CreatesRead' = CreatesRead /\ Taken' = Taken
    BY <1>0, <1>2, FileFixed DEF NoNumber, CreatesRead, Taken, Place
  <2>2. CreateDue' <=> CreateDue
    BY <1>2 DEF NoNumber, CreateDue, Due
  <2> QED
    BY <1>0, <1>2, <2>1, <2>2 DEF NumberInv, NoNumber, Due, Reads
<1>3. ASSUME NEW c \in Consumers, Parse(c) PROVE NumberInv'
  <2>1. /\ Goto(c, "sscanf", "free") /\ nextINumber' = nextINumber /\ pc'[c] = "free"
        /\ pc[c] \notin Due
    BY <1>0, <1>3 DEF Parse, Goto, Due
  <2>2. \A e \in Consumers : e # c => pc'[e] = pc[e] /\ pc[e] \notin Due
    BY <2>1, OneDue DEF Critical
  <2>3. ~CreateDue /\ (CreateDue' <=> parsed'[c].token = "c")
    BY <2>1, <2>2 DEF CreateDue, Due
  <2>4. /\ Taken' = Taken + 1
        /\ CreatesRead' = IF Taken + 1 <= Count /\ Script[Commands[Taken + 1]].token = "c"
                          THEN CreatesRead \cup {Commands[Taken + 1]} ELSE CreatesRead
    BY <1>0, <1>3, LastRead, CreatesReadGrow
  <2> SUFFICES ASSUME AtMostTwo \/ Taken + 1 <= Count PROVE NumberInv'
    BY <1>0, <2>4 DEF NumberInv
  <2>5. nextINumber = Cardinality(CreatesRead)
    BY <1>0, <1>1, <2>3 DEF NumberInv
  <2>6. CASE Taken + 1 <= Count
    <3>1. /\ Commands[Taken + 1] \notin CreatesRead
          /\ parsed'[c].token = Script[Commands[Taken + 1]].token
          /\ parsed'[c].name = Script[Commands[Taken + 1]].name
          /\ Script[Commands[Taken + 1]].token = "r" =>
               parsed'[c].newName = Script[Commands[Taken + 1]].newName
      BY <1>0, <1>3, <2>6, LastRead DEF CreatesRead
    <3>2. Cardinality(CreatesRead \cup {Commands[Taken + 1]}) = Cardinality(CreatesRead) + 1
      BY <1>1, <3>1, FS_AddElement
    <3>3. nextINumber' + (IF CreateDue' THEN 1 ELSE 0) = Cardinality(CreatesRead')
      BY <1>0, <1>1, <2>1, <2>3, <2>4, <2>5, <2>6, <3>1, <3>2
    <3>4. Reads(c, Script[Commands[Taken]])'
      BY <1>0, <2>4, <3>1 DEF Reads
    <3> QED
      BY <1>0, <2>1, <2>2, <2>4, <2>6, <3>3, <3>4 DEF NumberInv, Due
  <2>7. CASE ~(Taken + 1 <= Count)
    <3>1. parsed'[c].token = "x"
      BY <1>0, <1>3, <2>7, LastRead
    <3>2. nextINumber' + (IF CreateDue' THEN 1 ELSE 0) = Cardinality(CreatesRead')
      BY <1>0, <1>1, <2>1, <2>3, <2>4, <2>5, <2>7, <3>1
    <3> QED
      BY <1>0, <2>1, <2>2, <2>4, <2>7, <3>1, <3>2 DEF NumberInv, Due
  <2> QED
    BY <2>6, <2>7
<1>4. ASSUME NEW c \in Consumers, DoCreate(c) PROVE NumberInv'
  <2>1. /\ Goto(c, "switch", "apply") /\ nextINumber' = nextINumber + 1 /\ parsed[c].token = "c"
        /\ UNCHANGED <<applied, parsed>>
    BY <1>4 DEF DoCreate, Start, obtainNewInumber, locals
  <2>2. pc[c] = "switch" /\ pc'[c] = "apply"
    BY <1>0, <2>1 DEF Goto
  <2>3. \A e \in Consumers : e # c => pc'[e] = pc[e] /\ pc[e] \notin Due
    BY <2>1, OneDue DEF Critical
  <2>4. CreateDue /\ ~CreateDue'
    BY <2>1, <2>2, <2>3 DEF CreateDue, Due
  <2>5. CreatesRead' = CreatesRead /\ Taken' = Taken
    BY <1>0, <2>1, FileFixed DEF CreatesRead, Taken, Place
  <2>6. AtMostTwo \/ Taken <= Count =>
          nextINumber' + (IF CreateDue' THEN 1 ELSE 0) = Cardinality(CreatesRead')
    BY <1>0, <1>1, <2>1, <2>4, <2>5 DEF NumberInv
  <2> QED
    BY <1>0, <2>2, <2>3, <2>5, <2>6 DEF NumberInv, Due
<1> QED
  BY <1>2, <1>3, <1>4, NumberKinds

Numbered == Ordered /\ NumberInv

LEMMA InitNumbered == Init => Numbered
BY InitOrdered, InitNumberInv DEF Numbered

LEMMA StepNumbered == Numbered /\ [Next]_vars => Numbered'
BY StepOrdered, StepNumberInv DEF Numbered

\* The rank of the command that was read last is the number of creates read.
LEMMA RankRead ==
  ASSUME args \in Arguments, Taken \in 1 .. Count
  PROVE  Commands[Taken] \in CommandLines /\ Rank(Commands[Taken]) = Cardinality(CreatesRead)
<1>1. Commands[Taken] \in CommandLines /\ Place(Commands[Taken]) = Taken
  BY CommandAt
<1>2. \A i \in CommandLines : i <= Commands[Taken] <=> Place(i) <= Taken
  <2> SUFFICES ASSUME NEW i \in CommandLines PROVE i <= Commands[Taken] <=> Place(i) <= Taken
    OBVIOUS
  <2>1. i \in Nat /\ Commands[Taken] \in Nat /\ Place(i) \in Nat /\ Taken \in Nat
    BY <1>1, FiniteCommands, FileLength, PlaceRange
  <2>2. i < Commands[Taken] => Place(i) < Taken
    BY <1>1, PlaceGrows
  <2>3. Commands[Taken] < i => Taken < Place(i)
    BY <1>1, PlaceGrows
  <2> QED
    BY <1>1, <2>1, <2>2, <2>3
<1> QED
  BY <1>1, <1>2 DEF Rank, CreatesRead

\* The number that a create is given.
LEMMA NumberGiven ==
  ASSUME Numbered, AtMostTwo, NEW c \in Consumers, pc[c] = "switch", parsed[c].token = "c"
  PROVE  /\ Taken \in 1 .. Count /\ Commands[Taken] \in CommandLines
         /\ Script[Commands[Taken]].token = "c" /\ Script[Commands[Taken]].name = parsed[c].name
         /\ Rank(Commands[Taken]) = nextINumber + 1
<1> USE DEF Numbered, Ordered, Ringing, Calling
<1>1. Taken \in Nat /\ Count \in Nat /\ args \in Arguments /\ nextINumber \in Nat
  BY Numbers DEF Types
<1>2. Taken \in 1 .. Count /\ Reads(c, Script[Commands[Taken]])
  BY <1>1 DEF NumberInv
<1>3. CreateDue
  BY DEF CreateDue
<1>4. nextINumber + 1 = Cardinality(CreatesRead)
  BY <1>3 DEF NumberInv
<1> QED
  BY <1>1, <1>2, <1>4, RankRead DEF Reads

LEMMA RankKept == ASSUME args' = args PROVE \A i : Rank(i)' = Rank(i)
BY FileFixed DEF Rank

LEMMA StepINumbers ==
  ASSUME Numbered, INumbersFollowFile, [Next]_vars
  PROVE  INumbersFollowFile'
<1> USE DEF Numbered, Ordered, Ringing, Calling
<1>0. /\ args' = args /\ AtMostTwo' = AtMostTwo /\ CommandLines' = CommandLines /\ Script' = Script
      /\ \A i : Rank(i)' = Rank(i)
  BY ArgsFixed, FileFixed, RankKept
<1>1. CASE Quiet
  BY <1>0, <1>1 DEF Quiet, dir, INumbersFollowFile
<1>2. ASSUME NEW c \in Consumers, Calls(c) PROVE INumbersFollowFile'
  <2>1. \A e \in Consumers : e # c => at'[e] = at[e] /\ call'[e] = call[e] /\ pc'[e] = pc[e]
    BY <1>2, CalledMoves DEF Calls
  <2>2. parsed' = parsed
    BY <1>2 DEF Calls, Called
  <2>3. CASE /\ pc[c] = "switch" /\ parsed[c].token = "c" /\ obtainNewInumber
             /\ Called(c, Dir!Create(parsed[c].name, nextINumber'), "apply")
    <3>1. call'[c] = Dir!Create(parsed[c].name, nextINumber + 1)
      BY <2>3, CalledMoves DEF obtainNewInumber
    <3>2. call'[c].name = parsed[c].name /\ call'[c].inumber = nextINumber + 1
      BY <3>1 DEF Dir!Create
    <3>3. AtMostTwo => \E i \in CommandLines : /\ Script[i].token = "c" /\ Script[i].name = call'[c].name
                                               /\ Rank(i) = call'[c].inumber
      BY <2>3, <3>2, NumberGiven
    <3> QED
      BY <1>0, <2>1, <2>2, <3>3 DEF INumbersFollowFile
  <2>4. CASE parsed[c].token # "c"
    BY <1>0, <2>1, <2>2, <2>4 DEF INumbersFollowFile
  <2>5. LookupNew(c) \/ RemoveOld(c) \/ CreateNew(c) => parsed[c].token = "r"
    BY DEF LookupNew, RemoveOld, CreateNew, Returned, Goto, ConsumerInv, InRename
  <2> QED
    BY <1>2, <2>3, <2>4, <2>5 DEF Calls
<1>3. ASSUME NEW c \in Consumers, InDirectory(c) PROVE INumbersFollowFile'
  BY <1>0, <1>3, InDirectoryMoves DEF INumbersFollowFile
<1> QED
  BY <1>1, <1>2, <1>3, StepKinds

Given == Numbered /\ INumbersFollowFile

LEMMA InitGiven == Init => Given
BY InitNumbered DEF Given, Init, Dir!Init, INumbersFollowFile

LEMMA StepGiven == Given /\ [Next]_vars => Given'
BY StepNumbered, StepINumbers DEF Given

\* Two consumers give every create its rank among the creates of the file
\* (obtainNewInumber, called under commandsLock), whatever the file and
\* however they interleave.
THEOREM PoolINumbersFollowFile == Spec => []INumbersFollowFile
<1>1. Given => INumbersFollowFile
  BY DEF Given
<1> QED
  BY <1>1, InitGiven, StepGiven, PTL DEF Spec

(***************************************************************************)
(* Where an i-number may be found.                                         *)
(***************************************************************************)
LEMMA OriginKept == ASSUME args' = args PROVE \A v, n : Origin(v, n)' = Origin(v, n)
BY FileFixed, RankKept DEF Origin, Leads, Closed

\* A file is found under the name it was created for, and a rename leads on.
LEMMA OriginCreated ==
  ASSUME NEW i \in CommandLines, Script[i].token = "c"
  PROVE  Origin(Rank(i), Script[i].name)
BY DEF Origin, Leads

LEMMA OriginRenamed ==
  ASSUME NEW v, NEW i \in CommandLines, Script[i].token = "r", Origin(v, Script[i].name)
  PROVE  Origin(v, Script[i].newName)
BY DEF Origin, Leads, Closed

\* The parts of OriginInv.
OriginStored == \A b \in Dir!Indices, n \in Names : bstRoot[b][n] # 0 => Origin(bstRoot[b][n], n)
OriginCalled(c) == at[c] # "idle" /\ call[c].op = "create" => Origin(call[c].inumber, call[c].name)
OriginFound(c) ==
  pc[c] = "lookupNew" /\ at[c] \in {"unlock", "idle"} /\ ret[c] # 0 => Origin(ret[c], parsed[c].name)
OriginKeptBy(c) == pc[c] \in {"decide", "recreate"} /\ idNumber[c] # 0 => Origin(idNumber[c], parsed[c].name)

LEMMA OriginParts ==
  OriginInv <=> (AtMostTwo => /\ OriginStored
                              /\ \A c \in Consumers : OriginCalled(c) /\ OriginFound(c) /\ OriginKeptBy(c))
BY DEF OriginInv, OriginStored, OriginCalled, OriginFound, OriginKeptBy

LEMMA CallsKeepOrigin ==
  ASSUME Given, OriginInv, AtMostTwo, [Next]_vars, NEW c \in Consumers, Calls(c)
  PROVE  OriginStored' /\ \A e \in Consumers : (OriginCalled(e) /\ OriginFound(e) /\ OriginKeptBy(e))'
<1> USE DEF Given, Numbered, Ordered, Ringing, Calling
<1>0. /\ \A v, n : Origin(v, n)' = Origin(v, n)
      /\ OriginStored /\ \A e \in Consumers : OriginCalled(e) /\ OriginFound(e) /\ OriginKeptBy(e)
  BY ArgsFixed, OriginKept, OriginParts
<1>1. /\ at[c] = "idle" /\ at'[c] = "lock" /\ UNCHANGED <<bstRoot, ret, parsed>>
      /\ \A e \in Consumers : e # c => at'[e] = at[e] /\ call'[e] = call[e] /\ pc'[e] = pc[e]
  BY CalledMoves DEF Calls
<1>2. idNumber \in [Consumers -> Nat]
  BY DEF Types
<1>3. \A e \in Consumers : e # c => idNumber'[e] = idNumber[e]
  BY <1>2 DEF Calls, LookupNew, RemoveOld, CreateNew
<1>4. OriginStored'
  BY <1>0, <1>1 DEF OriginStored
<1>5. ASSUME NEW e \in Consumers, e # c PROVE (OriginCalled(e) /\ OriginFound(e) /\ OriginKeptBy(e))'
  BY <1>0, <1>1, <1>3, <1>5 DEF OriginCalled, OriginFound, OriginKeptBy
<1>6. OriginFound(c)'
  BY <1>1 DEF OriginFound
<1>7. OriginCalled(c)' /\ OriginKeptBy(c)'
  <2>1. ASSUME NEW request, NEW next, Called(c, request, next),
               request.op = "create" => Origin(request.inumber, request.name),
               next \in {"decide", "recreate"} /\ idNumber'[c] # 0 => Origin(idNumber'[c], parsed[c].name)
        PROVE  OriginCalled(c)' /\ OriginKeptBy(c)'
    BY <1>0, <1>1, <2>1, CalledMoves DEF OriginCalled, OriginKeptBy
  <2> USE DEF Dir!Create, Dir!Delete, Dir!Lookup
  <2>2. CASE /\ pc[c] = "switch" /\ parsed[c].token = "c" /\ obtainNewInumber
             /\ Called(c, Dir!Create(parsed[c].name, nextINumber'), "apply")
    <3>1. Origin(nextINumber + 1, parsed[c].name)
      BY <2>2, NumberGiven, OriginCreated
    <3> QED
      BY <2>1, <2>2, <3>1 DEF obtainNewInumber
  <2>3. CASE LookupNew(c) /\ Called(c, Dir!Lookup(parsed[c].newName), "decide")
    <3>1. pc[c] = "lookupNew" /\ idNumber'[c] = ret[c]
      BY <1>2, <2>3 DEF LookupNew, Returned, Goto
    <3>2. ret[c] # 0 => Origin(ret[c], parsed[c].name)
      BY <1>0, <1>1, <3>1 DEF OriginFound
    <3> QED
      BY <2>1, <2>3, <3>1, <3>2
  <2>4. CASE RemoveOld(c) /\ Called(c, Dir!Delete(parsed[c].name), "recreate")
    <3>1. pc[c] = "decide" /\ idNumber'[c] = idNumber[c]
      BY <2>4 DEF RemoveOld, Returned, Goto
    <3> QED
      BY <1>0, <2>1, <2>4, <3>1 DEF OriginKeptBy
  <2>5. CASE CreateNew(c) /\ Called(c, Dir!Create(parsed[c].newName, idNumber[c]), "apply")
    <3>1. pc[c] = "recreate" /\ parsed[c].token = "r" /\ idNumber[c] # 0
      BY <2>5 DEF CreateNew, Returned, Goto, ConsumerInv, InRename
    <3>2. PICK i \in CommandLines : Reads(c, Script[i])
      BY <3>1 DEF ReadInv, Tokens
    <3>3. Origin(idNumber[c], parsed[c].newName)
      BY <1>0, <3>1, <3>2, OriginRenamed DEF OriginKeptBy, Reads
    <3> QED
      BY <2>1, <2>5, <3>3
  <2> QED
    BY <2>1, <2>2, <2>3, <2>4, <2>5 DEF Calls
<1> QED
  BY <1>4, <1>5, <1>6, <1>7

\* A writer changes its own name in its own bucket.
LEMMA StoreChanges ==
  ASSUME DirInv, NEW c \in Consumers, Dir!Store(c)
  PROVE  /\ at[c] = "store" /\ call[c].name \in Names /\ Dir!indice(c) \in Dir!Indices
         /\ call[c].op \in {"create", "delete"} /\ (call[c].op = "delete" => call[c].inumber = 0)
         /\ \A b \in Dir!Indices, n \in Names :
              bstRoot'[b][n] = IF b = Dir!indice(c) /\ n = call[c].name THEN call[c].inumber ELSE bstRoot[b][n]
<1> USE DEF DirInv
<1>1. at[c] = "store" /\ Dir!indice(c) \in Dir!Indices /\ call[c] \in Dir!Calls
  BY DirIndiceRange DEF Dir!IInv, Dir!Store, Dir!Goto
<1>2. /\ call[c].op \in {"create", "delete"} /\ (call[c].op = "delete" => call[c].inumber = 0)
      /\ call[c].name \in Names
  BY <1>1, DirCallFields DEF Dir!IInv, Dir!CallOK, Dir!Absent
<1>3. bstRoot \in [Dir!Indices -> Dir!Trees] /\ bstRoot' = [bstRoot EXCEPT ![Dir!indice(c)] = Dir!NewRoot(c)]
  BY DEF Dir!IInv, Dir!TypeOK, Dir!Store
<1>4. ASSUME NEW b \in Dir!Indices, NEW n \in Names
      PROVE  bstRoot'[b][n] = IF b = Dir!indice(c) /\ n = call[c].name THEN call[c].inumber ELSE bstRoot[b][n]
  <2>1. CASE b = Dir!indice(c)
    <3>1. bstRoot'[b] = [bstRoot[b] EXCEPT ![call[c].name] = call[c].inumber]
      BY <1>1, <1>3, <2>1, DirStoredTree
    <3>2. bstRoot[b] \in [Names -> Nat]
      BY <1>3 DEF Dir!Trees
    <3> QED
      BY <2>1, <3>1, <3>2
  <2>2. CASE b # Dir!indice(c)
    BY <1>3, <2>2
  <2> QED
    BY <2>1, <2>2
<1> QED
  BY <1>1, <1>2, <1>4

LEMMA DirectoryKeepsOrigin ==
  ASSUME Given, OriginInv, AtMostTwo, [Next]_vars, NEW c \in Consumers, InDirectory(c)
  PROVE  OriginStored' /\ \A e \in Consumers : (OriginCalled(e) /\ OriginFound(e) /\ OriginKeptBy(e))'
<1> USE DEF Given, Numbered, Ordered, Ringing, Calling
<1>0. /\ \A v, n : Origin(v, n)' = Origin(v, n)
      /\ OriginStored /\ \A e \in Consumers : OriginCalled(e) /\ OriginFound(e) /\ OriginKeptBy(e)
  BY ArgsFixed, OriginKept, OriginParts
<1>1. /\ UNCHANGED <<pc, parsed, idNumber>> /\ at[c] # "idle" /\ (at'[c] # "idle" => call' = call)
      /\ \A e \in Consumers : e # c => at'[e] = at[e] /\ call'[e] = call[e] /\ ret'[e] = ret[e]
  BY InDirectoryMoves
<1>2. \A e \in Consumers : OriginCalled(e)' /\ OriginKeptBy(e)'
  BY <1>0, <1>1 DEF OriginCalled, OriginKeptBy
<1>3. \A e \in Consumers : e # c => OriginFound(e)'
  BY <1>0, <1>1 DEF OriginFound
<1>4. at \in [Consumers -> {"idle", "lock", "load", "store", "search", "unlock"}] /\ ret \in [Consumers -> Nat]
  BY DEF DirInv, Dir!IInv, Dir!TypeOK
<1>5. pc[c] = "lookupNew" => call[c].op = "lookup" /\ call[c].name = parsed[c].name
  <2>1. pc[c] = "lookupNew" => call[c] = Dir!Lookup(parsed[c].name)
    BY <1>1 DEF CallInv
  <2> QED
    BY <2>1 DEF Dir!Lookup
<1>6. CASE Dir!Store(c)
  <2>1. call[c].op = "create" => Origin(call[c].inumber, call[c].name)
    BY <1>0, <1>1 DEF OriginCalled
  <2>2. OriginStored'
    BY <1>0, <1>6, <2>1, StoreChanges DEF OriginStored, Dir!Indices
  <2>3. pc[c] # "lookupNew"
    BY <1>6, <1>5, StoreChanges
  <2> QED
    BY <1>1, <1>2, <1>3, <2>2, <2>3 DEF OriginFound
<1>7. CASE Dir!Search(c)
  <2>1. bstRoot' = bstRoot /\ Dir!indice(c) \in Dir!Indices
    BY <1>1, <1>7, DirIndiceRange DEF Dir!Search, DirInv, Dir!IInv
  <2>2. ret'[c] = bstRoot[Dir!indice(c)][call[c].name] /\ call[c].name \in Names
    BY <1>1, <1>4, <1>7, DirIndiceRange DEF Dir!Search, Dir!search, DirInv, Dir!IInv
  <2>3. pc[c] = "lookupNew" => call[c].name = parsed[c].name
    BY <1>5
  <2>4. OriginFound(c)'
    BY <1>0, <1>1, <2>1, <2>2, <2>3 DEF OriginFound, OriginStored
  <2> QED
    BY <1>0, <1>2, <1>3, <2>1, <2>4 DEF OriginStored
<1>8. CASE Dir!sync_wrlock(c) \/ Dir!sync_rdlock(c) \/ Dir!Load(c) \/ Dir!sync_unlock(c)
  <2>1. UNCHANGED <<bstRoot, ret>>
    BY <1>8 DEF Dir!sync_wrlock, Dir!sync_rdlock, Dir!Load, Dir!sync_unlock
  <2>2. at'[c] \in {"unlock", "idle"} => at[c] = "unlock"
    BY <1>4, <1>8 DEF Dir!sync_wrlock, Dir!sync_rdlock, Dir!Load, Dir!sync_unlock, Dir!Goto
  <2>3. OriginFound(c)'
    BY <1>0, <1>1, <2>1, <2>2 DEF OriginFound
  <2> QED
    BY <1>0, <1>2, <1>3, <2>1, <2>3 DEF OriginStored
<1> QED
  BY <1>6, <1>7, <1>8 DEF InDirectory, Dir!Step

LEMMA StepOriginInv ==
  ASSUME Given, OriginInv, [Next]_vars
  PROVE  OriginInv'
<1> USE DEF Given, Numbered, Ordered, Ringing, Calling
<1>0. AtMostTwo' = AtMostTwo /\ \A v, n : Origin(v, n)' = Origin(v, n)
  BY ArgsFixed, FileFixed, OriginKept
<1> SUFFICES ASSUME AtMostTwo PROVE OriginInv'
  BY <1>0 DEF OriginInv
<1>1. CASE Quiet
  <2>1. UNCHANGED dir /\ UNCHANGED idNumber
    BY <1>1 DEF Quiet
  <2>2. \A c \in Consumers : at[c] # "idle" \/ pc'[c] \in InCall => pc'[c] = pc[c] /\ parsed'[c] = parsed[c]
    BY <1>1 DEF Quiet
  <2> QED
    BY <1>0, <2>1, <2>2 DEF OriginInv, dir, InCall
<1>2. ASSUME NEW c \in Consumers, Calls(c) PROVE OriginInv'
  BY <1>2, CallsKeepOrigin DEF OriginInv, OriginStored, OriginCalled, OriginFound, OriginKeptBy
<1>3. ASSUME NEW c \in Consumers, InDirectory(c) PROVE OriginInv'
  BY <1>3, DirectoryKeepsOrigin DEF OriginInv, OriginStored, OriginCalled, OriginFound, OriginKeptBy
<1> QED
  BY <1>1, <1>2, <1>3, StepKinds

Found == Given /\ OriginInv

LEMMA InitFound == Init => Found
<1> SUFFICES ASSUME Init PROVE OriginInv
  BY InitGiven DEF Found
<1>1. \A b \in Dir!Indices, n \in Names : bstRoot[b][n] = 0
  BY DEF Init, Dir!Init, Dir!EmptyTree, Dir!Absent
<1>2. \A c \in Consumers : at[c] = "idle" /\ pc[c] \notin InCall
  BY PoolAssumption DEF Init, Dir!Init, InCall, Threads
<1> QED
  BY <1>1, <1>2 DEF OriginInv, InCall

LEMMA StepFound == Found /\ [Next]_vars => Found'
BY StepGiven, StepOriginInv DEF Found

\* Other threads run between the four calls of a rename (applyCommands, case
\* 'r'), and still an i-number is found only where the renames of the file lead
\* from the name it was created for.
THEOREM PoolRenameReach == Spec => []RenameReach
<1>1. Found => RenameReach
  <2> SUFFICES ASSUME Found, AtMostTwo, NEW n \in Names, Dir!Entries[n] # 0
               PROVE  Origin(Dir!Entries[n], n)
    BY DEF RenameReach
  <2>1. Dir!Entries[n] = bstRoot[Dir!hash(n)][n] /\ Dir!hash(n) \in Dir!Indices
    BY DirHashRange DEF Dir!Entries
  <2> QED
    BY <2>1 DEF Found, OriginInv
<1> QED
  BY <1>1, InitFound, StepFound, PTL DEF Spec

(***************************************************************************)
(* The tree at the end.                                                    *)
(***************************************************************************)
LEMMA RacedKept ==
  ASSUME args' = args
  PROVE  \A n : (Raced(n)' <=> Raced(n)) /\ Updaters(n)' = Updaters(n)
BY FileFixed DEF Raced, Updaters

\* The name of a command that was read is one the command touches.
LEMMA ReadTouches ==
  ASSUME ReadInv, NEW c \in Consumers
  PROVE  /\ parsed[c].token \in {"d", "r"} => \E i \in Updaters(parsed[c].name) : Script[i].token # "c"
         /\ parsed[c].token = "r" => Raced(parsed[c].newName)
<1>1. ASSUME parsed[c].token \in {"d", "r"} PROVE \E i \in Updaters(parsed[c].name) : Script[i].token # "c"
  <2>1. PICK i \in CommandLines : Reads(c, Script[i])
    BY <1>1 DEF ReadInv, Tokens
  <2> QED
    BY <1>1, <2>1 DEF Reads, Updaters, Touches
<1>2. ASSUME parsed[c].token = "r" PROVE Raced(parsed[c].newName)
  <2>1. PICK i \in CommandLines : Reads(c, Script[i])
    BY <1>2 DEF ReadInv, Tokens
  <2>2. i \in Updaters(parsed[c].newName) /\ Script[i].token = "r" /\ Script[i].newName = parsed[c].newName
    BY <1>2, <2>1 DEF Reads, Updaters, Touches
  <2> QED
    BY <2>2 DEF Raced
<1> QED
  BY <1>1, <1>2

\* What a store leaves under a name that one command of the file touches.
LEMMA StoreApplies ==
  ASSUME Found, AtMostTwo, NEW c \in Consumers, Dir!Store(c), NEW n \in Names, n = call[c].name, ~Raced(n)
  PROVE  \E i \in Updaters(n) : call[c].inumber = IF Script[i].token = "c" THEN Rank(i) ELSE 0
<1> USE DEF Found, Given, Numbered, Ordered, Ringing, Calling
<1>1. /\ at[c] # "idle" /\ call[c].op \in {"create", "delete"}
      /\ (call[c].op = "delete" => call[c].inumber = 0)
  BY StoreChanges
<1>2. CASE call[c].op = "create"
  <2>1. /\ pc[c] = "apply"
        /\ \/ parsed[c].token = "c" /\ call[c].name = parsed[c].name
           \/ parsed[c].token = "r" /\ call[c].name = parsed[c].newName
    BY <1>1, <1>2 DEF CallInv
  <2>2. parsed[c].token = "c"
    BY <2>1, ReadTouches
  <2>3. PICK i \in CommandLines : Script[i].token = "c" /\ Script[i].name = n /\ Rank(i) = call[c].inumber
    BY <1>1, <2>1, <2>2 DEF INumbersFollowFile
  <2> QED
    BY <2>3 DEF Updaters, Touches
<1>3. CASE call[c].op = "delete"
  <2>1. parsed[c].token \in {"d", "r"} /\ call[c].name = parsed[c].name
    BY <1>1, <1>3 DEF CallInv
  <2> QED
    BY <1>1, <1>3, <2>1, ReadTouches
<1> QED
  BY <1>1, <1>2, <1>3

\* A consumer stays busy with a create until it has stored it.
LEMMA BusyKept ==
  ASSUME Found, [Next]_vars, \A c \in Consumers : ~(InDirectory(c) /\ Dir!Store(c)), NEW n, Busy(n)
  PROVE  Busy(n)'
<1> USE DEF Found, Given, Numbered, Ordered, Ringing, Calling
<1>0. /\ Consumers \subseteq Threads /\ pc \in [Threads -> Places]
      /\ at \in [Consumers -> {"idle", "lock", "load", "store", "search", "unlock"}]
      /\ parsed \in [Consumers -> Scans]
  BY DEF Types, Threads, DirInv, Dir!IInv, Dir!TypeOK
<1>1. PICK c \in Consumers : /\ parsed[c].token = "c" /\ parsed[c].name = n
                             /\ pc[c] \in Due \/ (pc[c] = "apply" /\ at[c] \in {"lock", "load", "store"})
  BY DEF Busy, Due
<1> SUFFICES /\ parsed'[c] = parsed[c]
             /\ pc'[c] \in Due \/ (pc'[c] = "apply" /\ at'[c] \in {"lock", "load", "store"})
  BY <1>1 DEF Busy, Due
<1>2. CASE pc[c] \in Due
  <2>1. CASE NoNumber
    BY <1>1, <1>2, <2>1 DEF NoNumber
  <2>2. ASSUME NEW d \in Consumers, Parse(d) PROVE FALSE
    <3>1. Goto(d, "sscanf", "free") /\ pc[d] = "sscanf"
      BY <2>2 DEF Parse, Goto
    <3> QED
      BY <1>2, <3>1, OneDue DEF Critical, Due
  <2>3. ASSUME NEW d \in Consumers, DoCreate(d)
        PROVE  parsed'[c] = parsed[c] /\ pc'[c] = "apply" /\ at'[c] = "lock"
    <3>1. Goto(d, "switch", "apply") /\ parsed' = parsed /\ Dir!Invoke(d, Dir!Create(parsed[d].name, nextINumber'))
      BY <2>3 DEF DoCreate, Start, locals
    <3>2. d = c
      BY <1>2, <3>1, OneDue DEF Critical
    <3> QED
      BY <1>0, <3>1, <3>2 DEF Goto, Dir!Invoke, Dir!Goto
  <2> QED
    BY <2>1, <2>2, <2>3, NumberKinds
<1>3. CASE pc[c] = "apply" /\ at[c] \in {"lock", "load", "store"}
  <2>1. CASE Quiet
    BY <1>3, <2>1 DEF Quiet, dir
  <2>2. ASSUME NEW d \in Consumers, Calls(d) PROVE UNCHANGED <<parsed, pc[c], at[c]>>
    BY <1>3, <2>2, CalledMoves DEF Calls
  <2>3. ASSUME NEW d \in Consumers, InDirectory(d)
        PROVE  parsed' = parsed /\ pc' = pc /\ at'[c] \in {"lock", "load", "store"}
    <3>1. UNCHANGED <<pc, parsed>> /\ (d # c => at'[c] = at[c])
      BY <2>3, InDirectoryMoves
    <3>2. CASE d = c
      <4>1. call[c].op # "lookup"
        BY <1>1, <1>3 DEF CallInv
      <4>2. Dir!sync_wrlock(c) \/ Dir!Load(c)
        BY <1>3, <2>3, <3>2, <4>1 DEF InDirectory, Dir!Step, Dir!sync_rdlock, Dir!Search, Dir!sync_unlock, Dir!Goto
      <4> QED
        BY <1>0, <3>1, <4>2 DEF Dir!sync_wrlock, Dir!Load, Dir!Goto
    <3> QED
      BY <1>3, <3>1, <3>2
  <2> QED
    BY <1>3, <2>1, <2>2, <2>3, StepKinds
<1> QED
  BY <1>1, <1>2, <1>3

\* A create that was just read is in its consumer's hands.
LEMMA ReadMakesBusy ==
  ASSUME Found, Found', AtMostTwo, NEW c \in Consumers, Parse(c), NEW i \in CommandLines,
         Script[i].token = "c", Place(i) = Taken + 1
  PROVE  Busy(Script[i].name)'
<1> USE DEF Found, Given, Numbered, Ordered, Ringing, Calling
<1>1. Taken + 1 \in 1 .. Count /\ Commands[Taken + 1] = i
  BY PlaceOne, CommandOfPlace DEF Types
<1>2. parsed'[c].token = "c" /\ parsed'[c].name = Script[i].name
  BY <1>1, LastRead
<1>3. pc'[c] = "free" /\ Script' = Script
  BY FileFixed DEF Parse, Goto, Types, Threads
<1> QED
  BY <1>2, <1>3 DEF Busy

LEMMA StepAppliedInv ==
  ASSUME Found, Found', AppliedInv, [Next]_vars
  PROVE  AppliedInv'
<1> USE DEF Found, Given, Numbered, Ordered, Ringing, Calling
<1>0. /\ args' = args /\ AtMostTwo' = AtMostTwo /\ CommandLines' = CommandLines /\ Script' = Script
      /\ \A i : Rank(i)' = Rank(i) /\ Place(i)' = Place(i)
      /\ \A m : (Raced(m)' <=> Raced(m)) /\ Updaters(m)' = Updaters(m)
      /\ \A m : Updaters(m) \subseteq CommandLines
      /\ \A i \in CommandLines : Place(i) \in Nat
      /\ Taken \in Nat
  <2>1. args' = args /\ args \in Arguments /\ Taken \in Nat
    BY ArgsFixed, Numbers DEF Types
  <2>2. \A i : Place(i)' = Place(i)
    BY <2>1, FileFixed DEF Place
  <2>3. \A m : Updaters(m) \subseteq CommandLines
    BY DEF Updaters
  <2> QED
    BY <2>1, <2>2, <2>3, FileFixed, RankKept, RacedKept, PlaceRange
<1> SUFFICES ASSUME AtMostTwo, NEW n \in Names, ~Raced(n)
             PROVE  /\ (\A i \in Updaters(n) : Script[i].token # "c") => Dir!Entries'[n] = 0
                    /\ \A i \in Updaters(n) : Script[i].token = "c" /\ Place(i) <= Taken' /\ ~Busy(n)' =>
                         Dir!Entries'[n] = Rank(i)
  BY <1>0 DEF AppliedInv
<1>1. Dir!Entries[n] = bstRoot[Dir!hash(n)][n] /\ Dir!hash(n) \in Dir!Indices
  BY DirHashRange DEF Dir!Entries
<1>2. Dir!Entries'[n] = bstRoot'[Dir!hash(n)][n]
  BY DEF Dir!Entries
<1>3. \A i, j \in Updaters(n) : i = j
  BY DEF Raced
<1>4. ASSUME NEW c \in Consumers, InDirectory(c), Dir!Store(c)
      PROVE  /\ Taken' = Taken
             /\ n # call[c].name => Dir!Entries'[n] = Dir!Entries[n] /\ (Busy(n) => Busy(n)')
             /\ n = call[c].name => Dir!Entries'[n] = call[c].inumber
  <2>1. applied' = applied /\ parsed' = parsed /\ pc' = pc
    BY <1>4, InDirectoryMoves
  <2>2. Dir!indice(c) = Dir!hash(call[c].name)
    BY DEF Dir!indice
  <2>3. ASSUME n # call[c].name, Busy(n) PROVE Busy(n)'
    <3>1. PICK d \in Consumers : /\ parsed[d].token = "c" /\ parsed[d].name = n
                                 /\ \/ pc[d] \in Due
                                    \/ pc[d] = "apply" /\ at[d] \in {"lock", "load", "store"}
      BY <2>3 DEF Busy, Due
    <3>2. CASE pc[d] \in Due
      BY <2>1, <3>1, <3>2 DEF Busy, Due
    <3>3. CASE pc[d] = "apply" /\ at[d] \in {"lock", "load", "store"}
      <4>1. call[d].op = "create"
        BY <3>1, <3>3 DEF CallInv
      <4>2. call[d].name = n
        BY <3>1, <3>3, <4>1 DEF CallInv
      <4>3. at'[d] = at[d]
        BY <1>4, <2>3, <4>2, InDirectoryMoves
      <4> QED
        BY <2>1, <3>1, <3>3, <4>3 DEF Busy
    <3> QED
      BY <3>1, <3>2, <3>3
  <2> QED
    BY <1>1, <1>2, <1>4, <2>1, <2>2, <2>3, StoreChanges DEF Taken
<1>5. ASSUME NEW c \in Consumers, InDirectory(c), Dir!Store(c), n = call[c].name
      PROVE  \E i \in Updaters(n) : Dir!Entries'[n] = IF Script[i].token = "c" THEN Rank(i) ELSE 0
  BY <1>4, <1>5, StoreApplies
<1>6. CASE \E c \in Consumers : InDirectory(c) /\ Dir!Store(c)
  <2>1. PICK c \in Consumers : InDirectory(c) /\ Dir!Store(c)
    BY <1>6
  <2>2. CASE n = call[c].name
    BY <1>3, <1>5, <2>1, <2>2
  <2>3. CASE n # call[c].name
    BY <1>4, <2>1, <2>3 DEF AppliedInv
  <2> QED
    BY <2>2, <2>3
<1>7. CASE ~\E c \in Consumers : InDirectory(c) /\ Dir!Store(c)
  <2>1. bstRoot' = bstRoot
    <3>1. ASSUME NEW c \in Consumers, InDirectory(c) PROVE bstRoot' = bstRoot
      BY <1>7, <3>1 DEF InDirectory, Dir!Step, Dir!sync_wrlock, Dir!sync_rdlock, Dir!Load, Dir!Search,
                        Dir!sync_unlock
    <3>2. ASSUME NEW c \in Consumers, Calls(c) PROVE bstRoot' = bstRoot
      BY <3>2, CalledMoves DEF Calls
    <3> QED
      BY <3>1, <3>2, StepKinds DEF Quiet, dir
  <2>2. Dir!Entries'[n] = Dir!Entries[n]
    BY <1>1, <1>2, <2>1
  <2>3. Busy(n) => Busy(n)'
    BY <1>7, BusyKept
  <2>4. ASSUME NEW i \in Updaters(n), Script[i].token = "c", Place(i) <= Taken', ~Busy(n)'
        PROVE  Place(i) <= Taken
    <3>1. CASE applied' = applied
      BY <2>4, <3>1 DEF Taken
    <3>2. ASSUME NEW c \in Consumers, Parse(c) PROVE Place(i) <= Taken
      <4>1. Taken' = Taken + 1
        BY <3>2, ParseTakes
      <4>2. Script[i].name = n
        BY <2>4 DEF Updaters, Touches
      <4>3. Place(i) # Taken + 1
        BY <1>0, <2>4, <3>2, <4>2, ReadMakesBusy
      <4> QED
        BY <1>0, <2>4, <4>1, <4>3
    <3> QED
      BY <3>1, <3>2, OnlyParseReads
  <2> QED
    BY <2>2, <2>3, <2>4 DEF AppliedInv
<1> QED
  BY <1>6, <1>7

Applying == Found /\ AppliedInv

LEMMA InitApplying == Init => Applying
<1> SUFFICES ASSUME Init PROVE AppliedInv
  BY InitFound DEF Applying
<1>1. Taken = 0 /\ args \in Arguments
  BY DEF Init, Taken
<1>2. \A n \in Names : Dir!Entries[n] = 0
  BY DirHashRange DEF Init, Dir!Init, Dir!Entries, Dir!EmptyTree, Dir!Absent
<1>3. \A n : \A i \in Updaters(n) : ~(Place(i) <= Taken)
  BY <1>1, PlaceOne, FiniteCommands DEF Updaters
<1> QED
  BY <1>2, <1>3 DEF AppliedInv

LEMMA StepApplying == Applying /\ [Next]_vars => Applying'
BY StepFound, StepAppliedInv DEF Applying

\* When the threads were joined every command was read, and no consumer has
\* one in its hands.
LEMMA FinishedApplied ==
  ASSUME Applying, status = "finished"
  PROVE  FinalTree
<1> USE DEF Applying, Found, Given, Numbered, Ordered, Ringing, Calling
<1> SUFFICES ASSUME AtMostTwo, NEW n \in Names, ~Raced(n)
             PROVE  /\ \A i \in Updaters(n) : Dir!Entries[n] = IF Script[i].token = "c" THEN Rank(i) ELSE 0
                    /\ Updaters(n) = {} => Dir!Entries[n] = 0
  BY DEF FinalTree
<1>1. /\ args.threads # {} /\ args.threads \subseteq Consumers /\ Taken \in Nat /\ Count \in Nat
      /\ args \in Arguments
  BY PoolAssumption, Numbers DEF Types
<1>2. \A c \in args.threads : pc[c] = "done" /\ parsed[c].token = "x"
  BY <1>1 DEF ProducerInv, ConsumerInv
<1>3. Taken > Count
  BY <1>1, <1>2 DEF RingInv, Queue
<1>4. ~Busy(n)
  BY <1>2 DEF Busy, ConsumerInv
<1>5. \A i, j \in Updaters(n) : i = j
  BY DEF Raced
<1>6. ASSUME NEW i \in Updaters(n)
      PROVE  Dir!Entries[n] = IF Script[i].token = "c" THEN Rank(i) ELSE 0
  <2>1. Place(i) <= Taken
    BY <1>1, <1>3, PlaceOne DEF Updaters
  <2>2. CASE Script[i].token = "c"
    BY <1>4, <2>1, <2>2 DEF AppliedInv
  <2>3. CASE Script[i].token # "c"
    BY <1>5, <2>3 DEF AppliedInv
  <2> QED
    BY <2>2, <2>3
<1>7. Updaters(n) = {} => Dir!Entries[n] = 0
  BY DEF AppliedInv
<1> QED
  BY <1>6, <1>7

\* When main has joined its threads and prints the tree, a name that one
\* command of the file touches has what that command gave it: one or two
\* consumers lose no command and no update, for any file, any ring and any
\* spread of the names over the buckets.
THEOREM PoolFinalTree == Spec => []FinalTree
<1>1. Applying => FinalTree
  BY FinishedApplied DEF FinalTree
<1> QED
  BY <1>1, InitApplying, StepApplying, PTL DEF Spec

-----------------------------------------------------------------------------
(***************************************************************************)
(* The commands one after the other, and the one consumer that is alone.   *)
(***************************************************************************)
\* The first k commands leave the directory as one more than the first k - 1:
\* the definition of After has a value.
Unfolds(f, m) == \A k \in 0 .. m : f[k] = IF k = 0 THEN [n \in Names |-> 0] ELSE Apply(f[k - 1], Commands[k])

LEMMA SomeFolds ==
  ASSUME Count \in Nat
  PROVE  \A m \in 0 .. Count : \E f : Unfolds(f, m)
<1> DEFINE Without == {m \in 0 .. Count : ~\E f : Unfolds(f, m)}
<1> SUFFICES ASSUME Without # {} PROVE FALSE
  OBVIOUS
<1>1. Without \subseteq Nat
  OBVIOUS
<1>2. PICK m \in Without : \A k \in Without : <<k, m>> \notin OpToRel(<, Nat)
  BY <1>1, NatLessThanWellFounded, WFMin, Zenon
<1>3. m \in 0 .. Count /\ \A k \in Without : ~(k < m)
  BY <1>1, <1>2 DEF OpToRel
<1>4. ~\E f : Unfolds(f, m)
  OBVIOUS
<1>5. CASE m = 0
  <2>1. Unfolds([k \in {0} |-> [n \in Names |-> 0]], 0)
    BY DEF Unfolds
  <2> QED
    BY <1>4, <1>5, <2>1
<1>6. CASE m # 0
  <2>1. m - 1 \in 0 .. Count /\ m - 1 < m
    BY <1>3, <1>6
  <2>2. PICK f : Unfolds(f, m - 1)
    BY <1>3, <2>1
  <2>3. PICK next : next = Apply(f[m - 1], Commands[m])
    OBVIOUS
  <2> DEFINE g == [k \in 0 .. m |-> IF k = m THEN next ELSE f[k]]
  <2>4. g[m - 1] = f[m - 1] /\ g[m] = next
    BY <1>3, <1>6
  <2>5. ASSUME NEW k \in 0 .. m - 1
        PROVE  g[k] = f[k] /\ (k # 0 => k - 1 \in 0 .. m /\ g[k - 1] = f[k - 1])
    BY <1>3, <1>6, <2>5
  <2> HIDE DEF g
  <2>6. ASSUME NEW k \in 0 .. m
        PROVE  g[k] = IF k = 0 THEN [n \in Names |-> 0] ELSE Apply(g[k - 1], Commands[k])
    <3>1. CASE k = m
      BY <1>6, <2>3, <2>4, <3>1
    <3>2. CASE k # m
      <4>1. k \in 0 .. m - 1
        BY <1>3, <3>2
      <4>2. f[k] = IF k = 0 THEN [n \in Names |-> 0] ELSE Apply(f[k - 1], Commands[k])
        BY <2>2, <4>1 DEF Unfolds
      <4>3. CASE k = 0
        BY <2>5, <4>1, <4>2, <4>3
      <4>4. CASE k # 0
        <5>1. g[k] = f[k] /\ g[k - 1] = f[k - 1]
          BY <2>5, <4>1, <4>4
        <5> QED
          BY <4>2, <4>4, <5>1
      <4> QED
        BY <4>3, <4>4
    <3> QED
      BY <3>1, <3>2
  <2>7. Unfolds(g, m)
    BY <2>6 DEF Unfolds
  <2> QED
    BY <1>4, <2>7
<1> QED
  BY <1>5, <1>6

LEMMA AfterUnfolds ==
  ASSUME Count \in Nat
  PROVE  Unfolds(After, Count)
<1> DEFINE next(f, k) == IF k = 0 THEN [n \in Names |-> 0] ELSE Apply(f[k - 1], Commands[k])
<1>1. PICK f : Unfolds(f, Count)
  BY SomeFolds
<1> DEFINE g == [k \in 0 .. Count |-> f[k]]
<1>2. ASSUME NEW k \in 0 .. Count PROVE f[k] = next(g, k)
  <2>1. f[k] = next(f, k)
    BY <1>1 DEF Unfolds
  <2>2. k # 0 => g[k - 1] = f[k - 1]
    OBVIOUS
  <2> HIDE DEF g
  <2> QED
    BY <2>1, <2>2
<1>3. g = [k \in 0 .. Count |-> next(g, k)]
  BY <1>2
<1> HIDE DEF g
<1>4. \E h : h = [k \in 0 .. Count |-> next(h, k)]
  BY <1>3
<1>5. After = [k \in 0 .. Count |-> next(After, k)]
  BY <1>4 DEF After
<1> QED
  BY <1>5 DEF Unfolds

LEMMA AfterUnfoldsNext == (Count \in Nat)' => Unfolds(After, Count)'
<1>1. Count \in Nat => Unfolds(After, Count)
  BY AfterUnfolds
<1> QED
  BY <1>1, PTL

\* The file is fixed, and what its commands leave.
LEMMA AfterKept ==
  ASSUME args' = args, Count \in Nat
  PROVE  \A k \in 0 .. Count : After'[k] = After[k]
<1> DEFINE Differ == {m \in 0 .. Count : After'[m] # After[m]}
<1> SUFFICES ASSUME Differ # {} PROVE FALSE
  OBVIOUS
<1>1. Count' = Count /\ Commands' = Commands /\ Script' = Script /\ \A i : Rank(i)' = Rank(i)
  BY FileFixed, RankKept
<1>2. Differ \subseteq Nat
  OBVIOUS
<1>3. PICK m \in Differ : \A k \in Differ : <<k, m>> \notin OpToRel(<, Nat)
  BY <1>2, NatLessThanWellFounded, WFMin, Zenon
<1>4. m \in 0 .. Count /\ (\A k \in Differ : ~(k < m)) /\ After'[m] # After[m]
  BY <1>2, <1>3 DEF OpToRel
<1>5. After[m] = IF m = 0 THEN [n \in Names |-> 0] ELSE Apply(After[m - 1], Commands[m])
  BY <1>4, AfterUnfolds DEF Unfolds
<1>6. After'[m] = IF m = 0 THEN [n \in Names |-> 0] ELSE Apply(After[m - 1], Commands[m])'
  BY <1>1, <1>4, AfterUnfoldsNext DEF Unfolds
<1>7. ASSUME m # 0 PROVE After'[m - 1] = After[m - 1]
  <2>1. m - 1 \in 0 .. Count /\ m - 1 < m
    BY <1>4, <1>7
  <2> QED
    BY <1>4, <2>1
<1>8. ASSUME m # 0 PROVE Apply(After[m - 1], Commands[m])' = Apply(After[m - 1], Commands[m])
  BY <1>1, <1>7, <1>8 DEF Apply
<1> QED
  BY <1>4, <1>5, <1>6, <1>8

LEMMA AfterNext ==
  ASSUME Types, Taken \in 1 .. Count, NEW c, Reads(c, Script[Commands[Taken]])
  PROVE  LET before == After[Taken - 1]
             old    == parsed[c].name
             new    == parsed[c].newName
         IN /\ parsed[c].token = "c" => After[Taken] = [before EXCEPT ![old] = Rank(Commands[Taken])]
            /\ parsed[c].token = "d" => After[Taken] = [before EXCEPT ![old] = 0]
            /\ parsed[c].token = "l" => After[Taken] = before
            /\ parsed[c].token = "r" =>
                 After[Taken] = IF before[old] # 0 /\ before[new] = 0
                                THEN [[before EXCEPT ![old] = 0] EXCEPT ![new] = before[old]]
                                ELSE before
            /\ parsed[c].token \in Tokens
<1>1. Count \in Nat /\ args \in Arguments
  BY Numbers DEF Types
<1>2. After[Taken] = Apply(After[Taken - 1], Commands[Taken])
  BY <1>1, AfterUnfolds DEF Unfolds
<1>3. Commands[Taken] \in CommandLines
  BY <1>1, CommandAt
<1>4. Script[Commands[Taken]].token \in {"c", "l", "r", "d"}
  BY <1>1, <1>3, CommandLine DEF Tokens
<1>5. PICK before : before = After[Taken - 1]
  OBVIOUS
<1>6. PICK line : line = Script[Commands[Taken]]
  OBVIOUS
<1>7. After[Taken] = Apply(before, Commands[Taken])
  BY <1>2, <1>5
<1>8. /\ line.token = "c" => After[Taken] = [before EXCEPT ![line.name] = Rank(Commands[Taken])]
      /\ line.token = "d" => After[Taken] = [before EXCEPT ![line.name] = 0]
      /\ line.token = "l" => After[Taken] = before
      /\ line.token = "r" =>
           After[Taken] = IF before[line.name] # 0 /\ before[line.newName] = 0
                          THEN [before EXCEPT ![line.name] = 0, ![line.newName] = before[line.name]]
                          ELSE before
  BY <1>6, <1>7 DEF Apply
<1> QED
  BY <1>4, <1>5, <1>6, <1>8 DEF Reads, Tokens

-----------------------------------------------------------------------------
\* The only consumer, and what the others do: nothing.
LEMMA OnlyConsumer ==
  ASSUME Types, Alone
  PROVE  AtMostTwo /\ \E c \in Consumers : args.threads = {c}
<1>1. args.threads \subseteq Consumers /\ IsFiniteSet(args.threads)
  BY PoolAssumption, FS_Subset DEF Types
<1> QED
  BY <1>1, FS_Singleton DEF Alone, AtMostTwo

\* A step that leaves the directory and what was read alone, at which the
\* consumer stays where it has a command in its hands, or stays without one.
Resting(c) ==
  /\ UNCHANGED <<dir, idNumber, parsed, applied>>
  /\ pc[c] \in InRename \/ pc'[c] \in InRename => pc'[c] = pc[c]
  /\ parsed[c].token # "x" => (pc'[c] \in Due <=> pc[c] \in Due)

LEMMA AloneMoves ==
  ASSUME Numbered, Alone, NEW c \in Consumers, args.threads = {c}, [Next]_vars
  PROVE  Parse(c) \/ Calls(c) \/ KeepOld(c) \/ InDirectory(c) \/ Resting(c)
<1> USE DEF Numbered, Ordered, Ringing, Calling
<1>0. /\ Consumers \subseteq Threads /\ pc \in [Threads -> Places] /\ Producer \in Threads \ Consumers
      /\ \A e \in Consumers : e # c => pc[e] = "none" /\ at[e] = "idle"
  BY Numbers DEF Types, ConsumerInv, InCall
<1>1. ASSUME NEW t \in Threads, NEW from, NEW to, Goto(t, from, to), UNCHANGED <<dir, idNumber, parsed, applied>>,
             t # c \/ (from \notin InRename /\ to \notin InRename
                       /\ (parsed[c].token # "x" => (from \in Due <=> to \in Due)))
      PROVE  Resting(c)
  BY <1>0, <1>1 DEF Resting, Goto
<1>2. CASE ReadLine \/ ReadEnd
  <2>1. \E to : Goto(Producer, "read", to)
    BY <1>2 DEF ReadLine, ReadEnd
  <2> QED
    BY <1>0, <1>1, <1>2, <2>1 DEF ReadLine, ReadEnd, locals
<1>3. ASSUME NEW t \in Threads, insertCommand(t) PROVE Resting(c)
  <2>1. \E from \in Inserting : \E to \in Inserting \cup {"extra", "done", "read"} : Goto(t, from, to)
    BY <1>3 DEF insertCommand, WaitLoad, CopyIn, Advance, PostExecute, AfterInsert, Inserting
  <2>2. UNCHANGED <<dir, idNumber, parsed, applied>>
    BY <1>3 DEF insertCommand, WaitLoad, CopyIn, Advance, PostExecute, locals
  <2> QED
    BY <1>1, <2>1, <2>2 DEF Inserting, Due, InRename
<1>4. CASE LockCommands(c) \/ WaitExecute(c) \/ TakeSlot(c) \/ FreeSlot(c) \/ Applied(c) \/ ExtraPost(c)
  <2>1. \E from, to : /\ Goto(c, from, to)
                      /\ from \notin InRename /\ to \notin InRename /\ (from \in Due <=> to \in Due)
    BY <1>4 DEF LockCommands, WaitExecute, TakeSlot, FreeSlot, Applied, ExtraPost, Returned, Due, InRename
  <2>2. UNCHANGED <<dir, idNumber, parsed, applied>>
    BY <1>4 DEF LockCommands, WaitExecute, TakeSlot, FreeSlot, Applied, ExtraPost, Returned, locals
  <2> QED
    BY <1>0, <1>1, <2>1, <2>2
<1>5. CASE DoEnd(c)
  BY <1>0, <1>1, <1>5 DEF DoEnd, locals, InRename
<1>6. CASE DoFail(c)
  <2>1. pc[c] = "switch" /\ parsed[c].token \notin {"c", "l", "d", "r", "x"}
    BY <1>6 DEF DoFail, Goto
  <2>2. AtMostTwo /\ Taken \in Nat /\ Count \in Nat /\ args \in Arguments
    BY OnlyConsumer, Numbers DEF Types
  <2>3. Taken \in 1 .. Count /\ Reads(c, Script[Commands[Taken]])
    BY <2>1, <2>2 DEF NumberInv
  <2>4. Script[Commands[Taken]].token \in Tokens
    BY <2>2, <2>3, CommandAt, CommandLine
  <2> QED
    BY <2>1, <2>3, <2>4 DEF Reads, Tokens
<1>7. CASE DoCreate(c) \/ DoLookup(c) \/ DoDelete(c) \/ DoRename(c)
  BY <1>7 DEF DoCreate, DoLookup, DoDelete, DoRename, Start, Goto, Calls, Called, locals
<1>8. CASE LookupNew(c) \/ RemoveOld(c) \/ CreateNew(c)
  BY <1>8 DEF LookupNew, RemoveOld, CreateNew, Returned, Goto, Calls, Called
<1>9. CASE Join \/ Exited \/ UNCHANGED vars
  BY <1>9 DEF Join, Exited, vars, locals, Resting
<1>10. ASSUME NEW e \in Consumers, applyCommands(e) PROVE e = c
  <2>1. \E from \in Places \ {"none"} : pc[e] = from
    <3>1. CASE Switch(e)
      BY <3>1 DEF Switch, DoCreate, DoLookup, DoDelete, DoRename, DoEnd, DoFail, Start, Goto, Places, InLoop
    <3> QED
      BY <1>10, <3>1 DEF applyCommands, LockCommands, WaitExecute, TakeSlot, Parse, FreeSlot, LookupNew,
                         RemoveOld, KeepOld, CreateNew, Applied, ExtraPost, Returned, Goto, Places, InLoop, InCall
  <2> QED
    BY <1>0, <2>1
<1>11. ASSUME NEW e \in Consumers, InDirectory(e) PROVE e = c
  BY <1>0, <1>11, InDirectoryMoves
<1> QED
  BY <1>2, <1>3, <1>4, <1>5, <1>6, <1>7, <1>8, <1>9, <1>10, <1>11 DEF Next, ThreadStep, applyCommands, Switch

LEMMA EntriesKept == ASSUME bstRoot' = bstRoot PROVE Dir!Entries' = Dir!Entries
BY DEF Dir!Entries, Dir!hash

\* What a call promises the directory.
LEMMA CallOutcome ==
  ASSUME Types, DirInv, NEW c \in Consumers, NEW request, NEW next, Called(c, request, next)
  PROVE  /\ Outcome(c) = Dir!Entries /\ Answered(c) /\ ~Answered(c)'
         /\ Outcome(c)' = IF request.op # "lookup"
                          THEN [Dir!Entries EXCEPT ![request.name] = request.inumber]
                          ELSE Dir!Entries
<1>1. Dir!Entries' = Dir!Entries
  BY CalledMoves, EntriesKept
<1> QED
  BY <1>1, CalledMoves DEF Outcome, Answered

\* A step of the directory keeps what the call promises, and a lookup answers
\* what the directory has.
LEMMA StoreOutcome ==
  ASSUME Types, DirInv, NEW c \in Consumers, InDirectory(c), Dir!Store(c)
  PROVE  Outcome(c)' = Outcome(c)
<1>1. at[c] = "store" /\ call[c].op # "lookup" /\ at'[c] = "unlock"
  BY StoreChanges DEF Dir!Store, Dir!Goto, DirInv, Dir!IInv, Dir!TypeOK
<1>2. ASSUME NEW n \in Names
      PROVE  bstRoot'[Dir!hash(n)][n] = IF n = call[c].name THEN call[c].inumber ELSE bstRoot[Dir!hash(n)][n]
  BY DirHashRange, StoreChanges DEF Dir!indice
<1>3. Dir!Entries' = [Dir!Entries EXCEPT ![call[c].name] = call[c].inumber]
  BY <1>2 DEF Dir!Entries
<1> QED
  BY <1>1, <1>3 DEF Outcome

LEMMA DirectoryOutcome ==
  ASSUME Types, DirInv, NEW c \in Consumers, InDirectory(c)
  PROVE  /\ Outcome(c)' = Outcome(c)
         /\ Answered(c) => Answered(c)' /\ ret'[c] = ret[c]
         /\ ~Answered(c) /\ Answered(c)' /\ call[c].op = "lookup" => ret'[c] = Dir!Entries[call[c].name]
         /\ ~Answered(c)' => call'[c] = call[c]
<1> USE DEF Answered, Dir!Goto
<1>0. /\ at \in [Consumers -> {"idle", "lock", "load", "store", "search", "unlock"}]
      /\ ret \in [Consumers -> Nat] /\ Dir!CallOK
  BY DEF DirInv, Dir!IInv, Dir!TypeOK
<1>1. CASE Dir!Store(c)
  BY <1>0, <1>1, StoreOutcome, StoreChanges DEF Dir!Store
<1>2. CASE Dir!Search(c)
  <2>1. call[c].op = "lookup" /\ call[c].name \in Names
    BY <1>0, <1>2, DirIndiceRange DEF Dir!Search, Dir!CallOK, DirInv, Dir!IInv
  <2>2. ret'[c] = Dir!Entries[call[c].name]
    BY <1>0, <1>2, <2>1 DEF Dir!Search, Dir!search, Dir!indice, Dir!Entries
  <2>3. Dir!Entries' = Dir!Entries /\ call' = call
    BY <1>2, EntriesKept DEF Dir!Search
  <2> QED
    BY <1>0, <1>2, <2>1, <2>2, <2>3 DEF Dir!Search, Outcome
<1>3. CASE Dir!sync_wrlock(c) \/ Dir!sync_rdlock(c) \/ Dir!Load(c)
  <2>1. bstRoot' = bstRoot /\ call' = call /\ ret' = ret
    BY <1>3 DEF Dir!sync_wrlock, Dir!sync_rdlock, Dir!Load
  <2>2. Dir!Entries' = Dir!Entries
    BY <2>1, EntriesKept
  <2>3. CASE Dir!sync_rdlock(c)
    BY <1>0, <2>1, <2>2, <2>3 DEF Dir!sync_rdlock, Outcome
  <2>4. CASE Dir!sync_wrlock(c) \/ Dir!Load(c)
    BY <1>0, <2>1, <2>2, <2>4 DEF Dir!sync_wrlock, Dir!Load, Outcome
  <2> QED
    BY <1>3, <2>3, <2>4
<1>4. CASE Dir!sync_unlock(c)
  <2>1. Dir!Entries' = Dir!Entries
    BY <1>4, EntriesKept DEF Dir!sync_unlock
  <2> QED
    BY <1>0, <1>4, <2>1 DEF Dir!sync_unlock, Outcome
<1> QED
  BY <1>1, <1>2, <1>3, <1>4 DEF InDirectory, Dir!Step

\* What stays true of the file and of what the commands leave.
LEMMA AfterFixed ==
  ASSUME Types, args' = args, applied' = applied
  PROVE  /\ Taken' = Taken /\ Taken \in Nat /\ Count' = Count /\ Count \in Nat
         /\ Script' = Script /\ Commands' = Commands
         /\ Taken \in 1 .. Count => After'[Taken - 1] = After[Taken - 1] /\ After'[Taken] = After[Taken]
         /\ After'[IF Taken <= Count THEN Taken ELSE Count] = After[IF Taken <= Count THEN Taken ELSE Count]
<1>1. Taken' = Taken /\ Taken \in Nat /\ Count' = Count /\ Count \in Nat /\ Script' = Script /\ Commands' = Commands
  BY Numbers, FileFixed DEF Taken
<1>2. \A k \in 0 .. Count : After'[k] = After[k]
  BY <1>1, AfterKept
<1>3. (IF Taken <= Count THEN Taken ELSE Count) \in 0 .. Count
  BY <1>1
<1>4. Taken \in 1 .. Count => Taken - 1 \in 0 .. Count /\ Taken \in 0 .. Count
  BY <1>1
<1> QED
  BY <1>1, <1>2, <1>3, <1>4

LEMMA RestingInSequence ==
  ASSUME Types, args' = args, NEW c \in Consumers, InSequence(c), Resting(c)
  PROVE  InSequence(c)'
<1>1. /\ parsed' = parsed /\ idNumber' = idNumber /\ call' = call /\ ret' = ret /\ at' = at
      /\ applied' = applied /\ bstRoot' = bstRoot
  BY DEF Resting, dir
<1>2. Outcome(c)' = Outcome(c) /\ Answered(c)' = Answered(c)
  BY <1>1, EntriesKept DEF Outcome, Answered
<1>3. UnderWay(c)' <=> UnderWay(c)
  BY <1>1 DEF Resting, UnderWay, Due, InRename
<1>4. parsed[c].token # "x" => Taken <= Count
  BY DEF InSequence
<1>5. UnderWay(c) /\ Taken > 0 => Taken \in 1 .. Count
  BY <1>1, <1>4, AfterFixed DEF UnderWay
<1>6. UnderWay(c) => pc'[c] = pc[c] \/ (pc[c] \in Due /\ pc'[c] \in Due)
  BY DEF Resting, UnderWay, Due
<1>7. ASSUME UnderWay(c) PROVE Taken > 0 /\ Midway(c)'
  <2>1. Taken > 0 /\ Midway(c)
    BY <1>7 DEF InSequence
  <2>2. After'[Taken - 1] = After[Taken - 1] /\ Taken' = Taken
    BY <1>1, <1>5, <1>7, <2>1, AfterFixed
  <2>3. \A n : Dir!Lookup(n)' = Dir!Lookup(n)
    BY DEF Dir!Lookup
  <2> QED
    BY <1>1, <1>2, <1>6, <1>7, <2>1, <2>2, <2>3 DEF Midway, Due
<1> QED
  BY <1>1, <1>2, <1>3, <1>7, AfterFixed DEF InSequence, Reads

LEMMA ParseInSequence ==
  ASSUME Applying, Applying', Alone, NEW c \in Consumers, InSequence(c), Parse(c)
  PROVE  InSequence(c)'
<1> USE DEF Applying, Found, Given, Numbered, Ordered, Ringing, Calling
<1>1. /\ pc[c] = "sscanf" /\ pc'[c] = "free" /\ args' = args
      /\ UNCHANGED <<bstRoot, at, call>>
  BY DEF Parse, Goto, Types, Threads, dir
<1>2. at[c] = "idle" /\ parsed[c].token # "x" /\ AtMostTwo
  BY <1>1, OnlyConsumer DEF ConsumerInv, InCall, Ending, Inserting
<1>3. Outcome(c) = Dir!Entries /\ Outcome(c)' = Dir!Entries
  BY <1>1, <1>2, EntriesKept DEF Outcome
<1>4. /\ Taken' = Taken + 1 /\ Taken \in Nat /\ Count \in Nat /\ Taken <= Count
      /\ Count' = Count /\ Script' = Script /\ Commands' = Commands /\ args \in Arguments
  BY <1>1, <1>2, LastRead, FileFixed DEF InSequence, Types
<1>5. Dir!Entries = After[Taken]
  BY <1>1, <1>3, <1>4 DEF InSequence, UnderWay, InRename
<1>6. \A k \in 0 .. Count : After'[k] = After[k]
  BY <1>1, <1>4, AfterKept
<1>7. CASE Taken + 1 <= Count
  <2> DEFINE line == Script[Commands[Taken + 1]]
  <2>0. /\ Commands[Taken + 1] \in CommandLines
        /\ parsed'[c].token = line.token /\ parsed'[c].name = line.name
        /\ line.token = "r" => parsed'[c].newName = line.newName
    BY <1>7, LastRead
  <2>1. Reads(c, Script[Commands[Taken]])'
    BY <1>4, <2>0 DEF Reads
  <2>2. parsed'[c].token # "x"
    BY <1>4, <2>0, CommandLine DEF Tokens
  <2>3. UnderWay(c)'
    BY <1>1, <2>2 DEF UnderWay
  <2>4. After'[Taken' - 1] = After[Taken]
    BY <1>4, <1>6
  <2>5. Midway(c)'
    BY <1>1, <1>3, <1>5, <2>4 DEF Midway
  <2> QED
    BY <1>4, <1>7, <2>1, <2>3, <2>5 DEF InSequence
<1>8. CASE ~(Taken + 1 <= Count)
  <2>1. parsed'[c].token = "x"
    BY <1>2, <1>4, <1>8, LastRead
  <2>2. Taken = Count /\ After'[Count] = After[Count] /\ ~(Taken' <= Count')
    BY <1>4, <1>6, <1>8
  <2> QED
    BY <1>3, <1>4, <1>5, <2>1, <2>2 DEF InSequence, UnderWay
<1> QED
  BY <1>7, <1>8

LEMMA DirectoryInSequence ==
  ASSUME Types, DirInv, CallInv, NEW c \in Consumers, InSequence(c), InDirectory(c)
  PROVE  InSequence(c)'
<1>1. /\ UNCHANGED <<pc, parsed, idNumber, applied, args>> /\ at[c] # "idle"
  BY InDirectoryMoves
<1>2. Outcome(c)' = Outcome(c) /\ (Answered(c) => Answered(c)' /\ ret'[c] = ret[c])
      /\ (~Answered(c)' => ~Answered(c) /\ call'[c] = call[c])
  BY DirectoryOutcome
<1>3. ASSUME NEW n, call[c] = Dir!Lookup(n), ~Answered(c), Answered(c)'
      PROVE  ret'[c] = Dir!Entries[n] /\ Outcome(c) = Dir!Entries
  <2>1. call[c].op = "lookup" /\ call[c].name = n
    BY <1>3 DEF Dir!Lookup
  <2>2. ret'[c] = Dir!Entries[call[c].name]
    BY <1>3, <2>1, DirectoryOutcome
  <2> QED
    BY <2>1, <2>2 DEF Outcome
<1>4. parsed[c].token # "x" => Taken <= Count
  BY DEF InSequence
<1>5. ASSUME UnderWay(c) PROVE Taken > 0 /\ Midway(c)'
  <2>1. Taken > 0 /\ Midway(c)
    BY <1>5 DEF InSequence
  <2>2. Taken \in 1 .. Count
    BY <1>1, <1>4, <1>5, <2>1, AfterFixed DEF UnderWay
  <2>3. After'[Taken - 1] = After[Taken - 1] /\ Taken' = Taken
    BY <1>1, <2>2, AfterFixed
  <2>4. PICK before : before = After[Taken - 1]
    OBVIOUS
  <2>5. pc[c] = "lookupNew" => call[c] = Dir!Lookup(parsed[c].name)
    BY <1>1 DEF CallInv
  <2>6. pc[c] = "lookupNew" /\ Answered(c)' => ret'[c] = before[parsed[c].name]
    BY <1>2, <1>3, <2>1, <2>4, <2>5 DEF Midway
  <2>7. pc[c] = "decide" /\ Answered(c)' => ret'[c] = before[parsed[c].newName]
    BY <1>2, <1>3, <2>1, <2>4 DEF Midway
  <2>8. pc[c] = "decide" /\ ~Answered(c)' => call'[c] = Dir!Lookup(parsed[c].newName)
    BY <1>2, <2>1 DEF Midway
  <2>9. \A n : Dir!Lookup(n)' = Dir!Lookup(n)
    BY DEF Dir!Lookup
  <2> QED
    BY <1>1, <1>2, <2>1, <2>3, <2>4, <2>6, <2>7, <2>8, <2>9 DEF Midway
<1>6. UnderWay(c)' <=> UnderWay(c)
  BY <1>1 DEF UnderWay
<1> QED
  BY <1>1, <1>2, <1>5, <1>6, AfterFixed DEF InSequence, Reads

LEMMA KeepOldInSequence ==
  ASSUME Types, ConsumerInv, args' = args, NEW c \in Consumers, InSequence(c), KeepOld(c)
  PROVE  InSequence(c)'
<1>1. /\ pc[c] = "decide" /\ pc'[c] = "lock" /\ at[c] = "idle" /\ ~MayRename(c)
      /\ UNCHANGED <<parsed, applied, bstRoot, at, call>>
  BY DEF KeepOld, Returned, Goto, Types, Threads, dir
<1>2. parsed[c].token = "r" /\ UnderWay(c)
  BY <1>1 DEF ConsumerInv, InRename, UnderWay
<1>3. Taken > 0 /\ Midway(c) /\ Taken <= Count /\ Reads(c, Script[Commands[Taken]])
  BY <1>2 DEF InSequence
<1>4. Taken \in 1 .. Count
  BY <1>1, <1>3, AfterFixed
<1>5. PICK before : before = After[Taken - 1]
  OBVIOUS
<1>6. Outcome(c) = before /\ idNumber[c] = before[parsed[c].name] /\ ret[c] = before[parsed[c].newName]
  BY <1>1, <1>3, <1>5 DEF Midway, Answered
<1>7. After[Taken] = before
  <2>1. ~(before[parsed[c].name] # 0 /\ before[parsed[c].newName] = 0)
    BY <1>1, <1>6 DEF MayRename
  <2> QED
    BY <1>2, <1>3, <1>4, <1>5, <2>1, AfterNext
<1>8. Outcome(c)' = Outcome(c)
  BY <1>1, EntriesKept DEF Outcome
<1>9. ~UnderWay(c)'
  BY <1>1 DEF UnderWay, InRename
<1> QED
  BY <1>1, <1>3, <1>6, <1>7, <1>8, <1>9, AfterFixed DEF InSequence, Reads

\* The calls of create, delete and lookup, and the last of a rename, promise
\* the directory what the command leaves.
LEMMA LastCallInSequence ==
  ASSUME Types, DirInv, NEW c \in Consumers, NEW request, Called(c, request, "apply"),
         Taken \in 1 .. Count, Reads(c, Script[Commands[Taken]]),
         After[Taken] = IF request.op # "lookup"
                        THEN [Dir!Entries EXCEPT ![request.name] = request.inumber]
                        ELSE Dir!Entries
  PROVE  InSequence(c)'
<1>1. pc'[c] = "apply" /\ UNCHANGED <<parsed, applied, args>>
  BY CalledMoves
<1>2. Outcome(c)' = After[Taken]
  BY CallOutcome
<1>3. ~UnderWay(c)'
  BY <1>1 DEF UnderWay, InRename
<1>4. /\ Taken' = Taken /\ Count' = Count /\ Taken <= Count /\ Taken > 0 /\ After'[Taken] = After[Taken]
      /\ Script' = Script /\ Commands' = Commands
  BY <1>1, AfterFixed
<1> QED
  BY <1>1, <1>2, <1>3, <1>4 DEF InSequence, Reads

\* A call after which the command has more to do.
LEMMA FirstCallInSequence ==
  ASSUME Types, DirInv, ConsumerInv, NEW c \in Consumers, NEW request, NEW next \in InRename,
         Called(c, request, next), parsed[c].token = "r",
         Taken \in 1 .. Count, Reads(c, Script[Commands[Taken]]),
         LET before == After[Taken - 1]
             old    == parsed[c].name
             new    == parsed[c].newName
         IN /\ next = "lookupNew" => request = Dir!Lookup(old) /\ Dir!Entries = before
            /\ next = "decide" => /\ request = Dir!Lookup(new) /\ Dir!Entries = before
                                  /\ idNumber'[c] = before[old]
            /\ next = "recreate" => /\ request = Dir!Delete(old) /\ Dir!Entries = before
                                    /\ idNumber'[c] = before[old]
                                    /\ before[old] # 0 /\ before[new] = 0
  PROVE  InSequence(c)'
<1>1. pc'[c] = next /\ UNCHANGED <<parsed, applied, args>> /\ call'[c] = request
  BY CalledMoves
<1>2. ~Answered(c)' /\ Outcome(c)' = IF request.op # "lookup"
                                     THEN [Dir!Entries EXCEPT ![request.name] = request.inumber]
                                     ELSE Dir!Entries
  BY CallOutcome
<1>3. /\ Taken' = Taken /\ Count' = Count /\ Taken <= Count /\ Taken > 0
      /\ After'[Taken - 1] = After[Taken - 1]
      /\ Script' = Script /\ Commands' = Commands
  BY <1>1, AfterFixed
<1>4. UnderWay(c)'
  BY <1>1 DEF UnderWay
<1>5. PICK before : before = After[Taken - 1]
  OBVIOUS
<1> DEFINE old == parsed[c].name
           new == parsed[c].newName
<1>6. CASE next = "recreate"
  <2>1. request = Dir!Delete(old) /\ Dir!Entries = before
    BY <1>5, <1>6
  <2>2. request.op = "delete" /\ request.name = old /\ request.inumber = 0
    BY <2>1 DEF Dir!Delete, Dir!Absent
  <2>3. Outcome(c)' = [before EXCEPT ![old] = 0]
    BY <1>2, <2>1, <2>2
  <2> QED
    BY <1>1, <1>2, <1>3, <1>4, <1>5, <1>6, <2>3 DEF InSequence, Midway, Reads
<1>7. CASE next \in {"lookupNew", "decide"}
  <2>1. Outcome(c)' = before
    BY <1>2, <1>5, <1>7 DEF Dir!Lookup
  <2>2. \A n : Dir!Lookup(n)' = Dir!Lookup(n)
    BY DEF Dir!Lookup
  <2> QED
    BY <1>1, <1>2, <1>3, <1>4, <1>5, <1>7, <2>1, <2>2 DEF InSequence, Midway, Reads
<1> QED
  BY <1>6, <1>7 DEF InRename

LEMMA CallsInSequence ==
  ASSUME Applying, Alone, NEW c \in Consumers, InSequence(c), Calls(c)
  PROVE  InSequence(c)'
<1> USE DEF Applying, Found, Given, Numbered, Ordered, Ringing, Calling
<1>0. pc[c] \in {"switch"} \cup InRename /\ parsed[c].token \in Tokens /\ UnderWay(c) /\ at[c] = "idle"
  <2>1. pc[c] \in {"switch"} \cup InRename
    BY DEF Calls, LookupNew, RemoveOld, CreateNew, Returned, Goto, InRename
  <2>2. pc[c] = "switch" => parsed[c].token \in Tokens
    BY DEF Calls, LookupNew, RemoveOld, CreateNew, Returned, Goto, Tokens
  <2>3. pc[c] \in InRename => parsed[c].token \in Tokens
    BY DEF ConsumerInv, InRename, InCall
  <2>4. at[c] = "idle"
    BY CalledMoves DEF Calls
  <2> QED
    BY <2>1, <2>2, <2>3, <2>4 DEF UnderWay, Tokens
<1>1. /\ Taken > 0 /\ Midway(c) /\ Taken <= Count /\ Reads(c, Script[Commands[Taken]])
      /\ Taken \in Nat /\ Count \in Nat /\ AtMostTwo
  BY <1>0, Numbers, OnlyConsumer DEF InSequence, UnderWay
<1>2. Taken \in 1 .. Count
  BY <1>1
<1>3. PICK before : before = After[Taken - 1]
  OBVIOUS
<1> DEFINE old == parsed[c].name
           new == parsed[c].newName
<1>4. Outcome(c) = Dir!Entries /\ Answered(c)
  BY <1>0 DEF Outcome, Answered
<1>5. pc[c] # "recreate" => Dir!Entries = before
  BY <1>1, <1>3, <1>4 DEF Midway
<1>6. CASE pc[c] = "switch" /\ UNCHANGED idNumber
  <2>1. CASE /\ parsed[c].token = "c" /\ obtainNewInumber
             /\ Called(c, Dir!Create(old, nextINumber'), "apply")
    <3>1. After[Taken] = [before EXCEPT ![old] = nextINumber']
      BY <1>1, <1>2, <1>3, <1>6, <2>1, AfterNext, NumberGiven DEF obtainNewInumber
    <3>2. \A i : LET request == Dir!Create(old, i)
                 IN request.op = "create" /\ request.name = old /\ request.inumber = i
      BY DEF Dir!Create
    <3> QED
      BY <1>1, <1>2, <1>5, <1>6, <2>1, <3>1, <3>2, LastCallInSequence
  <2>2. CASE parsed[c].token = "l" /\ Called(c, Dir!Lookup(old), "apply")
    <3>1. After[Taken] = before
      BY <1>1, <1>2, <1>3, <2>2, AfterNext
    <3>2. Dir!Lookup(old).op = "lookup"
      BY DEF Dir!Lookup
    <3> QED
      BY <1>1, <1>2, <1>5, <1>6, <2>2, <3>1, <3>2, LastCallInSequence
  <2>3. CASE parsed[c].token = "d" /\ Called(c, Dir!Delete(old), "apply")
    <3>1. After[Taken] = [before EXCEPT ![old] = 0]
      BY <1>1, <1>2, <1>3, <2>3, AfterNext
    <3>2. Dir!Delete(old).op = "delete" /\ Dir!Delete(old).name = old /\ Dir!Delete(old).inumber = 0
      BY DEF Dir!Delete, Dir!Absent
    <3> QED
      BY <1>1, <1>2, <1>5, <1>6, <2>3, <3>1, <3>2, LastCallInSequence
  <2>4. CASE parsed[c].token = "r" /\ Called(c, Dir!Lookup(old), "lookupNew")
    BY <1>1, <1>2, <1>3, <1>5, <1>6, <2>4, FirstCallInSequence DEF InRename
  <2> QED
    BY <1>6, <2>1, <2>2, <2>3, <2>4 DEF Calls, LookupNew, RemoveOld, CreateNew, Returned, Goto
<1>7. ASSUME pc[c] \in InRename
      PROVE  parsed[c].token = "r"
  BY <1>7 DEF ConsumerInv
<1>8. CASE LookupNew(c) /\ Called(c, Dir!Lookup(new), "decide")
  <2>1. pc[c] = "lookupNew" /\ idNumber'[c] = ret[c]
    BY <1>8 DEF LookupNew, Returned, Goto, Types
  <2>2. ret[c] = before[old]
    BY <1>1, <1>3, <1>4, <2>1 DEF Midway
  <2> QED
    BY <1>1, <1>2, <1>3, <1>5, <1>7, <1>8, <2>1, <2>2, FirstCallInSequence DEF InRename
<1>9. CASE RemoveOld(c) /\ Called(c, Dir!Delete(old), "recreate")
  <2>1. pc[c] = "decide" /\ idNumber'[c] = idNumber[c] /\ idNumber[c] # 0 /\ ret[c] = 0
    BY <1>9 DEF RemoveOld, MayRename, Returned, Goto
  <2>2. idNumber[c] = before[old] /\ ret[c] = before[new]
    BY <1>1, <1>3, <1>4, <2>1 DEF Midway
  <2> QED
    BY <1>1, <1>2, <1>3, <1>5, <1>7, <1>9, <2>1, <2>2, FirstCallInSequence DEF InRename
<1>10. CASE CreateNew(c) /\ Called(c, Dir!Create(new, idNumber[c]), "apply")
  <2>1. pc[c] = "recreate"
    BY <1>10 DEF CreateNew, Returned, Goto
  <2>2. /\ idNumber[c] = before[old] /\ before[old] # 0 /\ before[new] = 0
        /\ Dir!Entries = [before EXCEPT ![old] = 0]
    BY <1>1, <1>3, <1>4, <2>1 DEF Midway
  <2>3. After[Taken] = [[before EXCEPT ![old] = 0] EXCEPT ![new] = before[old]]
    BY <1>1, <1>2, <1>3, <1>7, <2>1, <2>2, AfterNext DEF InRename
  <2> DEFINE request == Dir!Create(new, idNumber[c])
  <2>4. request.op = "create" /\ request.name = new /\ request.inumber = idNumber[c]
    BY DEF Dir!Create
  <2>5. Called(c, request, "apply")
    BY <1>10
  <2> HIDE DEF request
  <2>6. After[Taken] = [Dir!Entries EXCEPT ![request.name] = request.inumber]
    BY <2>2, <2>3, <2>4
  <2> QED
    BY <1>1, <1>2, <1>3, <2>4, <2>5, <2>6, LastCallInSequence
<1> QED
  BY <1>6, <1>8, <1>9, <1>10 DEF Calls

Sequenced == Applying /\ SequenceInv

LEMMA StepSequenced == Sequenced /\ [Next]_vars => Sequenced'
<1> SUFFICES ASSUME Sequenced, [Next]_vars PROVE SequenceInv'
  BY StepApplying DEF Sequenced
<1>1. Applying /\ Applying' /\ SequenceInv
  BY StepApplying DEF Sequenced
<1> USE DEF Applying, Found, Given, Numbered, Ordered, Ringing, Calling
<1>2. args' = args
  BY ArgsFixed
<1> SUFFICES ASSUME Alone, NEW c \in args.threads PROVE InSequence(c)'
  BY <1>2 DEF SequenceInv, Alone
<1>3. c \in Consumers /\ args.threads = {c} /\ InSequence(c)
  BY <1>1, OnlyConsumer DEF SequenceInv
<1>4. Parse(c) \/ Calls(c) \/ KeepOld(c) \/ InDirectory(c) \/ Resting(c)
  BY <1>1, <1>3, AloneMoves
<1> QED
  BY <1>1, <1>2, <1>3, <1>4, ParseInSequence, CallsInSequence, KeepOldInSequence, DirectoryInSequence,
     RestingInSequence

LEMMA InitSequenced == Init => Sequenced
<1> SUFFICES ASSUME Init PROVE SequenceInv
  BY InitApplying DEF Sequenced
<1>1. Applying /\ Taken = 0 /\ args \in Arguments
  BY InitApplying DEF Init, Taken
<1>2. Count \in Nat
  BY <1>1, FiniteCommands
<1>3. After[0] = [n \in Names |-> 0]
  BY <1>2, AfterUnfolds DEF Unfolds
<1>4. Dir!Entries = [n \in Names |-> 0]
  BY DirHashRange DEF Init, Dir!Init, Dir!Entries, Dir!EmptyTree, Dir!Absent
<1>5. ASSUME NEW c \in args.threads PROVE InSequence(c)
  <2>1. c \in Consumers /\ c # Producer
    BY <1>1, PoolAssumption
  <2>2. pc[c] = "lock" /\ at[c] = "idle" /\ parsed[c].token = Missing
    BY <2>1 DEF Init, Dir!Init, Threads
  <2>3. Outcome(c) = After[0] /\ ~UnderWay(c)
    BY <1>3, <1>4, <2>2 DEF Outcome, UnderWay, InRename
  <2> QED
    BY <1>1, <1>2, <2>3 DEF InSequence
<1> QED
  BY <1>5 DEF SequenceInv

LEMMA FinishedSequence ==
  ASSUME Sequenced, status = "finished"
  PROVE  SequentialTree
<1> USE DEF Sequenced, Applying, Found, Given, Numbered, Ordered, Ringing, Calling
<1> SUFFICES ASSUME Alone PROVE Dir!Entries = After[Count]
  BY DEF SequentialTree
<1>1. PICK c \in Consumers : args.threads = {c}
  BY OnlyConsumer
<1>2. pc[c] = "done" /\ parsed[c].token = "x" /\ at[c] = "idle" /\ InSequence(c)
  BY <1>1 DEF ProducerInv, ConsumerInv, InCall, SequenceInv
<1>3. Taken \in Nat /\ Count \in Nat /\ ~(Taken <= Count)
  BY <1>2, Numbers DEF RingInv, Queue
<1> QED
  BY <1>2, <1>3 DEF InSequence, UnderWay, Outcome

\* A pool of one consumer leaves the tree that the commands of the file leave
\* one after the other (applyCommands with processInput): neither the ring, nor
\* the locks, nor a rename in four calls adds or loses anything.
THEOREM PoolSequentialTree == Spec => []SequentialTree
<1>1. Sequenced => SequentialTree
  BY FinishedSequence DEF SequentialTree
<1> QED
  BY <1>1, InitSequenced, StepSequenced, PTL DEF Spec

-----------------------------------------------------------------------------
\* The invariant of module CommandPool, on which these theorems rest, holds in
\* every state of the pool.
THEOREM PoolInvariant == Spec => []IInv
<1>1. Sequenced /\ TypeOK /\ UnitsInv => IInv
  BY DEF Sequenced, Applying, Found, Given, Numbered, Ordered, Ringing, Calling, IInv
<1>2. Sequenced /\ UnitsInv /\ [Next]_vars => UnitsInv'
  BY StepUnitsInv DEF Sequenced, Applying, Found, Given, Numbered, Ordered, Ringing, Calling
<1>3. Spec => [](Sequenced /\ UnitsInv)
  <2>1. Init => Sequenced /\ UnitsInv
    BY InitSequenced, InitUnitsInv
  <2>2. Sequenced /\ UnitsInv /\ [Next]_vars => (Sequenced /\ UnitsInv)'
    BY <1>2, StepSequenced
  <2> QED
    BY <2>1, <2>2, PTL DEF Spec
<1> QED
  BY <1>1, <1>3, PoolTypes, PTL

=============================================================================
