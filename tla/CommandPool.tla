---------------------------- MODULE CommandPool ----------------------------
(***************************************************************************)
(* The second delivery of TecnicoFS (Operating Systems/proj2/main.c): one  *)
(* producer thread reads the command file into a ring of MAX_COMMANDS      *)
(* slots, and a pool of consumer threads takes the commands out of the     *)
(* ring and applies them to the directory of module Directory.  Two        *)
(* semaphores count the free and the filled slots; "x" ends a consumer,    *)
(* which puts an "x" for the next one.                                     *)
(*                                                                         *)
(* A line of the file stands for its text, so a slot holds the number of a *)
(* line, 0 before it was ever written and -1 for the text "x".  The       *)
(* variable applied is history: what the consumers read from the ring, in  *)
(* the order they read it.                                                 *)
(***************************************************************************)
EXTENDS Integers, Sequences, FiniteSets

CONSTANTS Producer,      \* the thread that runs processInput
          Consumers,     \* the threads that can run applyCommands
          NoThread,      \* the holder of a free mutex
          Names, NoName, \* the file names; Missing when a line has none
          Missing,       \* a token that a line or a slot does not have
          Arguments,     \* the command lines the program may be called with
          MAX_COMMANDS,  \* the slots of inputCommands
          Buckets, FirstChar, Build

Lines == [token : {"c", "l", "r", "d", "#", "?"},
          name : Names \cup {Missing}, newName : Names \cup {Missing}]

Threads == Consumers \cup {Producer}
Slots   == 0 .. MAX_COMMANDS - 1
Empty   == 0
End     == -1

\* parseArgs refuses to run without consumers.  A rename has both names: one
\* that leaves the second out passes the test of its tokens, and what is in
\* newName then is not defined.
ASSUME PoolAssumption ==
  /\ Producer \notin Consumers /\ IsFiniteSet(Consumers)
  /\ NoThread \notin Threads
  /\ Missing \notin Names \cup {"c", "l", "r", "d", "x"}
  /\ MAX_COMMANDS \in Nat \ {0}
  /\ \A a \in Arguments : /\ a.file \in Seq(Lines)
                          /\ \A i \in DOMAIN a.file : a.file[i].token = "r" => a.file[i].newName # Missing
                          /\ a.threads \subseteq Consumers /\ a.threads # {}

VARIABLES args,              \* the lines of the command file, the pool's threads
          bstRoot, writer, readers, at, call, root, ret,  \* module Directory
          status,            \* the process: "running", "finished", "failed"
          pc,                \* pc[t]: where thread t stands
          lineNumber,        \* the lines the producer has read
          data,              \* data[t]: the argument of insertCommand
          inputCommands, prodpos, conspos,
          loadInputCommand, executeCommand,   \* the values of the semaphores
          commandsLock, loadLock,             \* the holders of the mutexes
          command,           \* command[c]: the slot removeCommand pointed at
          parsed,            \* parsed[c]: token, name, newName of thread c
          idNumber,          \* idNumber[c]: the i-number of the name to rename
          nextINumber,
          applied

dir     == <<bstRoot, writer, readers, at, call, root, ret>>
ring    == <<inputCommands, prodpos, conspos>>
sems    == <<loadInputCommand, executeCommand>>
mutexes == <<commandsLock, loadLock>>
locals  == <<command, parsed, idNumber>>
vars == <<args, dir, status, pc, lineNumber, data, ring, sems, mutexes, locals, nextINumber, applied>>

Dir == INSTANCE Directory WITH Threads <- Consumers, INumbers <- Nat \ {0}

\* DirAssumption of module Directory.
ASSUME PoolDirAssumption ==
  /\ NoName \notin Names /\ Buckets \in Nat \ {0}
  /\ FirstChar \in [Names -> Nat] /\ Build \in {"mutex", "rwlock"}

\* The lines of the command file.
Script == args.file

Init == /\ Dir!Init
        /\ args \in Arguments
        /\ status = "running"
        /\ pc = [t \in Threads |-> CASE t = Producer       -> "read"
                                    [] t \in args.threads -> "lock"
                                    [] OTHER              -> "none"]
        /\ lineNumber = 0
        /\ data = [t \in Threads |-> Empty]
        /\ inputCommands = [s \in Slots |-> Empty]
        /\ prodpos = 0 /\ conspos = 0
        /\ loadInputCommand = MAX_COMMANDS /\ executeCommand = 0
        /\ commandsLock = NoThread /\ loadLock = NoThread
        /\ command = [c \in Consumers |-> 0]
        /\ parsed = [c \in Consumers |-> [token |-> Missing, name |-> Missing, newName |-> Missing]]
        /\ idNumber = [c \in Consumers |-> 0]
        /\ nextINumber = 0
        /\ applied = <<>>

Goto(t, from, to) == /\ status = "running"
                     /\ pc[t] = from
                     /\ pc' = [pc EXCEPT ![t] = to]

-----------------------------------------------------------------------------
\* processInput.  A line that is empty or a comment is skipped; one that is
\* no command ends the program; the end of the file is announced with "x".
Valid(line) == line.token \in {"c", "l", "r", "d"} /\ line.name # Missing

\* Fault: the producer stops at a line that is no command, and says nothing.
ReadLineQuietly ==
  /\ lineNumber < Len(Script)
  /\ lineNumber' = lineNumber + 1
  /\ LET line == Script[lineNumber']
     IN \/ /\ line.token = "#"
           /\ Goto(Producer, "read", "read")
           /\ UNCHANGED data
        \/ /\ Valid(line)
           /\ Goto(Producer, "read", "semwait")
           /\ data' = [data EXCEPT ![Producer] = lineNumber']
        \/ /\ line.token # "#" /\ ~Valid(line)
           /\ Goto(Producer, "read", "done")
           /\ UNCHANGED data
  /\ UNCHANGED <<args, dir, status, ring, sems, mutexes, locals, nextINumber, applied>>

ReadLine ==
  /\ lineNumber < Len(Script)
  /\ lineNumber' = lineNumber + 1
  /\ LET line == Script[lineNumber']
     IN \/ /\ line.token = "#"
           /\ Goto(Producer, "read", "read")
           /\ UNCHANGED <<status, data>>
        \/ /\ Valid(line)
           /\ Goto(Producer, "read", "semwait")
           /\ data' = [data EXCEPT ![Producer] = lineNumber']
           /\ UNCHANGED status
        \/ /\ line.token # "#" /\ ~Valid(line)   \* errorParse: exit
           /\ Goto(Producer, "read", "done")
           /\ status' = "failed"
           /\ UNCHANGED data
  /\ UNCHANGED <<args, dir, ring, sems, mutexes, locals, nextINumber, applied>>

ReadEnd == /\ lineNumber = Len(Script)
           /\ Goto(Producer, "read", "semwait")
           /\ data' = [data EXCEPT ![Producer] = End]
           /\ UNCHANGED <<args, dir, status, lineNumber, ring, sems, mutexes, locals, nextINumber, applied>>

\* Fault: nobody waits for a free slot.
WaitLoadNot(t) == /\ Goto(t, "semwait", "strcpy")
                  /\ loadInputCommand' = loadInputCommand - 1
                  /\ UNCHANGED <<args, dir, status, lineNumber, data, ring, executeCommand, mutexes,
                                 locals, nextINumber, applied>>

\* insertCommand, by the producer and by a consumer that passes "x" on.
WaitLoad(t) == /\ Goto(t, "semwait", "strcpy")
               /\ loadInputCommand > 0
               /\ loadInputCommand' = loadInputCommand - 1
               /\ UNCHANGED <<args, dir, status, lineNumber, data, ring, executeCommand, mutexes,
                              locals, nextINumber, applied>>

CopyIn(t) == /\ Goto(t, "strcpy", "advance")
             /\ loadLock = NoThread
             /\ loadLock' = t
             /\ inputCommands' = [inputCommands EXCEPT ![prodpos] = data[t]]
             /\ UNCHANGED <<args, dir, status, lineNumber, data, prodpos, conspos, sems, commandsLock,
                            locals, nextINumber, applied>>

\* Fault: prodpos runs off the end of the ring.
AdvanceUnwrapped(t) == /\ Goto(t, "advance", "post")
                       /\ prodpos' = prodpos + 1
                       /\ loadLock' = NoThread
                       /\ UNCHANGED <<args, dir, status, lineNumber, data, inputCommands, conspos, sems,
                                      commandsLock, locals, nextINumber, applied>>

Advance(t) == /\ Goto(t, "advance", "post")
              /\ prodpos' = (prodpos + 1) % MAX_COMMANDS
              /\ loadLock' = NoThread
              /\ UNCHANGED <<args, dir, status, lineNumber, data, inputCommands, conspos, sems,
                             commandsLock, locals, nextINumber, applied>>

AfterInsert(t) == IF t \in Consumers THEN "extra" ELSE IF data[t] = End THEN "done" ELSE "read"

\* Fault: a command is stored and not announced.
PostNothing(t) == /\ Goto(t, "post", AfterInsert(t))
                  /\ UNCHANGED <<args, dir, status, lineNumber, data, ring, sems, mutexes, locals,
                                 nextINumber, applied>>

PostExecute(t) == /\ Goto(t, "post", AfterInsert(t))
                  /\ executeCommand' = executeCommand + 1
                  /\ UNCHANGED <<args, dir, status, lineNumber, data, ring, loadInputCommand, mutexes,
                                 locals, nextINumber, applied>>

insertCommand(t) == WaitLoad(t) \/ CopyIn(t) \/ Advance(t) \/ PostExecute(t)

-----------------------------------------------------------------------------
\* Fault: commandsLock keeps nobody out.
LockCommandsNot(c) == /\ Goto(c, "lock", "wait")
                      /\ commandsLock' = c
                      /\ UNCHANGED <<args, dir, status, lineNumber, data, ring, sems, loadLock, locals,
                                     nextINumber, applied>>

\* The part of applyCommands that runs under commandsLock: removeCommand,
\* the sscanf of the command and the release of its slot.
LockCommands(c) == /\ Goto(c, "lock", "wait")
                   /\ commandsLock = NoThread
                   /\ commandsLock' = c
                   /\ UNCHANGED <<args, dir, status, lineNumber, data, ring, sems, loadLock, locals,
                                  nextINumber, applied>>

\* Fault: nobody waits for a command.
WaitExecuteNot(c) == /\ Goto(c, "wait", "take")
                     /\ executeCommand' = executeCommand - 1
                     /\ UNCHANGED <<args, dir, status, lineNumber, data, ring, loadInputCommand, mutexes,
                                    locals, nextINumber, applied>>

WaitExecute(c) == /\ Goto(c, "wait", "take")
                  /\ executeCommand > 0
                  /\ executeCommand' = executeCommand - 1
                  /\ UNCHANGED <<args, dir, status, lineNumber, data, ring, loadInputCommand, mutexes,
                                 locals, nextINumber, applied>>

\* executeLock is taken under commandsLock only, so its section is one step.
TakeSlot(c) == /\ Goto(c, "take", "sscanf")
               /\ command' = [command EXCEPT ![c] = conspos]
               /\ conspos' = (conspos + 1) % MAX_COMMANDS
               /\ UNCHANGED <<args, dir, status, lineNumber, data, inputCommands, prodpos, sems, mutexes,
                              parsed, idNumber, nextINumber, applied>>

\* What sscanf finds in a slot.  It leaves the variables of the tokens it
\* does not find as the previous command of the thread left them.
Text(s) == CASE s = Empty -> [token |-> Missing, name |-> Missing, newName |-> Missing]
             [] s = End   -> [token |-> "x", name |-> Missing, newName |-> Missing]
             [] OTHER     -> Script[s]

Scanned(old, new) == IF new = Missing THEN old ELSE new
sscanf(old, text) == [token   |-> Scanned(old.token, text.token),
                      name    |-> Scanned(old.name, text.name),
                      newName |-> Scanned(old.newName, text.newName)]

Parse(c) == /\ Goto(c, "sscanf", "free")
            /\ parsed' = [parsed EXCEPT ![c] = sscanf(@, Text(inputCommands[command[c]]))]
            /\ applied' = Append(applied, inputCommands[command[c]])
            /\ UNCHANGED <<args, dir, status, lineNumber, data, ring, sems, mutexes, command, idNumber,
                           nextINumber>>

FreeSlot(c) == /\ Goto(c, "free", "switch")
               /\ loadInputCommand' = loadInputCommand + 1
               /\ UNCHANGED <<args, dir, status, lineNumber, data, ring, executeCommand, mutexes, locals,
                              nextINumber, applied>>

\* The switch on the token.  Every case releases commandsLock; 'c' takes its
\* i-number before it does.  A call of fs.c starts here and runs on by itself.
Start(c, request, next) == /\ Goto(c, "switch", next)
                           /\ commandsLock' = NoThread
                           /\ Dir!Invoke(c, request)
                           /\ UNCHANGED <<args, status, lineNumber, data, ring, sems, loadLock, locals, applied>>

obtainNewInumber == nextINumber' = nextINumber + 1

DoCreate(c) == /\ parsed[c].token = "c"
               /\ obtainNewInumber
               /\ Start(c, Dir!Create(parsed[c].name, nextINumber'), "apply")
DoLookup(c) == /\ parsed[c].token = "l"
               /\ Start(c, Dir!Lookup(parsed[c].name), "apply")
               /\ UNCHANGED nextINumber
DoDelete(c) == /\ parsed[c].token = "d"
               /\ Start(c, Dir!Delete(parsed[c].name), "apply")
               /\ UNCHANGED nextINumber
DoRename(c) == /\ parsed[c].token = "r"
               /\ Start(c, Dir!Lookup(parsed[c].name), "lookupNew")
               /\ UNCHANGED nextINumber

\* Fault: a consumer that ends does not pass "x" on.
DoEndAlone(c) == /\ parsed[c].token = "x"
                 /\ Goto(c, "switch", "done")
                 /\ commandsLock' = NoThread
                 /\ UNCHANGED <<args, dir, status, lineNumber, data, ring, sems, loadLock, locals,
                                nextINumber, applied>>

\* "x": the consumer puts the next "x" before it ends.
DoEnd(c) == /\ parsed[c].token = "x"
            /\ Goto(c, "switch", "semwait")
            /\ commandsLock' = NoThread
            /\ data' = [data EXCEPT ![c] = End]
            /\ UNCHANGED <<args, dir, status, lineNumber, ring, sems, loadLock, locals, nextINumber, applied>>

\* default: exit(EXIT_FAILURE) takes the whole process with it.
DoFail(c) == /\ parsed[c].token \notin {"c", "l", "d", "r", "x"}
             /\ Goto(c, "switch", "done")
             /\ commandsLock' = NoThread
             /\ status' = "failed"
             /\ UNCHANGED <<args, dir, lineNumber, data, ring, sems, loadLock, locals, nextINumber, applied>>

Switch(c) == DoCreate(c) \/ DoLookup(c) \/ DoDelete(c) \/ DoRename(c) \/ DoEnd(c) \/ DoFail(c)

\* The calls of fs.c run without commandsLock, one after the other.
InDirectory(c) == /\ status = "running"
                  /\ Dir!Step(c)
                  /\ UNCHANGED <<args, status, pc, lineNumber, data, ring, sems, mutexes, locals,
                                 nextINumber, applied>>

Returned(c, from, to) == /\ at[c] = "idle"
                         /\ Goto(c, from, to)
                         /\ UNCHANGED <<args, status, lineNumber, data, ring, sems, mutexes, command,
                                        parsed, nextINumber, applied>>

LookupNew(c) == /\ Returned(c, "lookupNew", "decide")
                /\ idNumber' = [idNumber EXCEPT ![c] = ret[c]]
                /\ Dir!Invoke(c, Dir!Lookup(parsed[c].newName))

\* Fault: a rename overwrites the file that has the new name.
MayRenameOver(c) == idNumber[c] # 0

MayRename(c) == idNumber[c] # 0 /\ ret[c] = 0

RemoveOld(c) == /\ MayRename(c)
                /\ Returned(c, "decide", "recreate")
                /\ Dir!Invoke(c, Dir!Delete(parsed[c].name))
                /\ UNCHANGED idNumber

KeepOld(c) == /\ ~MayRename(c)
              /\ Returned(c, "decide", "lock")
              /\ UNCHANGED <<dir, idNumber>>

\* Fault: the new name gets the i-number given last and not the one looked up.
CreateNewLast(c) == /\ Returned(c, "recreate", "apply")
                    /\ Dir!Invoke(c, Dir!Create(parsed[c].newName, nextINumber))
                    /\ UNCHANGED idNumber

CreateNew(c) == /\ Returned(c, "recreate", "apply")
                /\ Dir!Invoke(c, Dir!Create(parsed[c].newName, idNumber[c]))
                /\ UNCHANGED idNumber

Applied(c) == /\ Returned(c, "apply", "lock")
              /\ UNCHANGED <<dir, idNumber>>

\* The sem_post after insertCommand("x"), and the end of the thread.
ExtraPost(c) == /\ Goto(c, "extra", "done")
                /\ executeCommand' = executeCommand + 1
                /\ UNCHANGED <<args, dir, status, lineNumber, data, ring, loadInputCommand, mutexes,
                               locals, nextINumber, applied>>

applyCommands(c) ==
  \/ LockCommands(c) \/ WaitExecute(c) \/ TakeSlot(c) \/ Parse(c) \/ FreeSlot(c) \/ Switch(c)
  \/ LookupNew(c) \/ RemoveOld(c) \/ KeepOld(c) \/ CreateNew(c) \/ Applied(c) \/ ExtraPost(c)

-----------------------------------------------------------------------------
\* main joins every thread and prints the tree.
Join == /\ status = "running"
        /\ \A t \in args.threads \cup {Producer} : pc[t] = "done"
        /\ status' = "finished"
        /\ UNCHANGED <<args, dir, pc, lineNumber, data, ring, sems, mutexes, locals, nextINumber, applied>>

Exited == status # "running" /\ UNCHANGED vars

ThreadStep(t) == insertCommand(t) \/ (t \in Consumers /\ (applyCommands(t) \/ InDirectory(t)))

Next == \/ ReadLine \/ ReadEnd
        \/ \E t \in Threads : ThreadStep(t)
        \/ Join
        \/ Exited

\* The threads run on a fair scheduler and nothing else is assumed: a thread
\* that could go on for ever goes on.
Fairness == /\ WF_vars(ReadLine \/ ReadEnd)
            /\ \A t \in Threads : WF_vars(ThreadStep(t))
            /\ WF_vars(Join)

Spec == Init /\ [][Next]_vars /\ Fairness

-----------------------------------------------------------------------------
\* The commands of the file, in order: what a program without a pool would
\* apply.  Nothing after a line that is no command is ever read.
Stop         == {i \in DOMAIN Script : Script[i].token # "#" /\ ~Valid(Script[i])}
CommandLines == {i \in DOMAIN Script : Valid(Script[i]) /\ \A j \in Stop : i < j}
Count        == Cardinality(CommandLines)
Place(i)     == Cardinality({j \in CommandLines : j <= i})
Commands     == LET lines == CommandLines
                IN [k \in 1 .. Cardinality(lines) |->
                      CHOOSE i \in lines : Cardinality({j \in lines : j <= i}) = k]

\* The k-th text the producer puts into the ring.
Item(k) == IF k <= Count THEN Commands[k] ELSE End

\* The rank of a line among the creates of the file.
Rank(i) == Cardinality({j \in CommandLines : j <= i /\ Script[j].token = "c"})

Texts   == {Empty, End} \cup CommandLines
Tokens  == {"c", "l", "r", "d"}
Scans   == [token : Tokens \cup {"x", Missing}, name : Names \cup {Missing}, newName : Names \cup {Missing}]

InLoop    == {"lock", "wait", "take", "sscanf", "free", "switch"}
InCall    == {"lookupNew", "decide", "recreate", "apply"}
Inserting == {"semwait", "strcpy", "advance", "post"}

TypeOK ==
  /\ Dir!TypeOK
  /\ args \in Arguments
  /\ status \in {"running", "finished", "failed"}
  /\ pc \in [Threads -> {"none", "read", "extra", "done"} \cup InLoop \cup InCall \cup Inserting]
  /\ lineNumber \in 0 .. Len(Script)
  /\ data \in [Threads -> Texts]
  /\ inputCommands \in [Slots -> Texts]
  /\ prodpos \in Slots /\ conspos \in Slots
  /\ loadInputCommand \in 0 .. MAX_COMMANDS + Cardinality(Consumers)
  /\ executeCommand \in 0 .. MAX_COMMANDS + Cardinality(Consumers)
  /\ commandsLock \in Consumers \cup {NoThread}
  /\ loadLock \in Threads \cup {NoThread}
  /\ command \in [Consumers -> Slots]
  /\ parsed \in [Consumers -> Scans]
  /\ idNumber \in [Consumers -> Nat]
  /\ nextINumber \in Nat
  /\ applied \in Seq(Texts)

\* Up to two consumers; the third to end leaves surplus units in a semaphore.
AtMostTwo == Cardinality(args.threads) <= 2

\* The ring hands every command of the file to exactly one consumer, in the
\* order of the file, and "x" only after the last: no slot is overwritten
\* before it is read, none is read before it is written or twice.  So it is
\* with two consumers at most.
FileOrder ==
  AtMostTwo => \A i \in DOMAIN applied : applied[i] = Item(i)

\* What is left of it with any number of consumers: the first commands read
\* are those of the file, in order, whatever is read after the first "x".
Delivered ==
  \A i \in DOMAIN applied : i <= Count => applied[i] = Commands[i]

\* The i-number of a create is its rank among the creates of the file, however
\* the consumers interleave: it is taken before commandsLock is released.
INumbersFollowFile ==
  \A c \in Consumers :
    /\ AtMostTwo
    /\ pc[c] = "apply" /\ parsed[c].token = "c" /\ at[c] # "idle"
    => \E i \in CommandLines : /\ Script[i].token = "c" /\ Script[i].name = call[c].name
                               /\ Rank(i) = call[c].inumber

\* What the commands leave in the directory, applied one after the other:
\* After[k] is what the first k of them leave.
Apply(entries, i) ==
  LET line == Script[i] IN
  CASE line.token = "c" -> [entries EXCEPT ![line.name] = Rank(i)]
    [] line.token = "d" -> [entries EXCEPT ![line.name] = 0]
    [] line.token = "r" -> IF entries[line.name] # 0 /\ entries[line.newName] = 0
                           THEN [entries EXCEPT ![line.name] = 0,
                                                ![line.newName] = entries[line.name]]
                           ELSE entries
    [] line.token = "l" -> entries
After[k \in 0 .. Count] == IF k = 0 THEN [n \in Names |-> 0] ELSE Apply(After[k - 1], Commands[k])

\* One consumer.
Alone == Cardinality(args.threads) = 1

\* One consumer leaves the tree that the commands leave one after the other:
\* the threads and the ring between the file and the directory add nothing.
SequentialTree ==
  Alone /\ status = "finished" => Dir!Entries = After[Count]

\* With a second consumer two commands on one name race, and a rename to a name
\* may come before or after its other name got its file.
Touches(line, n) == \/ line.token \in {"c", "d"} /\ line.name = n
                    \/ line.token = "r" /\ n \in {line.name, line.newName}
Updaters(n) == {i \in CommandLines : Touches(Script[i], n)}
Raced(n) == \/ \E i, j \in Updaters(n) : i # j
            \/ \E i \in Updaters(n) : Script[i].token = "r" /\ Script[i].newName = n

\* When the program prints the tree, a name that one command of the file
\* touches has what that command gave it: no update of another name, in the
\* same bucket or not, has undone it, and the pool has not lost the command.
FinalTree ==
  AtMostTwo /\ status = "finished" =>
    \A n \in Names : ~Raced(n) =>
      /\ \A i \in Updaters(n) : Dir!Entries[n] = IF Script[i].token = "c" THEN Rank(i) ELSE 0
      /\ Updaters(n) = {} => Dir!Entries[n] = 0

\* The renames of the file lead from one name to another.
Closed(S) == \A i \in CommandLines : Script[i].token = "r" /\ Script[i].name \in S => Script[i].newName \in S
Leads(m, n) == \A S \in SUBSET Names : m \in S /\ Closed(S) => n \in S

\* A file that was created with the i-number v may be found under the name n.
Origin(v, n) == \E i \in CommandLines : Script[i].token = "c" /\ Rank(i) = v /\ Leads(Script[i].name, n)

\* Although a rename is four calls that other threads run between, an i-number
\* is only ever found under the name it was created for or under a name that
\* the renames of the file lead to from there, and it is never one that no
\* create was given.
RenameReach ==
  \A n \in Names : AtMostTwo /\ Dir!Entries[n] # 0 => Origin(Dir!Entries[n], n)

\* The program ends: every consumer gets an "x" and no thread waits for ever
\* at a semaphore, at a lock or at a join.  With a third consumer it need not:
\* one that reads an old command uses up the unit another waits for.
Termination == AtMostTwo => <>(status # "running")

\* After the end of the commands nothing is executed any more
\* (processInput: "fim de comandos a executar").
NothingAfterEnd ==
  \A i, j \in DOMAIN applied : i < j /\ applied[i] = End => applied[j] = End
-----------------------------------------------------------------------------
\* The inductive invariant behind these properties.
Critical == {"wait", "take", "sscanf", "free", "switch"}
InRename == {"lookupNew", "decide", "recreate"}
Ending   == {"free", "switch", "extra", "done"} \cup Inserting

\* The directory: DirectoryProofs proves this invariant of it.
DirInv == Dir!IInv

\* Where the threads stand, and what their variables are there.
ConsumerInv == \A c \in Consumers :
  /\ pc[c] \in Critical <=> commandsLock = c
  /\ pc[c] = "none" <=> c \notin args.threads
  /\ pc[c] # "read"
  /\ pc[c] \notin InCall => at[c] = "idle"
  /\ pc[c] \in InCall => parsed[c].token \in Tokens
  /\ pc[c] \in InRename => parsed[c].token = "r"
  /\ pc[c] = "recreate" => idNumber[c] # 0
  /\ pc[c] \in Inserting => data[c] = End
  /\ pc[c] \in Inserting \cup {"extra"} => parsed[c].token = "x"
  /\ parsed[c].token = "x" => pc[c] \in Ending
  /\ pc[c] = "done" /\ status # "failed" => parsed[c].token = "x"

ProducerInv ==
  /\ pc[Producer] \in {"read", "done"} \cup Inserting
  /\ pc[Producer] = "read" => data[Producer] # End
  /\ status = "running" => \A j \in Stop : lineNumber < j
  /\ status = "finished" => \A t \in args.threads \cup {Producer} : pc[t] = "done"

\* A unit of the semaphores is a free slot, a filled slot, or in the hands of a
\* thread; only a consumer that ends makes one more.
Carrying == {t \in Threads : pc[t] \in {"strcpy", "advance", "post", "take", "sscanf", "free"}}
Ended    == {c \in Consumers : pc[c] = "done"}
UnitsInv == loadInputCommand + executeCommand + Cardinality(Carrying) <= MAX_COMMANDS + Cardinality(Ended)

\* What a consumer has read is a command of the file, and what it calls is what
\* it has read.
Reads(c, line) == /\ parsed[c].token = line.token /\ parsed[c].name = line.name
                  /\ line.token = "r" => parsed[c].newName = line.newName
ReadInv == \A c \in Consumers :
  parsed[c].token \in Tokens => \E i \in CommandLines : Reads(c, Script[i])

CallInv == \A c \in Consumers : at[c] # "idle" =>
  /\ pc[c] = "lookupNew" => call[c] = Dir!Lookup(parsed[c].name)
  /\ call[c].op = "create" => /\ pc[c] = "apply"
                              /\ \/ parsed[c].token = "c" /\ call[c].name = parsed[c].name
                                 \/ parsed[c].token = "r" /\ call[c].name = parsed[c].newName
  /\ call[c].op = "delete" => parsed[c].token \in {"d", "r"} /\ call[c].name = parsed[c].name
  /\ parsed[c].token = "c" => call[c].op = "create"

\* How many commands the producer has begun to insert, "x" with them, and how
\* many of these are not yet past the places; the same for the one consumer
\* that holds commandsLock.
Begun            == Place(lineNumber) + (IF data[Producer] = End THEN 1 ELSE 0)
Producing(places) == IF pc[Producer] \in places THEN 1 ELSE 0
Consuming(places) == IF \E c \in Consumers : pc[c] \in places THEN 1 ELSE 0
Taken            == Len(applied)

\* Until all commands of the file were read the ring is a queue: the indices and
\* the semaphores say how many were written and read, and every slot between
\* them holds its command.
Queue ==
  /\ \A c \in Consumers : parsed[c].token # "x"
  /\ pc[Producer] \in Inserting => data[Producer] = Item(Begun)
  /\ loadInputCommand = MAX_COMMANDS - (Begun - Producing({"semwait"})) + Taken - Consuming({"free"})
  /\ executeCommand = Begun - Producing(Inserting) - Taken - Consuming({"take", "sscanf"})
  /\ prodpos = (Begun - Producing(Inserting \ {"post"})) % MAX_COMMANDS
  /\ conspos = (Taken + Consuming({"sscanf"})) % MAX_COMMANDS
  /\ \A k \in Taken + 1 .. Begun - Producing({"semwait", "strcpy"}) :
       inputCommands[(k - 1) % MAX_COMMANDS] = Item(k)
  /\ \A c \in Consumers : pc[c] = "sscanf" => command[c] = Taken % MAX_COMMANDS

RingInv == Taken <= Count => Queue

\* Then one consumer has read "x", and the other may take the slot only after
\* the first has put the next "x" there.
Posted(e) == IF pc[e] = "extra" THEN 1 ELSE IF pc[e] = "done" THEN 2 ELSE 0
OneEnded(e) ==
  /\ Taken = Count + 1
  /\ parsed[e].token = "x"
  /\ \A c \in Consumers \ {e} : parsed[c].token # "x" /\ pc[c] \notin {"free", "switch"}
  /\ executeCommand + Consuming({"take", "sscanf"}) = Posted(e)
  /\ prodpos = (Count + 1 + (IF pc[e] \in {"post", "extra", "done"} THEN 1 ELSE 0)) % MAX_COMMANDS
  /\ conspos = (Count + 1 + Consuming({"sscanf"})) % MAX_COMMANDS
  /\ pc[e] \in {"advance", "post", "extra", "done"} => inputCommands[(Count + 1) % MAX_COMMANDS] = End
  /\ \A c \in Consumers : pc[c] = "sscanf" => command[c] = (Count + 1) % MAX_COMMANDS

AllEnded == Taken = Count + 2 /\ \A c \in args.threads : parsed[c].token = "x"

EndInv == AtMostTwo /\ Taken > Count =>
  /\ pc[Producer] = "done"
  /\ AllEnded \/ \E e \in args.threads : OneEnded(e)

\* The i-numbers given are as many as the creates that were read, but for the
\* one whose consumer still holds commandsLock.
CreatesRead == {i \in CommandLines : Place(i) <= Taken /\ Script[i].token = "c"}
CreateDue   == \E c \in Consumers : pc[c] \in {"free", "switch"} /\ parsed[c].token = "c"
NumberInv == AtMostTwo \/ Taken <= Count =>
  /\ nextINumber + (IF CreateDue THEN 1 ELSE 0) = Cardinality(CreatesRead)
  /\ \A c \in Consumers : pc[c] \in {"free", "switch"} =>
       IF Taken <= Count THEN Taken > 0 /\ Reads(c, Script[Commands[Taken]])
                         ELSE parsed[c].token = "x"

\* Every i-number in the directory, or on its way there, comes from a create.
OriginInv == AtMostTwo =>
  /\ \A b \in Dir!Indices, n \in Names : bstRoot[b][n] # 0 => Origin(bstRoot[b][n], n)
  /\ \A c \in Consumers :
       /\ at[c] # "idle" /\ call[c].op = "create" => Origin(call[c].inumber, call[c].name)
       /\ pc[c] = "lookupNew" /\ at[c] \in {"unlock", "idle"} /\ ret[c] # 0 => Origin(ret[c], parsed[c].name)
       /\ pc[c] \in {"decide", "recreate"} /\ idNumber[c] # 0 => Origin(idNumber[c], parsed[c].name)

\* A create that was read and is in no consumer's hands is in the directory.
Busy(n) == \E c \in Consumers :
  /\ parsed[c].token = "c" /\ parsed[c].name = n
  /\ \/ pc[c] \in {"free", "switch"}
     \/ pc[c] = "apply" /\ at[c] \in {"lock", "load", "store"}
AppliedInv == AtMostTwo =>
  \A n \in Names : ~Raced(n) =>
    /\ (\A i \in Updaters(n) : Script[i].token # "c") => Dir!Entries[n] = 0
    /\ \A i \in Updaters(n) : Script[i].token = "c" /\ Place(i) <= Taken /\ ~Busy(n) => Dir!Entries[n] = Rank(i)

\* What the directory holds when the call a consumer is in has taken effect.
Outcome(c) == IF at[c] \in {"lock", "load", "store"} /\ call[c].op # "lookup"
              THEN [Dir!Entries EXCEPT ![call[c].name] = call[c].inumber]
              ELSE Dir!Entries

\* A consumer that is alone has the directory as its commands leave it, the last
\* one excepted until it has taken effect; on the way through a rename it knows
\* what the directory has under both names.
UnderWay(c) == pc[c] \in {"free", "switch"} \cup InRename /\ parsed[c].token # "x"
Answered(c) == at[c] \in {"unlock", "idle"}
Midway(c) ==
  LET before == After[Taken - 1]
      old    == parsed[c].name
      new    == parsed[c].newName
  IN /\ pc[c] # "recreate" => Outcome(c) = before
     /\ pc[c] = "lookupNew" /\ Answered(c) => ret[c] = before[old]
     /\ pc[c] = "decide" => /\ idNumber[c] = before[old]
                            /\ IF Answered(c) THEN ret[c] = before[new] ELSE call[c] = Dir!Lookup(new)
     /\ pc[c] = "recreate" => /\ idNumber[c] = before[old] /\ before[old] # 0 /\ before[new] = 0
                              /\ Outcome(c) = [before EXCEPT ![old] = 0]

InSequence(c) ==
  /\ parsed[c].token # "x" => Taken <= Count /\ (Taken > 0 => Reads(c, Script[Commands[Taken]]))
  /\ IF UnderWay(c) THEN Taken > 0 /\ Midway(c)
     ELSE Outcome(c) = After[IF Taken <= Count THEN Taken ELSE Count]
SequenceInv == Alone => \A c \in args.threads : InSequence(c)

IInv == /\ TypeOK /\ DirInv /\ ConsumerInv /\ ProducerInv /\ UnitsInv
        /\ ReadInv /\ CallInv
        /\ RingInv /\ EndInv /\ Delivered /\ FileOrder
        /\ NumberInv /\ INumbersFollowFile /\ OriginInv /\ AppliedInv /\ SequenceInv
=============================================================================
