----------------------------- MODULE VectorPool -----------------------------
(***************************************************************************)
(* The first delivery of TecnicoFS (Operating Systems/proj1: main.c,       *)
(* fs.c).  main reads the whole command file into a vector, then starts a  *)
(* pool of threads that empty it: trincoVetor protects the vector and the  *)
(* counter of i-numbers, trincoBst (or a read-write lock that is only ever *)
(* taken for writing) the one tree of the directory.                       *)
(*                                                                         *)
(* The variable taken is history: the places of the vector the threads     *)
(* took, in the order they took them.                                      *)
(***************************************************************************)
EXTENDS Integers, Sequences, FiniteSets, FiniteSetsExt

CONSTANTS Threads,       \* the threads of the pool
          NoThread,      \* the holder of a free mutex
          Names,
          Missing,       \* the name a line does not have
          Scripts,       \* the command files
          MAX_COMMANDS

Lines == [token : {"c", "l", "d", "#", "?"}, name : Names \cup {Missing}]

ASSUME VectorAssumption ==
  /\ NoThread \notin Threads /\ Threads # {}
  /\ Missing \notin Names
  /\ Scripts \subseteq Seq(Lines)
  /\ MAX_COMMANDS \in Nat \ {0}

\* errorParse does not end the program: a line without a command is skipped,
\* and a command without a name is stored all the same.  A command that finds
\* the vector full ends the reading.
processInput(script) ==
  LET commands == {k \in DOMAIN script : script[k].token \in {"c", "l", "d"}}
      before(k) == {j \in commands : j <= k}
  IN [i \in 1 .. Min({Cardinality(commands), MAX_COMMANDS}) |->
        script[CHOOSE k \in commands : Cardinality(before(k)) = i]]

VARIABLES inputCommands, numberCommands, headQueue,
          trincoVetor, trincoBst,   \* the holders of the locks
          bstRoot,                  \* the tree, as the map it holds
          nextINumber,
          status,                   \* the process: "running", "finished", "failed"
          pc,                       \* pc[t]: where thread t stands in applyCommands
          command,                  \* command[t]: the place removeCommand returned
          iNumber,                  \* iNumber[t]: as the last create of t left it
          root,                     \* root[t]: the root create or delete has read
          taken

vector == <<inputCommands, numberCommands, headQueue>>
vars == <<vector, trincoVetor, trincoBst, bstRoot, nextINumber, status, pc,
          command, iNumber, root, taken>>

EmptyTree == [n \in Names |-> 0]

\* main, up to the creation of the threads.
Init == /\ \E script \in Scripts : inputCommands = processInput(script)
        /\ numberCommands = Len(inputCommands)
        /\ headQueue = 0
        /\ trincoVetor = NoThread /\ trincoBst = NoThread
        /\ bstRoot = EmptyTree
        /\ nextINumber = 0
        /\ status = "running"
        /\ pc = [t \in Threads |-> "while"]
        /\ command = [t \in Threads |-> 0]
        /\ iNumber = [t \in Threads |-> 0]
        /\ root = [t \in Threads |-> EmptyTree]
        /\ taken = <<>>

Goto(t, from, to) == /\ status = "running"
                     /\ pc[t] = from
                     /\ pc' = [pc EXCEPT ![t] = to]

-----------------------------------------------------------------------------
\* while(numberCommands > 0): read without the lock.
While(t) == /\ Goto(t, "while", IF numberCommands > 0 THEN "lock" ELSE "done")
            /\ UNCHANGED <<vector, trincoVetor, trincoBst, bstRoot, nextINumber, status,
                           command, iNumber, root, taken>>

\* Fault: trincoVetor keeps nobody out.
LockVectorNot(t) == /\ Goto(t, "lock", "remove")
                    /\ trincoVetor' = t
                    /\ UNCHANGED <<vector, trincoBst, bstRoot, nextINumber, status, command,
                                   iNumber, root, taken>>

LockVector(t) == /\ Goto(t, "lock", "remove")
                 /\ trincoVetor = NoThread
                 /\ trincoVetor' = t
                 /\ UNCHANGED <<vector, trincoBst, bstRoot, nextINumber, status, command,
                                iNumber, root, taken>>

\* Fault: the commands are taken from the end of the vector.
removeLast(t) == /\ numberCommands > 0
                 /\ Goto(t, "remove", "sscanf")
                 /\ numberCommands' = numberCommands - 1
                 /\ headQueue' = headQueue + 1
                 /\ command' = [command EXCEPT ![t] = numberCommands]
                 /\ taken' = Append(taken, numberCommands)
                 /\ UNCHANGED <<inputCommands, trincoVetor, trincoBst, bstRoot, nextINumber,
                                status, iNumber, root>>

removeCommand(t) == /\ numberCommands > 0
                    /\ Goto(t, "remove", "sscanf")
                    /\ numberCommands' = numberCommands - 1
                    /\ headQueue' = headQueue + 1
                    /\ command' = [command EXCEPT ![t] = headQueue']
                    /\ taken' = Append(taken, headQueue')
                    /\ UNCHANGED <<inputCommands, trincoVetor, trincoBst, bstRoot, nextINumber,
                                   status, iNumber, root>>

\* removeCommand returns NULL, and continue leaves trincoVetor locked.
NoCommand(t) == /\ numberCommands = 0
                /\ Goto(t, "remove", "while")
                /\ UNCHANGED <<vector, trincoVetor, trincoBst, bstRoot, nextINumber, status,
                               command, iNumber, root, taken>>

Line(t) == inputCommands[command[t]]

\* Fault: a malformed command is skipped with the lock held.
MalformedSkipped(t) == /\ Goto(t, "sscanf", "while")
                       /\ Line(t).name = Missing
                       /\ UNCHANGED <<vector, trincoVetor, trincoBst, bstRoot, nextINumber, status,
                                      command, iNumber, root, taken>>

\* sscanf finds less than two tokens: exit.
Malformed(t) == /\ Goto(t, "sscanf", "done")
                /\ Line(t).name = Missing
                /\ status' = "failed"
                /\ UNCHANGED <<vector, trincoVetor, trincoBst, bstRoot, nextINumber, command,
                               iNumber, root, taken>>

obtainNewInumber(t) == /\ nextINumber' = nextINumber + 1
                       /\ iNumber' = [iNumber EXCEPT ![t] = nextINumber']

Parse(t) == /\ Goto(t, "sscanf", "unlock")
            /\ Line(t).name # Missing
            /\ IF Line(t).token = "c" THEN obtainNewInumber(t)
                                      ELSE UNCHANGED <<nextINumber, iNumber>>
            /\ UNCHANGED <<vector, trincoVetor, trincoBst, bstRoot, status, command, root, taken>>

UnlockVector(t) == /\ Goto(t, "unlock", "lockBst")
                   /\ trincoVetor' = NoThread
                   /\ UNCHANGED <<vector, trincoBst, bstRoot, nextINumber, status, command,
                                  iNumber, root, taken>>

\* Fault: trincoBst keeps nobody out.
LockBstNot(t) == /\ Goto(t, "lockBst", "load")
                 /\ trincoBst' = t
                 /\ UNCHANGED <<vector, trincoVetor, bstRoot, nextINumber, status, command,
                                iNumber, root, taken>>

\* lock(), the call of fs.c in its two halves, unlock().
LockBst(t) == /\ Goto(t, "lockBst", "load")
              /\ trincoBst = NoThread
              /\ trincoBst' = t
              /\ UNCHANGED <<vector, trincoVetor, bstRoot, nextINumber, status, command,
                             iNumber, root, taken>>

Load(t) == /\ pc[t] = "load"
           /\ Goto(t, "load", IF Line(t).token = "l" THEN "unlockBst" ELSE "store")
           /\ root' = [root EXCEPT ![t] = bstRoot]
           /\ UNCHANGED <<vector, trincoVetor, trincoBst, bstRoot, nextINumber, status, command,
                          iNumber, taken>>

Store(t) == /\ Goto(t, "store", "unlockBst")
            /\ bstRoot' = [root[t] EXCEPT ![Line(t).name] =
                             IF Line(t).token = "c" THEN iNumber[t] ELSE 0]
            /\ UNCHANGED <<vector, trincoVetor, trincoBst, nextINumber, status, command,
                           iNumber, root, taken>>

UnlockBst(t) == /\ Goto(t, "unlockBst", "while")
                /\ trincoBst' = NoThread
                /\ root' = [root EXCEPT ![t] = EmptyTree]
                /\ UNCHANGED <<vector, trincoVetor, bstRoot, nextINumber, status, command,
                               iNumber, taken>>

applyCommands(t) ==
  \/ While(t) \/ LockVector(t) \/ removeCommand(t) \/ NoCommand(t)
  \/ Malformed(t) \/ Parse(t) \/ UnlockVector(t)
  \/ LockBst(t) \/ Load(t) \/ Store(t) \/ UnlockBst(t)

\* main joins the threads and prints the tree.
Join == /\ status = "running"
        /\ \A t \in Threads : pc[t] = "done"
        /\ status' = "finished"
        /\ UNCHANGED <<vector, trincoVetor, trincoBst, bstRoot, nextINumber, pc, command,
                       iNumber, root, taken>>

Exited == status # "running" /\ UNCHANGED vars

Next == (\E t \in Threads : applyCommands(t)) \/ Join \/ Exited

\* Every thread that can run runs, and so does main.
Fairness == (\A t \in Threads : WF_vars(applyCommands(t))) /\ WF_vars(Join)

Spec == Init /\ [][Next]_vars /\ Fairness

-----------------------------------------------------------------------------
\* The vector hands out its commands in the order of the file, each to one
\* thread, although numberCommands is read without trincoVetor; and when the
\* threads have ended none is left.
TakenInOrder ==
  /\ taken = [i \in 1 .. headQueue |-> i]
  /\ headQueue <= Len(inputCommands)
  /\ status = "finished" => headQueue = Len(inputCommands)

\* The creates among the first k commands.
Rank(k) == Cardinality({j \in 1 .. k : inputCommands[j].token = "c"})

\* A create keeps the rank it has among the creates of the file from
\* trincoVetor to the end of its update under trincoBst, however other threads
\* take commands in between.
CreatesFollowFile ==
  \A t \in Threads : pc[t] \in {"unlock", "lockBst", "load", "store"} /\ Line(t).token = "c"
                       => iNumber[t] = Rank(command[t])

\* The tree that is printed holds, for every name one command of the file
\* creates or deletes, what that command left: no update of the tree is lost.
Updaters(n) == {k \in DOMAIN inputCommands : /\ inputCommands[k].token # "l"
                                             /\ inputCommands[k].name = n}
FinalTree ==
  status = "finished" =>
    \A n \in Names : \A k \in Updaters(n) :
      Updaters(n) = {k} =>
        bstRoot[n] = IF inputCommands[k].token = "c" THEN Rank(k) ELSE 0

\* The program comes to its last lines ("TecnicoFS completed in ...") or
\* gives up at a malformed command; no thread waits for ever.
Termination == <>(status # "running")
=============================================================================
