---------------------------- MODULE VectorProofs ----------------------------
(***************************************************************************)
(* Proofs about the vector of commands, for any number of threads and any  *)
(* command file.                                                           *)
(***************************************************************************)
EXTENDS VectorPool, FiniteSetTheorems, TLAPS

\* A set of places of the vector is finite.
LEMMA PlacesAreFinite ==
  ASSUME NEW n \in Nat, NEW S \in SUBSET (1 .. n)
  PROVE  IsFiniteSet(S) /\ Cardinality(S) \in Nat
<1>1. IsFiniteSet(1 .. n)
  BY FS_Interval
<1>2. IsFiniteSet(S)
  BY <1>1, FS_Subset
<1> QED
  BY <1>2, FS_CardinalityType

\* What main leaves in the vector is a sequence.
LEMMA InputType ==
  ASSUME NEW script \in Scripts
  PROVE  /\ Len(processInput(script)) \in Nat
         /\ DOMAIN processInput(script) = 1 .. Len(processInput(script))
<1> DEFINE commands == {k \in DOMAIN script : script[k].token \in {"c", "l", "d"}}
           n == Min({Cardinality(commands), MAX_COMMANDS})
<1>1. script \in Seq(Lines)
  BY VectorAssumption
<1>2. Cardinality(commands) \in Nat
  <2>1. commands \subseteq 1 .. Len(script) /\ Len(script) \in Nat
    BY <1>1
  <2> QED
    BY <2>1, PlacesAreFinite
<1>3. n \in Nat
  <2>1. \A x, y \in Nat : Min({x, y}) \in {x, y}
    BY DEF Min
  <2> QED
    BY <1>2, <2>1, VectorAssumption
<1> QED
  BY <1>3 DEF processInput

-----------------------------------------------------------------------------
\* The vector: what was taken and what is left make up the file; a thread that
\* has ended, unless it failed, found nothing left.
PCs == {"while", "lock", "remove", "sscanf", "unlock", "lockBst", "load", "store", "unlockBst", "done"}

VectorInv ==
  /\ numberCommands \in Nat /\ headQueue \in Nat
  /\ Len(inputCommands) \in Nat
  /\ numberCommands + headQueue = Len(inputCommands)
  /\ taken = [i \in 1 .. headQueue |-> i]
  /\ pc \in [Threads -> PCs]
  /\ \A t \in Threads : pc[t] = "done" /\ status # "failed" => numberCommands = 0
  /\ status = "finished" => \A t \in Threads : pc[t] = "done"

LEMMA InitVectorInv == Init => VectorInv
<1> SUFFICES ASSUME Init PROVE VectorInv
  OBVIOUS
<1>1. Len(inputCommands) \in Nat
  BY InputType DEF Init
<1>2. taken = [i \in 1 .. headQueue |-> i]
  BY DEF Init
<1> QED
  BY <1>1, <1>2 DEF Init, VectorInv, PCs

LEMMA NextKeepsVectorInv == VectorInv /\ [Next]_vars => VectorInv'
<1> SUFFICES ASSUME VectorInv, [Next]_vars PROVE VectorInv'
  OBVIOUS
<1> USE DEF VectorInv, PCs
<1>1. ASSUME NEW t \in Threads, removeCommand(t) PROVE VectorInv'
  <2>1. taken' = [i \in 1 .. headQueue' |-> i]
    BY <1>1 DEF removeCommand
  <2>2. /\ pc' = [pc EXCEPT ![t] = "sscanf"] /\ status = "running" /\ status' = status
        /\ inputCommands' = inputCommands
    BY <1>1 DEF removeCommand, Goto
  <2>3. /\ numberCommands' \in Nat /\ headQueue' \in Nat
        /\ numberCommands' + headQueue' = Len(inputCommands')
    BY <1>1, <2>2 DEF removeCommand
  <2>4. numberCommands > 0
    BY <1>1 DEF removeCommand
  <2>5. \A u \in Threads : pc'[u] # "done"
    BY <2>2, <2>4
  <2>6. pc' \in [Threads -> PCs]
    BY <2>2
  <2> QED
    BY <2>1, <2>2, <2>3, <2>5, <2>6
<1>2. ASSUME NEW t \in Threads, While(t) PROVE VectorInv'
  BY <1>2 DEF While, Goto, vector
<1>3. ASSUME NEW t \in Threads, Malformed(t) PROVE VectorInv'
  BY <1>3 DEF Malformed, Goto, vector
<1>4. ASSUME NEW t \in Threads, LockVector(t) \/ NoCommand(t) \/ Parse(t) \/ UnlockVector(t)
      PROVE  VectorInv'
  BY <1>4 DEF LockVector, NoCommand, Parse, UnlockVector, Goto, vector
<1>5. ASSUME NEW t \in Threads, LockBst(t) \/ Load(t) \/ Store(t) \/ UnlockBst(t)
      PROVE  VectorInv'
  BY <1>5 DEF LockBst, Load, Store, UnlockBst, Goto, vector
<1>6. CASE Join
  BY <1>6 DEF Join, vector
<1>7. CASE UNCHANGED vars
  BY <1>7 DEF vars, vector
<1> QED
  BY <1>1, <1>2, <1>3, <1>4, <1>5, <1>6, <1>7 DEF Next, Exited, applyCommands

\* Commands are taken in the order of the file, each once, and when the threads
\* have ended none is left.
THEOREM VectorTakenInOrder == Spec => []TakenInOrder
<1>1. VectorInv => TakenInOrder
  <2> SUFFICES ASSUME VectorInv PROVE TakenInOrder
    OBVIOUS
  <2>1. headQueue <= Len(inputCommands)
    BY DEF VectorInv
  <2>2. status = "finished" => headQueue = Len(inputCommands)
    BY VectorAssumption DEF VectorInv
  <2> QED
    BY <2>1, <2>2 DEF VectorInv, TakenInOrder
<1> QED
  BY <1>1, InitVectorInv, NextKeepsVectorInv, PTL DEF Spec

-----------------------------------------------------------------------------
\* The i-numbers: who is between removeCommand and unlock holds trincoVetor; the
\* counter has counted the creates before the command that is being looked at.
Holds(t) == pc[t] \in {"remove", "sscanf", "unlock"} => trincoVetor = t
Counted(t) == pc[t] = "sscanf" => /\ command[t] = headQueue /\ headQueue > 0
                                  /\ nextINumber = Rank(headQueue - 1)
Numbered(t) == pc[t] \in {"unlock", "lockBst", "load", "store"} =>
                 /\ command[t] \in 1 .. headQueue
                 /\ Line(t).token = "c" => iNumber[t] = Rank(command[t])

NumberInv ==
  /\ \A t \in Threads : Holds(t) /\ Counted(t) /\ Numbered(t)
  /\ status # "failed" /\ (\A t \in Threads : pc[t] # "sscanf") => nextINumber = Rank(headQueue)
  /\ command \in [Threads -> Nat] /\ DOMAIN iNumber = Threads

\* The rank grows with a create and with nothing else.
LEMMA RankStep ==
  ASSUME NEW k \in Nat
  PROVE  Rank(k + 1) = IF inputCommands[k + 1].token = "c" THEN Rank(k) + 1 ELSE Rank(k)
<1> DEFINE C(n) == {j \in 1 .. n : inputCommands[j].token = "c"}
<1>1. IsFiniteSet(C(k))
  BY PlacesAreFinite
<1>2. CASE inputCommands[k + 1].token = "c"
  <2>1. C(k + 1) = C(k) \cup {k + 1} /\ k + 1 \notin C(k)
    BY <1>2
  <2> QED
    BY <1>1, <1>2, <2>1, FS_AddElement DEF Rank
<1>3. CASE inputCommands[k + 1].token # "c"
  <2>1. C(k + 1) = C(k)
    BY <1>3
  <2> QED
    BY <1>3, <2>1 DEF Rank
<1> QED
  BY <1>2, <1>3

LEMMA InitNumberInv == Init => NumberInv
<1> SUFFICES ASSUME Init PROVE NumberInv
  OBVIOUS
<1>1. Rank(0) = 0
  <2>1. {j \in 1 .. 0 : inputCommands[j].token = "c"} = {}
    OBVIOUS
  <2> QED
    BY <2>1, FS_EmptySet DEF Rank
<1> QED
  BY <1>1 DEF Init, NumberInv, Holds, Counted, Numbered

\* A step that leaves the counter, the command and the i-number of every thread
\* alone, and moves nobody into the section of trincoVetor, keeps the invariant.
Quiet == /\ UNCHANGED <<inputCommands, headQueue, nextINumber, command, iNumber>>
         /\ \A t \in Threads :
              /\ pc'[t] \in {"remove", "sscanf", "unlock"} => trincoVetor' = t
              /\ (pc[t] = "sscanf") <=> (pc'[t] = "sscanf")
              /\ pc'[t] \in {"unlock", "lockBst", "load", "store"} =>
                   pc[t] \in {"unlock", "lockBst", "load", "store"}
         /\ status' = "failed" <=> status = "failed"

LEMMA QuietKeepsNumberInv == NumberInv /\ Quiet => NumberInv'
<1> SUFFICES ASSUME NumberInv, Quiet PROVE NumberInv'
  OBVIOUS
<1>1. \A k : Rank(k)' = Rank(k)
  BY DEF Rank, Quiet
<1> QED
  BY <1>1 DEF NumberInv, Quiet, Holds, Counted, Numbered, Line, Rank

\* removeCommand, by the one thread in the section of trincoVetor.
LEMMA RemoveKeepsNumberInv ==
  ASSUME VectorInv, NumberInv, NEW t \in Threads, removeCommand(t)
  PROVE  NumberInv'
<1>1. /\ pc' = [pc EXCEPT ![t] = "sscanf"] /\ pc[t] = "remove" /\ status = "running"
      /\ headQueue' = headQueue + 1 /\ command' = [command EXCEPT ![t] = headQueue + 1]
      /\ UNCHANGED <<inputCommands, trincoVetor, nextINumber, status, iNumber>>
  BY DEF removeCommand, Goto
<1>2. /\ headQueue \in Nat /\ pc \in [Threads -> PCs]
      /\ command \in [Threads -> Nat] /\ DOMAIN iNumber = Threads
  BY DEF VectorInv, NumberInv
<1>3. \A u \in Threads : pc[u] # "sscanf"
  BY <1>1 DEF NumberInv, Holds
<1>4. nextINumber = Rank(headQueue)
  BY <1>1, <1>3 DEF NumberInv
<1>5. \A k : Rank(k)' = Rank(k)
  BY <1>1 DEF Rank
<1>6. ASSUME NEW u \in Threads PROVE Holds(u)' /\ Counted(u)' /\ Numbered(u)'
  <2>1. Holds(u)'
    BY <1>1, <1>2 DEF NumberInv, Holds
  <2>2. Counted(u)'
    <3>1. CASE u = t
      <4>1. (headQueue' - 1) = headQueue
        BY <1>1, <1>2
      <4> QED
        BY <1>1, <1>2, <1>4, <3>1, <4>1 DEF Counted, Rank
    <3>2. CASE u # t
      BY <1>1, <1>2, <1>3, <3>2 DEF Counted
    <3> QED
      BY <3>1, <3>2
  <2>3. Numbered(u)'
    <3>1. CASE u = t
      BY <1>1, <1>2, <3>1 DEF Numbered
    <3>2. CASE u # t
      <4>1. pc'[u] = pc[u] /\ command'[u] = command[u] /\ iNumber'[u] = iNumber[u]
        BY <1>1, <1>2, <3>2
      <4>2. Numbered(u)
        BY DEF NumberInv
      <4>3. 1 .. headQueue \subseteq 1 .. headQueue'
        BY <1>1, <1>2
      <4> QED
        BY <1>1, <4>1, <4>2, <4>3 DEF Numbered, Line, Rank
    <3> QED
      BY <3>1, <3>2
  <2> QED
    BY <2>1, <2>2, <2>3
<1>7. pc'[t] = "sscanf"
  BY <1>1, <1>2
<1> QED
  BY <1>1, <1>2, <1>6, <1>7 DEF NumberInv

\* Parse: a create takes its rank.
LEMMA ParseKeepsNumberInv ==
  ASSUME VectorInv, NumberInv, NEW t \in Threads, Parse(t)
  PROVE  NumberInv'
<1>1. /\ pc' = [pc EXCEPT ![t] = "unlock"] /\ pc[t] = "sscanf" /\ status = "running"
      /\ UNCHANGED <<inputCommands, headQueue, trincoVetor, status, command>>
  BY DEF Parse, Goto, vector
<1>2. /\ headQueue \in Nat /\ pc \in [Threads -> PCs]
      /\ command \in [Threads -> Nat] /\ DOMAIN iNumber = Threads
  BY DEF VectorInv, NumberInv
<1>3. \A u \in Threads \ {t} : pc[u] \notin {"remove", "sscanf", "unlock"}
  BY <1>1 DEF NumberInv, Holds
<1>4. command[t] = headQueue /\ headQueue > 0 /\ nextINumber = Rank(headQueue - 1)
  BY <1>1 DEF NumberInv, Counted
<1>5. Rank(headQueue) = IF Line(t).token = "c" THEN nextINumber + 1 ELSE nextINumber
  <2>1. headQueue - 1 \in Nat /\ (headQueue - 1) + 1 = headQueue
    BY <1>2, <1>4
  <2> QED
    BY <1>4, <2>1, RankStep DEF Line
<1>6. nextINumber' = Rank(headQueue) /\ (Line(t).token = "c" => iNumber'[t] = Rank(headQueue))
  BY <1>2, <1>5 DEF Parse, obtainNewInumber
<1>7. DOMAIN iNumber' = Threads /\ \A u \in Threads \ {t} : iNumber'[u] = iNumber[u]
  BY <1>2 DEF Parse, obtainNewInumber
<1>8. ASSUME NEW u \in Threads PROVE Holds(u)' /\ Counted(u)' /\ Numbered(u)'
  <2>1. Holds(u)'
    BY <1>1, <1>2 DEF NumberInv, Holds
  <2>2. Counted(u)'
    BY <1>1, <1>2, <1>3 DEF Counted
  <2>3. Numbered(u)'
    <3>1. CASE u = t
      BY <1>1, <1>2, <1>4, <1>6, <3>1 DEF Numbered, Line, Rank
    <3>2. CASE u # t
      BY <1>1, <1>2, <1>7, <3>2 DEF NumberInv, Numbered, Line, Rank
    <3> QED
      BY <3>1, <3>2
  <2> QED
    BY <2>1, <2>2, <2>3
<1>9. nextINumber' = Rank(headQueue)'
  BY <1>1, <1>6 DEF Rank
<1> QED
  BY <1>1, <1>2, <1>7, <1>8, <1>9 DEF NumberInv

LEMMA NextKeepsNumberInv == VectorInv /\ NumberInv /\ [Next]_vars => NumberInv'
<1> SUFFICES ASSUME VectorInv, NumberInv, [Next]_vars PROVE NumberInv'
  OBVIOUS
<1> USE VectorAssumption DEF VectorInv, NumberInv, Holds, Quiet
<1>1. ASSUME NEW t \in Threads, removeCommand(t) PROVE NumberInv'
  BY <1>1, RemoveKeepsNumberInv
<1>2. ASSUME NEW t \in Threads, Parse(t) PROVE NumberInv'
  BY <1>2, ParseKeepsNumberInv
<1>3. ASSUME NEW t \in Threads, Malformed(t) PROVE NumberInv'
  <2>1. /\ pc' = [pc EXCEPT ![t] = "done"] /\ status' = "failed"
        /\ UNCHANGED <<inputCommands, headQueue, trincoVetor, nextINumber, command, iNumber>>
    BY <1>3 DEF Malformed, Goto, vector
  <2>2. \A u \in Threads : pc'[u] # "done" => pc'[u] = pc[u]
    BY <2>1
  <2>3. ASSUME NEW u \in Threads PROVE Holds(u)' /\ Counted(u)' /\ Numbered(u)'
    <3>1. CASE pc'[u] = "done"
      BY <3>1 DEF Counted, Numbered
    <3>2. CASE pc'[u] # "done"
      <4>1. pc'[u] = pc[u]
        BY <2>2, <3>2
      <4>2. Holds(u) /\ Counted(u) /\ Numbered(u)
        OBVIOUS
      <4>3. Holds(u)'
        BY <2>1, <4>1, <4>2
      <4>4. Counted(u)'
        BY <2>1, <4>1, <4>2 DEF Counted, Rank
      <4>5. Numbered(u)'
        BY <2>1, <4>1, <4>2 DEF Numbered, Line, Rank
      <4> QED
        BY <4>3, <4>4, <4>5
    <3> QED
      BY <3>1, <3>2
  <2>4. (\A u \in Threads : Holds(u) /\ Counted(u) /\ Numbered(u))'
    BY <2>3
  <2> QED
    BY <2>1, <2>4
<1>4. ASSUME NEW t \in Threads, While(t) PROVE Quiet
  BY <1>4 DEF While, Goto, vector
<1>5. ASSUME NEW t \in Threads, LockVector(t) PROVE Quiet
  BY <1>5 DEF LockVector, Goto, vector
<1>6. ASSUME NEW t \in Threads, NoCommand(t) PROVE Quiet
  BY <1>6 DEF NoCommand, Goto, vector
<1>7. ASSUME NEW t \in Threads, UnlockVector(t) PROVE Quiet
  BY <1>7 DEF UnlockVector, Goto, vector
<1>8. ASSUME NEW t \in Threads, LockBst(t) \/ Load(t) \/ Store(t) \/ UnlockBst(t) PROVE Quiet
  BY <1>8 DEF LockBst, Load, Store, UnlockBst, Goto, vector
<1>9. ASSUME Join PROVE Quiet
  BY <1>9 DEF Join, vector
<1>10. ASSUME UNCHANGED vars PROVE Quiet
  BY <1>10 DEF vars, vector
<1> QED
  BY <1>1, <1>2, <1>3, <1>4, <1>5, <1>6, <1>7, <1>8, <1>9, <1>10, QuietKeepsNumberInv
     DEF Next, Exited, applyCommands

\* Creates are numbered by their place among the creates of the file, whatever
\* the threads do between the two locks.
THEOREM VectorCreatesFollowFile == Spec => []CreatesFollowFile
<1>1. NumberInv => CreatesFollowFile
  BY DEF NumberInv, Numbered, CreatesFollowFile
<1> QED
  BY <1>1, InitVectorInv, NextKeepsVectorInv, InitNumberInv, NextKeepsNumberInv, PTL DEF Spec

-----------------------------------------------------------------------------
\* The tree: who is between lock and unlock holds trincoBst, so the root that
\* create or delete has read is still the root when it stores; and a command
\* that was taken is in a thread's hands or in the tree.
Working   == {"sscanf", "unlock", "lockBst", "load", "store"}
InHand(k) == \E t \in Threads : pc[t] \in Working /\ command[t] = k
Left(k)   == IF inputCommands[k].token = "c" THEN Rank(k) ELSE 0

RootInv ==
  /\ DOMAIN root = Threads
  /\ \A t \in Threads :
       /\ pc[t] \in {"load", "store", "unlockBst"} => trincoBst = t
       /\ pc[t] = "store" => root[t] = bstRoot /\ Line(t).token # "l"

StoredInv ==
  /\ DOMAIN inputCommands = 1 .. Len(inputCommands)
  /\ DOMAIN bstRoot = Names
  /\ status # "failed" =>
       \A n \in Names : \A k \in Updaters(n) :
         Updaters(n) = {k} /\ k <= headQueue /\ ~InHand(k) => bstRoot[n] = Left(k)

LEMMA InitTreeInv == Init => RootInv /\ StoredInv
<1> SUFFICES ASSUME Init PROVE RootInv /\ StoredInv
  OBVIOUS
<1>1. DOMAIN inputCommands = 1 .. Len(inputCommands) /\ headQueue = 0
  BY InputType DEF Init
<1>2. \A n : \A k \in Updaters(n) : ~(k <= headQueue)
  BY <1>1 DEF Updaters
<1> QED
  BY <1>1, <1>2 DEF Init, RootInv, StoredInv, EmptyTree

LEMMA NextKeepsRootInv ==
  ASSUME VectorInv, RootInv, [Next]_vars
  PROVE  RootInv'
<1> USE DEF VectorInv, RootInv, Goto, vector, Line
<1>1. ASSUME NEW t \in Threads, LockBst(t) PROVE RootInv'
  BY <1>1, VectorAssumption DEF LockBst
<1>2. ASSUME NEW t \in Threads, Load(t) PROVE RootInv'
  <2>1. \A u \in Threads : u # t => pc'[u] = pc[u] /\ pc[u] # "store"
    BY <1>2 DEF Load
  <2>2. pc'[t] = "store" => root'[t] = bstRoot /\ Line(t).token # "l"
    BY <1>2 DEF Load
  <2> QED
    BY <1>2, <2>1, <2>2 DEF Load
<1>3. ASSUME NEW t \in Threads, Store(t) PROVE RootInv'
  BY <1>3 DEF Store
<1>4. ASSUME NEW t \in Threads, UnlockBst(t) PROVE RootInv'
  BY <1>4 DEF UnlockBst
<1>5. ASSUME NEW t \in Threads, While(t) \/ LockVector(t) \/ NoCommand(t) PROVE RootInv'
  BY <1>5 DEF While, LockVector, NoCommand
<1>6. ASSUME NEW t \in Threads, removeCommand(t) PROVE RootInv'
  <2>1. \A u \in Threads : pc'[u] = "store" => pc[u] = "store" /\ command'[u] = command[u]
    BY <1>6 DEF removeCommand
  <2> QED
    BY <1>6, <2>1 DEF removeCommand
<1>7. ASSUME NEW t \in Threads, Malformed(t) \/ Parse(t) \/ UnlockVector(t) PROVE RootInv'
  BY <1>7 DEF Malformed, Parse, UnlockVector
<1>8. CASE Join \/ UNCHANGED vars
  BY <1>8 DEF Join, vars
<1> QED
  BY <1>1, <1>2, <1>3, <1>4, <1>5, <1>6, <1>7, <1>8 DEF Next, Exited, applyCommands

\* A step that leaves the tree alone keeps what was stored if no update leaves
\* a thread's hands in it.
LEMMA CalmKeepsStoredInv ==
  ASSUME StoredInv, VectorInv, UNCHANGED <<inputCommands, bstRoot>>,
         status' = "failed" \/ status # "failed",
         status' = "failed" \/ \A n \in Names : \A k \in Updaters(n) :
                                  k <= headQueue' /\ ~InHand(k)' => k <= headQueue /\ ~InHand(k)
  PROVE  StoredInv'
<1>1. \A n : Updaters(n)' = Updaters(n)
  BY DEF Updaters
<1>2. \A k : Left(k)' = Left(k)
  BY DEF Left, Rank
<1> QED
  BY <1>1, <1>2 DEF StoredInv

LEMMA StoreKeepsStoredInv ==
  ASSUME VectorInv, NumberInv, RootInv, StoredInv, NEW t \in Threads, Store(t)
  PROVE  StoredInv'
<1>1. /\ pc[t] = "store" /\ pc' = [pc EXCEPT ![t] = "unlockBst"] /\ status = "running"
      /\ UNCHANGED <<inputCommands, numberCommands, headQueue, command, iNumber, status>>
      /\ bstRoot' = [bstRoot EXCEPT ![Line(t).name] = IF Line(t).token = "c" THEN iNumber[t] ELSE 0]
      /\ Line(t).token # "l" /\ DOMAIN bstRoot = Names
  BY DEF Store, Goto, vector, RootInv, StoredInv
<1>2. /\ command[t] \in DOMAIN inputCommands
      /\ Line(t).token = "c" => iNumber[t] = Rank(command[t])
  BY <1>1 DEF VectorInv, NumberInv, Numbered, StoredInv
<1>3. /\ \A n : Updaters(n)' = Updaters(n)
      /\ \A k : Left(k)' = Left(k)
  BY <1>1 DEF Updaters, Left, Rank
<1>4. DOMAIN bstRoot' = Names
  BY <1>1
<1>5. ASSUME NEW n \in Names, NEW k \in Updaters(n), Updaters(n) = {k}, k <= headQueue, ~InHand(k)'
      PROVE  bstRoot'[n] = Left(k)
  <2>1. CASE Line(t).name = n
    <3>1. command[t] = k
      BY <1>1, <1>2, <1>5, <2>1 DEF Updaters, Line
    <3> QED
      BY <1>1, <1>2, <2>1, <3>1 DEF Left, Line
  <2>2. CASE Line(t).name # n
    <3>1. command[t] # k
      BY <2>2 DEF Updaters, Line
    <3>2. ~InHand(k)
      BY <1>1, <1>5, <3>1 DEF InHand, VectorInv
    <3>3. bstRoot[n] = Left(k)
      BY <1>1, <1>5, <3>2 DEF StoredInv
    <3> QED
      BY <1>1, <2>2, <3>3
  <2> QED
    BY <2>1, <2>2
<1> QED
  BY <1>1, <1>3, <1>4, <1>5 DEF StoredInv

LEMMA NextKeepsStoredInv ==
  ASSUME VectorInv, NumberInv, RootInv, StoredInv, [Next]_vars
  PROVE  StoredInv'
<1> USE DEF Goto, vector
<1>0. pc \in [Threads -> PCs] /\ headQueue \in Nat /\ command \in [Threads -> Nat]
  BY DEF VectorInv, NumberInv
<1>1. ASSUME NEW t \in Threads, Store(t) PROVE StoredInv'
  BY <1>1, StoreKeepsStoredInv
<1>2. ASSUME NEW t \in Threads, removeCommand(t) PROVE StoredInv'
  <2>1. /\ pc' = [pc EXCEPT ![t] = "sscanf"] /\ pc[t] = "remove" /\ headQueue' = headQueue + 1
        /\ command' = [command EXCEPT ![t] = headQueue + 1] /\ status = "running"
        /\ UNCHANGED <<inputCommands, bstRoot, status>>
    BY <1>2 DEF removeCommand
  <2>2. \E u \in Threads : pc'[u] \in Working /\ command'[u] = headQueue + 1
    BY <1>0, <2>1 DEF Working
  <2>3. ASSUME NEW k, InHand(k) PROVE InHand(k)'
    <3>1. PICK u \in Threads : pc[u] \in Working /\ command[u] = k
      BY <2>3 DEF InHand
    <3> QED
      BY <1>0, <2>1, <3>1 DEF InHand, Working
  <2>4. \A n : \A k \in Updaters(n) : k \in Nat
    BY DEF Updaters, StoredInv, VectorInv
  <2>5. ASSUME NEW n, NEW k \in Updaters(n), k <= headQueue', ~InHand(k)' PROVE k <= headQueue /\ ~InHand(k)
    <3>1. k # headQueue + 1
      BY <2>2, <2>5 DEF InHand
    <3> QED
      BY <1>0, <2>1, <2>3, <2>4, <2>5, <3>1
  <2> QED
    BY <2>1, <2>5, CalmKeepsStoredInv
<1>3. ASSUME NEW t \in Threads, Malformed(t) PROVE StoredInv'
  BY <1>3, CalmKeepsStoredInv DEF Malformed
<1>4. ASSUME UNCHANGED <<inputCommands, headQueue, command, bstRoot>>, status # "failed",
             \A u \in Threads : pc[u] \in Working => pc'[u] \in Working \/ Line(u).token = "l"
      PROVE  StoredInv'
  <2>1. ASSUME NEW n, NEW k \in Updaters(n), InHand(k) PROVE InHand(k)'
    <3>1. PICK u \in Threads : pc[u] \in Working /\ command[u] = k
      BY <2>1 DEF InHand
    <3> QED
      BY <1>4, <3>1 DEF InHand, Updaters, Line
  <2> QED
    BY <1>4, <2>1, CalmKeepsStoredInv
<1>5. ASSUME NEW t \in Threads, While(t) \/ LockVector(t) \/ NoCommand(t) PROVE StoredInv'
  BY <1>0, <1>4, <1>5 DEF While, LockVector, NoCommand, Working
<1>6. ASSUME NEW t \in Threads, Parse(t) \/ UnlockVector(t) \/ LockBst(t) PROVE StoredInv'
  BY <1>0, <1>4, <1>6 DEF Parse, UnlockVector, LockBst, Working
<1>7. ASSUME NEW t \in Threads, Load(t) \/ UnlockBst(t) PROVE StoredInv'
  BY <1>0, <1>4, <1>7 DEF Load, UnlockBst, Working
<1>8. CASE Join
  BY <1>0, <1>4, <1>8 DEF Join
<1>9. CASE UNCHANGED vars
  BY <1>9 DEF vars, StoredInv, Updaters, InHand, Left, Rank
<1> QED
  BY <1>1, <1>2, <1>3, <1>5, <1>6, <1>7, <1>8, <1>9 DEF Next, Exited, applyCommands

\* The tree that main prints holds, for every name that one command of the file
\* creates or deletes, what that command left (create, delete under trincoBst):
\* no update is lost, for any number of threads and any file.
THEOREM VectorFinalTree == Spec => []FinalTree
<1>1. VectorInv /\ StoredInv => FinalTree
  <2> SUFFICES ASSUME VectorInv, StoredInv, status = "finished", NEW n \in Names, NEW k \in Updaters(n),
                      Updaters(n) = {k}
               PROVE  bstRoot[n] = Left(k)
    BY DEF FinalTree, Left
  <2>1. \A t \in Threads : pc[t] = "done"
    BY DEF VectorInv
  <2>2. headQueue = Len(inputCommands)
    BY <2>1, VectorAssumption DEF VectorInv
  <2>3. ~InHand(k)
    BY <2>1 DEF InHand, Working
  <2>4. k <= headQueue
    BY <2>2 DEF Updaters, StoredInv, VectorInv
  <2> QED
    BY <2>3, <2>4 DEF StoredInv
<1>2. Init => VectorInv /\ NumberInv /\ RootInv /\ StoredInv
  BY InitVectorInv, InitNumberInv, InitTreeInv
<1>3. VectorInv /\ NumberInv /\ RootInv /\ StoredInv /\ [Next]_vars
        => (VectorInv /\ NumberInv /\ RootInv /\ StoredInv)'
  BY NextKeepsVectorInv, NextKeepsNumberInv, NextKeepsRootInv, NextKeepsStoredInv
<1> QED
  BY <1>1, <1>2, <1>3, PTL DEF Spec
=============================================================================
