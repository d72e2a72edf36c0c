-------------------------- MODULE DirectoryProofs --------------------------
(***************************************************************************)
(* Proofs about module Directory, for every set of threads and names, every *)
(* number of buckets and both builds: the invariant IInv is inductive, the *)
(* locks exclude writers from readers, entries stay in their bucket, and   *)
(* the directory implements AtomicDirectory.                               *)
(***************************************************************************)
EXTENDS Directory, TLAPS

LEMMA HashRange == ASSUME NEW n \in Names PROVE hash(n) \in Indices
<1>1. FirstChar[n] \in Nat /\ Buckets \in Nat \ {0}
  BY DirAssumption
<1>2. FirstChar[n] % Buckets \in 0 .. Buckets - 1
  BY <1>1
<1> QED
  BY <1>2 DEF hash, Indices

\* The three kinds of calls, and how a record tells which one it is.
LEMMA CallFields ==
  /\ NoCall.op = "none"
  /\ NoCall \notin Calls
  /\ \A c \in Calls : /\ c.op \in {"create", "delete", "lookup"}
                      /\ c.name \in Names
                      /\ c.inumber \in Nat
                      /\ c.op # "create" => c.inumber = Absent
<1>1. NoCall.op = "none"
  BY DEF NoCall
<1>2. ASSUME NEW c \in Calls
      PROVE  /\ c.op \in {"create", "delete", "lookup"}
             /\ c.name \in Names
             /\ c.inumber \in Nat
             /\ c.op # "create" => c.inumber = Absent
  <2>1. /\ c \in [op : {"create", "delete", "lookup"}, name : Names, inumber : INumbers \cup {Absent}]
        /\ c.op = "create" <=> c.inumber # Absent
    BY DEF Calls
  <2>2. INumbers \cup {Absent} \subseteq Nat
    BY DirAssumption DEF Absent
  <2> QED
    BY <2>1, <2>2
<1>3. NoCall \notin Calls
  BY <1>1, <1>2
<1> QED
  BY <1>1, <1>2, <1>3

\* A thread that has begun a call addresses a bucket that exists.
LEMMA IndiceRange ==
  ASSUME TypeOK, CallOK, NEW t \in Threads, at[t] # "idle"
  PROVE  call[t] \in Calls /\ call[t].name \in Names /\ indice(t) \in Indices
<1>1. call[t] \in Calls
  BY DEF TypeOK, CallOK
<1> QED
  BY <1>1, CallFields, HashRange DEF indice

LEMMA InitIInv == Init => IInv
<1> SUFFICES ASSUME Init PROVE IInv
  OBVIOUS
<1>1. TypeOK
  BY DEF Init, TypeOK, EmptyTree, Trees, Absent
<1>2. CallOK /\ HolderOK /\ Exclusive /\ FreshRoot
  BY DEF Init, CallOK, HolderOK, Exclusive, FreshRoot, Holding
<1>3. BucketPlacement
  BY DEF Init, BucketPlacement, EmptyTree, Absent
<1> QED
  BY <1>1, <1>2, <1>3 DEF IInv

-----------------------------------------------------------------------------
LEMMA InvokeIInv ==
  ASSUME IInv, NEW t \in Threads, NEW c \in Calls, Invoke(t, c)
  PROVE  IInv'
<1> USE DEF Invoke, Goto
<1>1. TypeOK'
  BY DEF IInv, TypeOK
<1>2. CallOK'
  BY CallFields DEF IInv, TypeOK, CallOK
<1>3. HolderOK'
  BY DEF IInv, TypeOK, HolderOK, Holding, indice
<1>4. Exclusive'
  BY DEF IInv, Exclusive
<1>5. FreshRoot'
  BY DEF IInv, TypeOK, FreshRoot, indice
<1>6. BucketPlacement'
  BY DEF IInv, BucketPlacement
<1> QED
  BY <1>1, <1>2, <1>3, <1>4, <1>5, <1>6 DEF IInv

LEMMA WrlockIInv ==
  ASSUME IInv, NEW t \in Threads, sync_wrlock(t)
  PROVE  IInv'
<1> USE DEF sync_wrlock, Goto
<1>0. indice(t) \in Indices
  BY IndiceRange DEF IInv
<1>1. TypeOK'
  BY <1>0 DEF IInv, TypeOK
<1>2. CallOK'
  BY DEF IInv, TypeOK, CallOK
<1>3. HolderOK'
  BY <1>0 DEF IInv, TypeOK, HolderOK, Holding, indice
<1>4. Exclusive'
  BY <1>0 DEF IInv, TypeOK, Exclusive, Free
<1>5. FreshRoot'
  BY DEF IInv, TypeOK, FreshRoot, indice
<1>6. BucketPlacement'
  BY DEF IInv, BucketPlacement
<1> QED
  BY <1>1, <1>2, <1>3, <1>4, <1>5, <1>6 DEF IInv

LEMMA RdlockIInv ==
  ASSUME IInv, NEW t \in Threads, sync_rdlock(t)
  PROVE  IInv'
<1> USE DEF sync_rdlock, Goto
<1>0. indice(t) \in Indices
  BY IndiceRange DEF IInv
<1>1. TypeOK'
  BY <1>0 DEF IInv, TypeOK
<1>2. CallOK'
  BY DEF IInv, TypeOK, CallOK
<1>3. HolderOK'
  BY <1>0 DEF IInv, TypeOK, HolderOK, Holding, indice
<1>4. Exclusive'
  BY <1>0 DEF IInv, TypeOK, Exclusive, CanRead, Free
<1>5. FreshRoot'
  BY DEF IInv, TypeOK, FreshRoot, indice
<1>6. BucketPlacement'
  BY DEF IInv, BucketPlacement
<1> QED
  BY <1>1, <1>2, <1>3, <1>4, <1>5, <1>6 DEF IInv

LEMMA LoadIInv ==
  ASSUME IInv, NEW t \in Threads, Load(t)
  PROVE  IInv'
<1> USE DEF Load, Goto
<1>0. indice(t) \in Indices
  BY IndiceRange DEF IInv
<1>1. TypeOK'
  BY <1>0 DEF IInv, TypeOK
<1>2. CallOK'
  BY DEF IInv, TypeOK, CallOK
<1>3. HolderOK'
  BY DEF IInv, TypeOK, HolderOK, Holding, indice
<1>4. Exclusive'
  BY DEF IInv, Exclusive
<1>5. FreshRoot'
  BY DEF IInv, TypeOK, FreshRoot, indice
<1>6. BucketPlacement'
  BY DEF IInv, BucketPlacement
<1> QED
  BY <1>1, <1>2, <1>3, <1>4, <1>5, <1>6 DEF IInv

\* What a writer stores is a tree, and it differs from the tree it replaces
\* at the name of the call only, whose bucket this is.
LEMMA StoredTree ==
  ASSUME IInv, NEW t \in Threads, at[t] = "store"
  PROVE  /\ NewRoot(t) \in Trees
         /\ NewRoot(t) = [bstRoot[indice(t)] EXCEPT ![call[t].name] = call[t].inumber]
<1>1. call[t] \in Calls /\ indice(t) \in Indices
  BY IndiceRange DEF IInv
<1>2. root[t] = bstRoot[indice(t)] /\ root[t] \in Trees
  BY DEF IInv, FreshRoot, TypeOK
<1>3. call[t].name \in Names /\ call[t].inumber \in Nat
  BY <1>1, CallFields
<1>4. call[t].op # "create" => call[t].inumber = Absent
  BY <1>1, CallFields
<1>5. NewRoot(t) = [bstRoot[indice(t)] EXCEPT ![call[t].name] = call[t].inumber]
  BY <1>2, <1>4 DEF NewRoot, insert, remove_item
<1>6. [root[t] EXCEPT ![call[t].name] = call[t].inumber] \in Trees
  BY <1>2, <1>3 DEF Trees
<1> QED
  BY <1>2, <1>5, <1>6

LEMMA StoreIInv ==
  ASSUME IInv, NEW t \in Threads, Store(t)
  PROVE  IInv'
<1> USE DEF Store, Goto
<1>0. indice(t) \in Indices /\ call[t] \in Calls /\ call[t].name \in Names
  BY IndiceRange DEF IInv
<1>1. TypeOK'
  BY <1>0, StoredTree DEF IInv, TypeOK
<1>2. CallOK'
  BY DEF IInv, TypeOK, CallOK
<1>3. HolderOK'
  BY DEF IInv, TypeOK, HolderOK, Holding, indice
<1>4. Exclusive'
  BY DEF IInv, Exclusive
<1>5. FreshRoot'
  <2> SUFFICES ASSUME NEW s \in Threads, at'[s] = "store"
               PROVE  root'[s] = bstRoot'[indice(s)']
    BY DEF FreshRoot
  <2>1. s # t /\ at[s] = "store"
    BY DEF IInv, TypeOK
  <2>2. indice(s)' = indice(s)
    BY DEF indice
  <2>3. s \in writer[indice(s)] /\ t \in writer[indice(t)] /\ indice(s) \in Indices
    BY <1>0, <2>1, IndiceRange DEF IInv, HolderOK, Holding, CallOK
  <2>4. indice(s) # indice(t)
    BY <2>1, <2>3 DEF IInv, Exclusive
  <2> QED
    BY <2>1, <2>2, <2>3, <2>4 DEF IInv, TypeOK, FreshRoot
<1>6. BucketPlacement'
  <2> SUFFICES ASSUME NEW b \in Indices, NEW n \in Names, bstRoot'[b][n] # Absent
               PROVE  hash(n) = b
    BY DEF BucketPlacement
  <2>1. CASE b = indice(t) /\ n = call[t].name
    BY <2>1 DEF indice
  <2>2. CASE b = indice(t) /\ n # call[t].name
    <3>1. bstRoot'[b] = NewRoot(t)
      BY <1>0, <2>2 DEF IInv, TypeOK
    <3>2. bstRoot[b] \in Trees
      BY DEF IInv, TypeOK
    <3>3. bstRoot'[b][n] = bstRoot[b][n]
      BY <3>1, <3>2, <2>2, StoredTree DEF Trees
    <3> QED
      BY <3>3 DEF IInv, BucketPlacement
  <2>3. CASE b # indice(t)
    BY <2>3 DEF IInv, TypeOK, BucketPlacement
  <2> QED
    BY <2>1, <2>2, <2>3
<1> QED
  BY <1>1, <1>2, <1>3, <1>4, <1>5, <1>6 DEF IInv

LEMMA SearchIInv ==
  ASSUME IInv, NEW t \in Threads, Search(t)
  PROVE  IInv'
<1> USE DEF Search, Goto
<1>0. indice(t) \in Indices /\ call[t].name \in Names
  BY IndiceRange DEF IInv
<1>1. TypeOK'
  <2>1. search(bstRoot[indice(t)], call[t].name) \in Nat
    BY <1>0 DEF IInv, TypeOK, Trees, search
  <2> QED
    BY <2>1 DEF IInv, TypeOK
<1>2. CallOK'
  BY DEF IInv, TypeOK, CallOK
<1>3. HolderOK'
  BY DEF IInv, TypeOK, HolderOK, Holding, indice
<1>4. Exclusive'
  BY DEF IInv, Exclusive
<1>5. FreshRoot'
  BY DEF IInv, TypeOK, FreshRoot, indice
<1>6. BucketPlacement'
  BY DEF IInv, BucketPlacement
<1> QED
  BY <1>1, <1>2, <1>3, <1>4, <1>5, <1>6 DEF IInv

LEMMA UnlockIInv ==
  ASSUME IInv, NEW t \in Threads, sync_unlock(t)
  PROVE  IInv'
<1> USE DEF sync_unlock, Goto
<1>0. indice(t) \in Indices
  BY IndiceRange DEF IInv
<1>1. TypeOK'
  BY <1>0 DEF IInv, TypeOK, EmptyTree, Trees, Absent
<1>2. CallOK'
  BY DEF IInv, TypeOK, CallOK
<1>3. HolderOK'
  BY <1>0 DEF IInv, TypeOK, HolderOK, Holding, indice
<1>4. Exclusive'
  BY <1>0 DEF IInv, TypeOK, Exclusive
<1>5. FreshRoot'
  BY DEF IInv, TypeOK, FreshRoot, indice
<1>6. BucketPlacement'
  BY DEF IInv, BucketPlacement
<1> QED
  BY <1>1, <1>2, <1>3, <1>4, <1>5, <1>6 DEF IInv

LEMMA NextIInv == IInv /\ [Next]_dirVars => IInv'
<1> SUFFICES ASSUME IInv, [Next]_dirVars PROVE IInv'
  OBVIOUS
<1>1. ASSUME NEW t \in Threads, NEW c \in Calls, Invoke(t, c) PROVE IInv'
  BY <1>1, InvokeIInv
<1>2. ASSUME NEW t \in Threads, Step(t) PROVE IInv'
  BY <1>2, WrlockIInv, RdlockIInv, LoadIInv, StoreIInv, SearchIInv, UnlockIInv DEF Step
<1>3. CASE UNCHANGED dirVars
  BY <1>3 DEF dirVars, IInv, TypeOK, CallOK, HolderOK, Exclusive, FreshRoot,
              BucketPlacement, Holding, indice
<1> QED
  BY <1>1, <1>2, <1>3 DEF Next

\* The invariant the other theorems rest on.
THEOREM Inductive == Spec => []IInv
BY InitIInv, NextIInv, PTL DEF Spec

\* Type correctness of the directory.
THEOREM TypeCorrect == Spec => []TypeOK
<1>1. IInv => TypeOK
  BY DEF IInv
<1> QED
  BY <1>1, Inductive, PTL

\* While a thread modifies a tree of fs.c no other thread is inside it.
THEOREM LockExclusion == Spec => []WriterAlone
<1>1. IInv => WriterAlone
  <2> SUFFICES ASSUME IInv, NEW s \in Threads, NEW t \in Threads, s # t,
                      Inside(s), Inside(t), indice(s) = indice(t)
               PROVE  Build = "rwlock" /\ at[s] = "search"
    BY DEF WriterAlone
  <2>1. indice(s) \in Indices
    BY IndiceRange DEF IInv, Inside
  <2>2. CASE at[s] # "search"
    <3>1. s \in writer[indice(s)]
      BY <2>1, <2>2 DEF IInv, CallOK, HolderOK, Holding, Inside
    <3>2. t \in writer[indice(s)] \cup readers[indice(s)]
      BY <2>1 DEF IInv, CallOK, HolderOK, Holding, Inside
    <3> QED
      BY <2>1, <3>1, <3>2 DEF IInv, Exclusive
  <2>3. CASE at[s] = "search"
    <3>1. s \in readers[indice(s)]
      BY <2>1, <2>3 DEF IInv, CallOK, HolderOK, Holding
    <3>2. t \in writer[indice(s)] \cup readers[indice(s)]
      BY <2>1 DEF IInv, CallOK, HolderOK, Holding, Inside
    <3>3. Build # "mutex"
      BY <2>1, <3>1, <3>2 DEF IInv, Exclusive
    <3> QED
      BY <2>3, <3>3, DirAssumption
  <2> QED
    BY <2>2, <2>3
<1> QED
  BY <1>1, Inductive, PTL

\* No entry is ever put where lookup and delete would not search for it.
THEOREM EntriesInTheirBucket == Spec => []BucketPlacement
<1>1. IInv => BucketPlacement
  BY DEF IInv
<1> QED
  BY <1>1, Inductive, PTL

-----------------------------------------------------------------------------
(***************************************************************************)
(* Refinement.  A call is pending in AtomicDirectory until its thread      *)
(* stands at "unlock": the instant it takes effect is Store for an update  *)
(* and Search for a lookup; taking the lock and reading the root stutter.  *)
(***************************************************************************)
LEMMA PhaseOf ==
  ASSUME TypeOK, NEW t \in Threads
  PROVE  /\ at[t] = "idle" => Phase[t] = "idle"
         /\ at[t] = "unlock" => Phase[t] = "done"
         /\ at[t] \in {"lock", "load", "store", "search"} => Phase[t] = "called"
BY DEF TypeOK, Phase

\* A thread that moves changes its own phase only.
LEMMA PhaseStep ==
  ASSUME TypeOK, NEW t \in Threads, NEW from, NEW to, Goto(t, from, to),
         NEW p, to = "idle" => p = "idle",
         to = "unlock" => p = "done",
         to \notin {"idle", "unlock"} => p = "called"
  PROVE  Phase' = [Phase EXCEPT ![t] = p]
BY DEF TypeOK, Phase, Goto

LEMMA InitRefines == Init => Atomic!Init
BY HashRange DEF Init, Atomic!Init, Entries, Phase, EmptyTree, Absent, Atomic!Absent,
   NoCall, Atomic!NoCall

LEMMA SameCalls == Calls = Atomic!Calls /\ NoCall = Atomic!NoCall
BY DEF Calls, Atomic!Calls, NoCall, Absent, Atomic!NoCall, Atomic!Absent

LEMMA StoreRefines ==
  ASSUME IInv, NEW t \in Threads, Store(t)
  PROVE  Atomic!Update(t)
<1>0. call[t] \in Calls /\ call[t].name \in Names /\ indice(t) \in Indices
  BY IndiceRange DEF IInv, Store, Goto
<1>1. call[t].op \in {"create", "delete"}
  BY <1>0, CallFields DEF IInv, CallOK, Store, Goto
<1>2. Phase[t] = "called"
  BY PhaseOf DEF IInv, Store, Goto
<1>3. Phase' = [Phase EXCEPT ![t] = "done"]
  BY PhaseStep DEF IInv, Store
<1>4. Entries' = [Entries EXCEPT ![call[t].name] = call[t].inumber]
  <2>1. ASSUME NEW n \in Names
        PROVE  bstRoot'[hash(n)][n] = IF n = call[t].name THEN call[t].inumber
                                                          ELSE bstRoot[hash(n)][n]
    <3>1. hash(n) \in Indices /\ bstRoot[hash(n)] \in Trees
      BY HashRange DEF IInv, TypeOK
    <3>2. CASE hash(n) = indice(t)
      <4>1. bstRoot'[hash(n)] = NewRoot(t)
        BY <3>1, <3>2 DEF IInv, TypeOK, Store
      <4> QED
        BY <3>1, <3>2, <4>1, StoredTree DEF Trees, Store, Goto
    <3>3. CASE hash(n) # indice(t)
      BY <3>1, <3>3 DEF IInv, TypeOK, Store, indice
    <3> QED
      BY <3>2, <3>3
  <2> QED
    BY <2>1 DEF Entries
<1> QED
  BY <1>1, <1>2, <1>3, <1>4 DEF Store, Atomic!Update

LEMMA SearchRefines ==
  ASSUME IInv, NEW t \in Threads, Search(t)
  PROVE  Atomic!Read(t)
<1>0. call[t].name \in Names
  BY IndiceRange DEF IInv, Search, Goto
<1>1. call[t].op = "lookup"
  BY DEF IInv, CallOK, Search, Goto
<1>2. Phase[t] = "called"
  BY PhaseOf DEF IInv, Search, Goto
<1>3. Phase' = [Phase EXCEPT ![t] = "done"]
  BY PhaseStep DEF IInv, Search
<1>4. search(bstRoot[indice(t)], call[t].name) = Entries[call[t].name]
  BY <1>0 DEF search, Entries, indice
<1>5. UNCHANGED Entries
  BY DEF Search, Entries
<1> QED
  BY <1>1, <1>2, <1>3, <1>4, <1>5 DEF Search, Atomic!Read

LEMMA InvokeRefines ==
  ASSUME IInv, NEW t \in Threads, NEW c \in Calls, Invoke(t, c)
  PROVE  Atomic!Invoke(t, c)
<1>1. Phase[t] = "idle"
  BY PhaseOf DEF IInv, Invoke, Goto
<1>2. Phase' = [Phase EXCEPT ![t] = "called"]
  BY PhaseStep DEF IInv, Invoke
<1>3. UNCHANGED Entries
  BY DEF Invoke, Entries
<1> QED
  BY <1>1, <1>2, <1>3 DEF Invoke, Atomic!Invoke

LEMMA UnlockRefines ==
  ASSUME IInv, NEW t \in Threads, sync_unlock(t)
  PROVE  Atomic!Return(t)
<1>1. Phase[t] = "done"
  BY PhaseOf DEF IInv, sync_unlock, Goto
<1>2. Phase' = [Phase EXCEPT ![t] = "idle"]
  BY PhaseStep DEF IInv, sync_unlock
<1>3. UNCHANGED Entries
  BY DEF sync_unlock, Entries
<1> QED
  BY <1>1, <1>2, <1>3, SameCalls DEF sync_unlock, Atomic!Return

\* Waiting for a lock, taking it and reading the root change nothing a
\* caller can see.
LEMMA LockStutters ==
  ASSUME IInv, NEW t \in Threads, sync_wrlock(t) \/ sync_rdlock(t) \/ Load(t)
  PROVE  UNCHANGED <<Entries, call, Phase, ret>>
<1>1. \E from, to \in {"lock", "load", "store", "search"} : Goto(t, from, to)
  BY DEF sync_wrlock, sync_rdlock, Load
<1>2. PICK from \in {"lock", "load", "store", "search"},
           to \in {"lock", "load", "store", "search"} : Goto(t, from, to)
  BY <1>1
<1>3. Phase' = [Phase EXCEPT ![t] = "called"] /\ Phase[t] = "called"
  BY <1>2, PhaseStep, PhaseOf DEF IInv, Goto
<1>4. UNCHANGED Phase
  BY <1>3 DEF Phase
<1>5. UNCHANGED <<Entries, call, ret>>
  BY DEF sync_wrlock, sync_rdlock, Load, Entries
<1> QED
  BY <1>4, <1>5

LEMMA NextRefines == IInv /\ [Next]_dirVars => [Atomic!Next]_<<Entries, call, Phase, ret>>
<1> SUFFICES ASSUME IInv, [Next]_dirVars
             PROVE  [Atomic!Next]_<<Entries, call, Phase, ret>>
  OBVIOUS
<1>1. ASSUME NEW t \in Threads, NEW c \in Calls, Invoke(t, c) PROVE Atomic!Next
  BY <1>1, InvokeRefines, SameCalls DEF Atomic!Next
<1>2. ASSUME NEW t \in Threads, Step(t)
      PROVE  [Atomic!Next]_<<Entries, call, Phase, ret>>
  BY <1>2, LockStutters, StoreRefines, SearchRefines, UnlockRefines DEF Step, Atomic!Next
<1>3. CASE UNCHANGED dirVars
  BY <1>3 DEF dirVars, Entries, Phase
<1> QED
  BY <1>1, <1>2, <1>3 DEF Next

\* The directory with its buckets and locks implements the atomic one.
THEOREM Refinement == Spec => Linearizable
BY InitRefines, NextRefines, Inductive, PTL DEF Spec, Linearizable, Atomic!Spec, Atomic!absVars
=============================================================================
