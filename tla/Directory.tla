----------------------------- MODULE Directory -----------------------------
(***************************************************************************)
(* The directory of the second delivery (Operating Systems/proj2: fs.c,    *)
(* sync.c, lib/hash.c).  Names are spread by the hash of their first       *)
(* character over an array of binary search trees, and each tree has one   *)
(* lock: a mutex in the build with -DMUTEX, a read-write lock in the build *)
(* with -DRWLOCK, nothing in the build without either, which runs one      *)
(* thread only.                                                            *)
(*                                                                         *)
(* A call is split at the points where another thread can run: taking the  *)
(* lock, reading the root, storing the new root, releasing the lock.  The  *)
(* content of a tree is the map from names to i-numbers that module Bst    *)
(* shows the tree algorithms to keep.                                      *)
(***************************************************************************)
EXTENDS Integers

CONSTANTS Threads,    \* the threads that call fs.c
          Names,      \* the file names
          NoName,     \* the name field of a thread that is calling nothing
          INumbers,   \* the i-numbers main.c passes to create
          Buckets,    \* static int Buckets: the size of bstRoot and bstLock
          FirstChar,  \* FirstChar[n]: the code of name[0]
          Build       \* which syncMech the program was compiled with

\* The empty name does not occur (sscanf %s reads at least one character),
\* and the names are ASCII: (int) name[0] is not negative.
ASSUME DirAssumption ==
  /\ NoName \notin Names
  /\ INumbers \subseteq Nat \ {0}
  /\ Buckets \in Nat \ {0}
  /\ FirstChar \in [Names -> Nat]
  /\ Build \in {"mutex", "rwlock"}

Absent == 0

Create(n, i) == [op |-> "create", name |-> n, inumber |-> i]
Delete(n)    == [op |-> "delete", name |-> n, inumber |-> Absent]
Lookup(n)    == [op |-> "lookup", name |-> n, inumber |-> Absent]
NoCall       == [op |-> "none", name |-> NoName, inumber |-> Absent]

\* An i-number is passed to create and to no other call.
Calls == {c \in [op : {"create", "delete", "lookup"}, name : Names, inumber : INumbers \cup {Absent}] :
            c.op = "create" <=> c.inumber # Absent}

Indices == 0 .. Buckets - 1

hash(name) == FirstChar[name] % Buckets

Trees == [Names -> Nat]
EmptyTree == [n \in Names |-> Absent]

insert(tree, name, inumber) == [tree EXCEPT ![name] = inumber]
remove_item(tree, name)     == [tree EXCEPT ![name] = Absent]

search(tree, name) == tree[name]

VARIABLES bstRoot,   \* bstRoot[b]: the tree of bucket b
          writer,    \* writer[b]: the threads holding bstLock[b] exclusively
          readers,   \* readers[b]: the threads holding bstLock[b] shared
          at,        \* at[t]: where thread t stands in its call
          call,      \* call[t]: the call and its arguments
          root,      \* root[t]: the root a writer has read
          ret        \* ret[t]: what the last lookup of t returned

locks   == <<writer, readers>>
dirVars == <<bstRoot, writer, readers, at, call, root, ret>>

\* new_tecnicofs
Init == /\ bstRoot = [b \in Indices |-> EmptyTree]
        /\ writer = [b \in Indices |-> {}]
        /\ readers = [b \in Indices |-> {}]
        /\ at = [t \in Threads |-> "idle"]
        /\ call = [t \in Threads |-> NoCall]
        /\ root = [t \in Threads |-> EmptyTree]
        /\ ret = [t \in Threads |-> Absent]

-----------------------------------------------------------------------------
\* Fault: create uses another table size than lookup and delete.
indiceOtherSize(t) == IF call[t].op = "create" THEN FirstChar[call[t].name] % (Buckets - 1)
                                               ELSE hash(call[t].name)

indice(t) == hash(call[t].name)

Goto(t, from, to) == /\ at[t] = from
                     /\ at' = [at EXCEPT ![t] = to]

Invoke(t, c) == /\ Goto(t, "idle", "lock")
                /\ call' = [call EXCEPT ![t] = c]
                /\ UNCHANGED <<bstRoot, writer, readers, root, ret>>

\* Faults: a writer does not wait for the readers, or not for a writer.
FreeOfWriters(b) == writer[b] = {}
FreeOfReaders(b) == readers[b] = {}

\* sync_wrlock and sync_rdlock.  A mutex has no shared mode: sync_rdlock
\* of the mutex build waits for and becomes the only holder.
Free(b)     == writer[b] = {} /\ readers[b] = {}
CanRead(b)  == IF Build = "rwlock" THEN writer[b] = {} ELSE Free(b)

sync_wrlock(t) == /\ call[t].op # "lookup"
                  /\ Goto(t, "lock", "load")
                  /\ Free(indice(t))
                  /\ writer' = [writer EXCEPT ![indice(t)] = @ \cup {t}]
                  /\ UNCHANGED <<bstRoot, readers, call, root, ret>>

sync_rdlock(t) == /\ call[t].op = "lookup"
                  /\ Goto(t, "lock", "search")
                  /\ CanRead(indice(t))
                  /\ readers' = [readers EXCEPT ![indice(t)] = @ \cup {t}]
                  /\ UNCHANGED <<bstRoot, writer, call, root, ret>>

\* The two halves of  bstRoot[indice] = insert(bstRoot[indice], ...)  and of
\* bstRoot[indice] = remove_item(bstRoot[indice], ...).
Load(t) == /\ Goto(t, "load", "store")
           /\ root' = [root EXCEPT ![t] = bstRoot[indice(t)]]
           /\ UNCHANGED <<bstRoot, writer, readers, call, ret>>

NewRoot(t) == IF call[t].op = "create"
              THEN insert(root[t], call[t].name, call[t].inumber)
              ELSE remove_item(root[t], call[t].name)

Store(t) == /\ Goto(t, "store", "unlock")
            /\ bstRoot' = [bstRoot EXCEPT ![indice(t)] = NewRoot(t)]
            /\ UNCHANGED <<writer, readers, call, root, ret>>

Search(t) == /\ Goto(t, "search", "unlock")
             /\ ret' = [ret EXCEPT ![t] = search(bstRoot[indice(t)], call[t].name)]
             /\ UNCHANGED <<bstRoot, writer, readers, call, root>>

\* Fault: a shared lock is not given back.
sync_unlockWriter(t) == /\ Goto(t, "unlock", "idle")
                        /\ writer' = [writer EXCEPT ![indice(t)] = @ \ {t}]
                        /\ call' = [call EXCEPT ![t] = NoCall]
                        /\ root' = [root EXCEPT ![t] = EmptyTree]
                        /\ UNCHANGED <<bstRoot, readers, ret>>

\* The dead root is forgotten: a thread reads it again before it uses it.
sync_unlock(t) == /\ Goto(t, "unlock", "idle")
                  /\ writer' = [writer EXCEPT ![indice(t)] = @ \ {t}]
                  /\ readers' = [readers EXCEPT ![indice(t)] = @ \ {t}]
                  /\ call' = [call EXCEPT ![t] = NoCall]
                  /\ root' = [root EXCEPT ![t] = EmptyTree]
                  /\ UNCHANGED <<bstRoot, ret>>

Step(t) == \/ sync_wrlock(t) \/ sync_rdlock(t)
           \/ Load(t) \/ Store(t) \/ Search(t)
           \/ sync_unlock(t)

Next == \E t \in Threads : (\E c \in Calls : Invoke(t, c)) \/ Step(t)

Spec == Init /\ [][Next]_dirVars

-----------------------------------------------------------------------------
TypeOK ==
  /\ bstRoot \in [Indices -> Trees]
  /\ writer \in [Indices -> SUBSET Threads]
  /\ readers \in [Indices -> SUBSET Threads]
  /\ at \in [Threads -> {"idle", "lock", "load", "store", "search", "unlock"}]
  /\ call \in [Threads -> Calls \cup {NoCall}]
  /\ root \in [Threads -> Trees]
  /\ ret \in [Threads -> Nat]

\* While a thread modifies a tree no other thread is inside that tree, to
\* modify it or to search it (the purpose of bstLock in fs.c); and only the
\* read-write locks let two threads search one tree together.
Inside(t) == at[t] \in {"load", "store", "search"}
WriterAlone ==
  \A s, t \in Threads :
    /\ s # t
    /\ Inside(s) /\ Inside(t)
    /\ indice(s) = indice(t)
    => Build = "rwlock" /\ at[s] = "search" /\ at[t] = "search"

\* A name is only ever in the tree of its own bucket, where lookup and
\* delete search for it: an entry elsewhere could be neither found nor
\* removed.
BucketPlacement ==
  \A b \in Indices : \A n \in Names : bstRoot[b][n] # Absent => hash(n) = b

\* The map of entries that the buckets hold together.
Entries == [n \in Names |-> bstRoot[hash(n)][n]]

Phase == [t \in Threads |-> CASE at[t] = "idle"   -> "idle"
                              [] at[t] = "unlock" -> "done"
                              [] OTHER            -> "called"]

Atomic == INSTANCE AtomicDirectory WITH entries <- Entries, phase <- Phase

\* Every call takes effect in one instant although it locks, reads, stores
\* and unlocks in separate steps: no update of create or delete is lost, no
\* lookup answers what the directory never held.
Linearizable == Atomic!Spec

-----------------------------------------------------------------------------
\* The inductive invariant behind these properties: the holders of a lock
\* are exactly the threads between their lock and their unlock, a lock with a
\* writer has no other holder and a mutex has one holder, and the root a
\* writer has read is still the root of its bucket.
Holding(t) == at[t] \in {"load", "store", "search", "unlock"}

CallOK == \A t \in Threads :
  /\ at[t] = "idle" <=> call[t] = NoCall
  /\ at[t] \in {"load", "store"} => call[t].op # "lookup"
  /\ at[t] = "search" => call[t].op = "lookup"

HolderOK == \A t \in Threads : \A b \in Indices :
  /\ t \in writer[b] <=> Holding(t) /\ call[t].op # "lookup" /\ indice(t) = b
  /\ t \in readers[b] <=> Holding(t) /\ call[t].op = "lookup" /\ indice(t) = b

Exclusive == \A b \in Indices :
  /\ \A s \in writer[b] : writer[b] = {s} /\ readers[b] = {}
  /\ Build = "mutex" => \A s \in readers[b] : readers[b] = {s}

FreshRoot == \A t \in Threads :
  at[t] = "store" => root[t] = bstRoot[indice(t)]

IInv == TypeOK /\ CallOK /\ HolderOK /\ Exclusive /\ FreshRoot /\ BucketPlacement
=============================================================================
