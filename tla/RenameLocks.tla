---------------------------- MODULE RenameLocks ----------------------------
(***************************************************************************)
(* reName of the third delivery (Operating Systems/proj3/server/lib/fs.c)  *)
(* among the other calls of fs.c, which are those of module Directory: two *)
(* trees, two read-write locks, and a loop that tries to lock both.  The   *)
(* server is only built with -DRWLOCK.                                     *)
(*                                                                         *)
(* pthread_rwlock_trywrlock answers 0 when it has locked.  To unlock what  *)
(* one has not locked is undefined: the model goes no further there.       *)
(***************************************************************************)
EXTENDS Integers

CONSTANTS Threads,    \* the sessions that call fs.c
          Names, NoName, INumbers, Buckets, FirstChar

VARIABLES bstRoot, writer, readers, at, call, root, ret,   \* module Directory
          pc,         \* pc[t]: where thread t stands in reName
          args,       \* args[t]: name and newName of its reName
          undefined   \* a thread has unlocked what it had not locked

dir  == <<bstRoot, writer, readers, at, call, root, ret>>
vars == <<dir, pc, args, undefined>>

Dir == INSTANCE Directory WITH Build <- "rwlock"

NoArgs == [name |-> NoName, newName |-> NoName]

Init == /\ Dir!Init
        /\ pc = [t \in Threads |-> "none"]
        /\ args = [t \in Threads |-> NoArgs]
        /\ undefined = FALSE

indice1(t) == Dir!hash(args[t].name)
indice2(t) == Dir!hash(args[t].newName)

Goto(t, from, to) == /\ pc[t] = from
                     /\ pc' = [pc EXCEPT ![t] = to]

reName(t, name, newName) ==
  /\ at[t] = "idle"
  /\ Goto(t, "none", "check")
  /\ args' = [args EXCEPT ![t] = [name |-> name, newName |-> newName]]
  /\ UNCHANGED <<dir, undefined>>

\* The condition of lines 80 and 97, searched for without a lock of its own.
MayRename(t) == /\ Dir!search(bstRoot[indice1(t)], args[t].name) # Dir!Absent
                /\ Dir!search(bstRoot[indice2(t)], args[t].newName) = Dir!Absent

Check(t) == /\ Goto(t, "check", CASE ~MayRename(t)                               -> "recheck"
                                  [] MayRename(t) /\ indice1(t) # indice2(t) -> "try1"
                                  [] MayRename(t) /\ indice1(t) = indice2(t) -> "wrlock")
            /\ UNCHANGED <<dir, args, undefined>>

Lock(t, b) == /\ writer' = [writer EXCEPT ![b] = @ \cup {t}]
              /\ UNCHANGED <<bstRoot, readers, at, call, root, ret, args, undefined>>

\* One bucket: the lock is waited for.
WrLock(t) == /\ Goto(t, "wrlock", "locked")
             /\ Dir!Free(indice1(t))
             /\ Lock(t, indice1(t))

\* Two buckets: what trywrlock answers is taken for true when it failed.  The
\* thread that gets the first lock begins the loop anew, with the lock.
Try1Locks(t) == /\ Goto(t, "try1", "try1")
                /\ Dir!Free(indice1(t))
                /\ Lock(t, indice1(t))
Try1Fails(t) == /\ Goto(t, "try1", "try2")
                /\ ~Dir!Free(indice1(t))
                /\ UNCHANGED <<dir, args, undefined>>

\* The thread that gets the second lock opens the first and begins anew; the
\* one that does not get it leaves the loop.
Try2Locks(t) == /\ Goto(t, "try2", "open1")
                /\ Dir!Free(indice2(t))
                /\ Lock(t, indice2(t))
Try2Fails(t) == /\ Goto(t, "try2", "locked")
                /\ ~Dir!Free(indice2(t))
                /\ UNCHANGED <<dir, args, undefined>>

Unlock(t, b) == /\ writer' = [writer EXCEPT ![b] = @ \ {t}]
                /\ undefined' = (t \notin writer[b])
                /\ UNCHANGED <<bstRoot, readers, at, call, root, ret>>

Open1(t) == Goto(t, "open1", "try1") /\ Unlock(t, indice1(t)) /\ UNCHANGED args

\* With locks or, when the first search answered no, without.
Recheck(t) == /\ \E from \in {"recheck", "locked"} :
                   Goto(t, from, IF MayRename(t) THEN "insert" ELSE "unlock1")
              /\ UNCHANGED <<dir, args, undefined>>

\* Lines 98 and 99.  What is left of the second tree becomes the first as
\* well; that both are one tree from then on is not followed any further.
Insert(t) == /\ Goto(t, "insert", "remove")
             /\ bstRoot' = [bstRoot EXCEPT ![indice2(t)] =
                              Dir!insert(@, args[t].newName, bstRoot[indice1(t)][args[t].name])]
             /\ UNCHANGED <<writer, readers, at, call, root, ret, args, undefined>>
Remove(t) == /\ Goto(t, "remove", "unlock1")
             /\ bstRoot' = [bstRoot EXCEPT ![indice1(t)] =
                              Dir!remove_item(bstRoot[indice2(t)], args[t].name)]
             /\ UNCHANGED <<writer, readers, at, call, root, ret, args, undefined>>

Unlock1(t) == /\ Goto(t, "unlock1", IF indice1(t) = indice2(t) THEN "none" ELSE "unlock2")
              /\ Unlock(t, indice1(t))
              /\ args' = [args EXCEPT ![t] = IF indice1(t) = indice2(t) THEN NoArgs ELSE @]
Unlock2(t) == /\ Goto(t, "unlock2", "none")
              /\ Unlock(t, indice2(t))
              /\ args' = [args EXCEPT ![t] = NoArgs]

Renames(t) == \/ \E name, newName \in Names : reName(t, name, newName)
              \/ Check(t) \/ WrLock(t)
              \/ Try1Locks(t) \/ Try1Fails(t) \/ Try2Locks(t) \/ Try2Fails(t) \/ Open1(t)
              \/ Recheck(t) \/ Insert(t) \/ Remove(t) \/ Unlock1(t) \/ Unlock2(t)

Calls(t) == /\ pc[t] = "none"
            /\ (\E c \in Dir!Calls : Dir!Invoke(t, c)) \/ Dir!Step(t)
            /\ UNCHANGED <<pc, args, undefined>>

Next == ~undefined /\ \E t \in Threads : Renames(t) \/ Calls(t)

Spec == Init /\ [][Next]_vars

-----------------------------------------------------------------------------
\* A thread that has left the loop has both locks (fs.c:87-89: when the second
\* could not be acquired the first is opened and both are tried again).
BothLocks ==
  \A t \in Threads :
    pc[t] = "locked" /\ indice1(t) # indice2(t)
    => t \in writer[indice1(t)] /\ t \in writer[indice2(t)]
=============================================================================
