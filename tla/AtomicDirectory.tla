-------------------------- MODULE AtomicDirectory --------------------------
(***************************************************************************)
(* What the directory of TecnicoFS promises to the threads that call it:   *)
(* every create, delete or lookup takes effect in ONE instant between its  *)
(* call and its return, on a single map from names to i-numbers.  How the  *)
(* map is spread over buckets, trees and locks is not visible here; module *)
(* Directory is shown to implement this one.                               *)
(***************************************************************************)
EXTENDS Naturals

CONSTANTS Threads,   \* the threads that may call the directory
          Names,     \* the file names
          NoName,    \* the name field of a thread that is calling nothing
          INumbers   \* the i-numbers a caller may pass to create

\* lookup answers 0 when it finds nothing, so 0 stands for "no entry".
Absent == 0

NoCall == [op |-> "none", name |-> NoName, inumber |-> Absent]

\* An i-number is passed to create and to no other call.
Calls == {c \in [op : {"create", "delete", "lookup"}, name : Names, inumber : INumbers \cup {Absent}] :
            c.op = "create" <=> c.inumber # Absent}

VARIABLES entries,  \* entries[n]: the i-number of name n, or Absent
          call,     \* call[t]: the call thread t has not returned from
          phase,    \* phase[t]: "idle", "called" or "done"
          ret       \* ret[t]: what the last lookup of thread t answered

absVars == <<entries, call, phase, ret>>

Init == /\ entries = [n \in Names |-> Absent]
        /\ call = [t \in Threads |-> NoCall]
        /\ phase = [t \in Threads |-> "idle"]
        /\ ret = [t \in Threads |-> Absent]

Invoke(t, c) == /\ phase[t] = "idle"
                /\ call' = [call EXCEPT ![t] = c]
                /\ phase' = [phase EXCEPT ![t] = "called"]
                /\ UNCHANGED <<entries, ret>>

\* An update takes effect: the entry of the name is set or cleared.
Update(t) == /\ phase[t] = "called"
             /\ call[t].op \in {"create", "delete"}
             /\ entries' = [entries EXCEPT ![call[t].name] = call[t].inumber]
             /\ phase' = [phase EXCEPT ![t] = "done"]
             /\ UNCHANGED <<call, ret>>

\* A lookup takes effect: it answers what the map holds at that instant.
Read(t) == /\ phase[t] = "called"
           /\ call[t].op = "lookup"
           /\ ret' = [ret EXCEPT ![t] = entries[call[t].name]]
           /\ phase' = [phase EXCEPT ![t] = "done"]
           /\ UNCHANGED <<entries, call>>

Return(t) == /\ phase[t] = "done"
             /\ call' = [call EXCEPT ![t] = NoCall]
             /\ phase' = [phase EXCEPT ![t] = "idle"]
             /\ UNCHANGED <<entries, ret>>

Next == \E t \in Threads : \/ \E c \in Calls : Invoke(t, c)
                           \/ Update(t)
                           \/ Read(t)
                           \/ Return(t)

Spec == Init /\ [][Next]_absVars
=============================================================================
