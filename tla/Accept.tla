------------------------------- MODULE Accept -------------------------------
(***************************************************************************)
(* How the server of the third delivery (Operating Systems/proj3/server/   *)
(* main.c) begins sessions and ends: runThreads accepts clients and makes  *)
(* a thread for each, processCommand serves one until it hangs up, and the *)
(* handler of SIGINT, verificaC, joins the threads, prints the tree and    *)
(* frees it.  What a session does is module Server's.                      *)
(*                                                                         *)
(* The system runs the handler in any thread, which stands still meanwhile.*)
(* One SIGINT is modelled.  The array worker is allocated for one thread   *)
(* and the allocator rounds it up to three: MAX_CLIENTS is 5 in the code,  *)
(* and what the fourth overwrites is not followed.                         *)
(***************************************************************************)
EXTENDS Integers, FiniteSets

CONSTANTS MAX_CLIENTS,   \* the sessions main begins before it exits
          Main, None     \* the main thread, no thread

ASSUME AcceptAssumption ==
  /\ MAX_CLIENTS \in Nat
  /\ Main \notin 0 .. MAX_CLIENTS - 1 /\ None \notin 0 .. MAX_CLIENTS - 1
  /\ Main # None

Sessions == 0 .. MAX_CLIENTS - 1

VARIABLES pc, i,        \* main: where it stands in its loop, the loop's counter
          m,            \* what main tells the handler of the sessions
          connected,    \* the clients that were accepted and have not hung up
          serving,      \* the sessions whose thread has not ended
          socket,       \* sockfd: "open", "closed"
          handler,      \* the thread that runs verificaC
          at, j,        \* where the handler stands, its loop's counter
          status        \* the process: "running", "finished", "failed"

main     == <<pc, i, m>>
sessions == <<connected, serving>>
handling == <<handler, at, j>>
vars     == <<main, sessions, socket, handling, status>>

Init == /\ pc = "loop" /\ i = 0 /\ m = 0
        /\ connected = {} /\ serving = {}
        /\ socket = "open"
        /\ handler = None /\ at = "none" /\ j = 0
        /\ status = "running"

Runs(t) == status = "running" /\ handler # t

-----------------------------------------------------------------------------
\* runThreads.
MainGoes(from, to) == Runs(Main) /\ pc = from /\ pc' = to

\* Fault: one session too many.
CallAcceptOneMore == /\ i <= MAX_CLIENTS /\ socket = "open"
                     /\ MainGoes("loop", "accept")
                     /\ UNCHANGED <<i, m, sessions, socket, handling, status>>

\* accept waits on the socket it was called with, also when that is closed.
CallAccept == /\ i < MAX_CLIENTS /\ socket = "open"
              /\ MainGoes("loop", "accept")
              /\ UNCHANGED <<i, m, sessions, socket, handling, status>>

AcceptError == /\ i < MAX_CLIENTS /\ socket = "closed"
               /\ MainGoes("loop", "done")
               /\ status' = "failed"
               /\ UNCHANGED <<i, m, sessions, socket, handling>>

Accepted == /\ MainGoes("accept", "create")
            /\ connected' = connected \cup {i}
            /\ UNCHANGED <<i, m, serving, socket, handling, status>>

Create == /\ MainGoes("create", "count")
          /\ serving' = serving \cup {i}
          /\ UNCHANGED <<i, m, connected, socket, handling, status>>

\* m is the index of the last session and not their number.
Count == /\ MainGoes("count", "loop")
         /\ m' = i /\ i' = i + 1
         /\ UNCHANGED <<sessions, socket, handling, status>>

\* After MAX_CLIENTS sessions main returns and exits, sessions or not.
Return == /\ i = MAX_CLIENTS
          /\ MainGoes("loop", "done")
          /\ status' = "finished"
          /\ UNCHANGED <<i, m, sessions, socket, handling>>

runThreads == CallAccept \/ AcceptError \/ Create \/ Count \/ Return

-----------------------------------------------------------------------------
HangUp(k) == /\ status = "running" /\ k \in connected
             /\ connected' = connected \ {k}
             /\ UNCHANGED <<main, serving, socket, handling, status>>

\* processCommand: read answers 0 and the thread ends.
EndOfSession(k) == /\ Runs(k)
                   /\ k \in serving \ connected
                   /\ serving' = serving \ {k}
                   /\ UNCHANGED <<main, connected, socket, handling, status>>

-----------------------------------------------------------------------------
\* SIGINT and verificaC.
Interrupt == /\ status = "running" /\ handler = None
             /\ handler' \in serving \cup {Main}
             /\ at' = "join"
             /\ UNCHANGED <<main, sessions, socket, j, status>>

HandlerGoes(from, to) == status = "running" /\ at = from /\ at' = to

\* Fault: the handler waits for the thread it runs in.
JoinableNot(k) == k \notin serving

\* pthread_join waits until the thread has ended, except for the own thread,
\* which it refuses.
Joinable(k) == k \notin serving \/ k = handler

\* Fault: the threads are numbered from one.
JoinFromOne == /\ j < m /\ Joinable(j + 1)
               /\ HandlerGoes("join", "join")
               /\ j' = j + 1
               /\ UNCHANGED <<main, sessions, socket, handler, status>>

Join == /\ j < m /\ Joinable(j)
        /\ HandlerGoes("join", "join")
        /\ j' = j + 1
        /\ UNCHANGED <<main, sessions, socket, handler, status>>

Close == /\ j >= m
         /\ HandlerGoes("join", "print")
         /\ socket' = "closed"
         /\ UNCHANGED <<main, sessions, handler, j, status>>

PrintTree == /\ HandlerGoes("print", "free")
             /\ UNCHANGED <<main, sessions, socket, handler, j, status>>

Free == /\ HandlerGoes("free", "done")
        /\ status' = "finished"
        /\ UNCHANGED <<main, sessions, socket, handler, j>>

verificaC == Join \/ Close \/ PrintTree \/ Free

Exited == status # "running" /\ UNCHANGED vars

Next == \/ runThreads \/ Accepted
        \/ \E k \in Sessions : HangUp(k) \/ EndOfSession(k)
        \/ Interrupt \/ verificaC
        \/ Exited

\* Threads that can run do; clients come, go and stay as they like.
Spec == /\ Init /\ [][Next]_vars
        /\ WF_vars(runThreads) /\ WF_vars(verificaC)
        /\ \A k \in Sessions : WF_vars(EndOfSession(k))

-----------------------------------------------------------------------------
TypeOK == /\ pc \in {"loop", "accept", "create", "count", "done"}
          /\ i \in 0 .. MAX_CLIENTS /\ m \in 0 .. MAX_CLIENTS
          /\ connected \subseteq Sessions /\ serving \subseteq Sessions
          /\ socket \in {"open", "closed"}
          /\ handler \in Sessions \cup {Main, None}
          /\ at \in {"none", "join", "print", "free", "done"}
          /\ j \in 0 .. MAX_CLIENTS
          /\ status \in {"running", "finished", "failed"}

\* While the tree is printed and freed the only other sessions that may still
\* change it are those the handler does not know of: the last one, which m
\* does not count, and what main has begun since m was last set.  If the
\* handler runs in main these are two at most.
LateOnly == at \in {"print", "free"} =>
              /\ \A k \in serving \ {handler} : k >= j
              /\ handler = Main => serving \subseteq {m, m + 1}

\* SIGINT ends the server, in whatever thread the handler runs and however
\* main goes on meanwhile, unless a client that m counts stays.
Stops == []<>(\/ handler = None \/ status # "running"
              \/ \E k \in connected : k < m)
=============================================================================
