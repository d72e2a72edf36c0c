---------------------------- MODULE AcceptProofs ----------------------------
(***************************************************************************)
(* Proofs about the end of the server, for any number of sessions.         *)
(***************************************************************************)
EXTENDS Accept, TLAPS

\* Where main counts: a session that begins has a number below MAX_CLIENTS, the
\* sessions are those before i, and i itself only until it is counted; m is the
\* last that was counted, or 0 when none was.
Counted == /\ pc \in {"accept", "create", "count"} => i < MAX_CLIENTS
           /\ \A k \in serving : k < i \/ (k = i /\ pc = "count")
           /\ m = i - 1 \/ (m = 0 /\ i = 0)

\* Where the handler is: it has joined the sessions before j, but for its own,
\* and has not gone further than main told it.
JoinedBefore == /\ j <= m
                /\ \A k \in serving \ {handler} : k >= j
                /\ handler = None <=> at = "none"
                /\ at \in {"print", "free"} /\ handler = Main => j = m

EndInv == TypeOK /\ Counted /\ JoinedBefore

LEMMA MainKeepsEndInv == EndInv /\ (runThreads \/ Accepted) => EndInv'
<1> SUFFICES ASSUME EndInv, runThreads \/ Accepted PROVE EndInv'
  OBVIOUS
<1> USE AcceptAssumption DEF EndInv, TypeOK, Counted, JoinedBefore, Sessions,
        sessions, handling, MainGoes, Runs
<1>1. CASE CallAccept
  BY <1>1 DEF CallAccept
<1>2. CASE AcceptError
  BY <1>2 DEF AcceptError
<1>3. CASE Accepted
  BY <1>3 DEF Accepted
<1>4. CASE Create
  BY <1>4 DEF Create
<1>5. CASE Count
  BY <1>5 DEF Count
<1>6. CASE Return
  BY <1>6 DEF Return
<1> QED
  BY <1>1, <1>2, <1>3, <1>4, <1>5, <1>6 DEF runThreads

LEMMA SessionsKeepEndInv ==
  ASSUME EndInv, NEW k \in Sessions, HangUp(k) \/ EndOfSession(k)
  PROVE  EndInv'
<1> USE DEF EndInv, TypeOK, Counted, JoinedBefore, main, handling
<1>1. CASE HangUp(k)
  BY <1>1 DEF HangUp
<1>2. CASE EndOfSession(k)
  BY <1>2 DEF EndOfSession
<1> QED
  BY <1>1, <1>2

LEMMA HandlerKeepsEndInv == EndInv /\ (Interrupt \/ verificaC) => EndInv'
<1> SUFFICES ASSUME EndInv, Interrupt \/ verificaC PROVE EndInv'
  OBVIOUS
<1> USE AcceptAssumption DEF EndInv, TypeOK, Counted, JoinedBefore, main, sessions, HandlerGoes
<1>1. CASE Interrupt
  BY <1>1 DEF Interrupt, Sessions
<1>2. CASE Join
  <2>1. \A k \in serving \ {handler} : k # j
    BY <1>2 DEF Join, Joinable
  <2>2. \A k \in serving \ {handler} : k >= j + 1
    BY <2>1 DEF Sessions
  <2>3. j + 1 <= m /\ j + 1 \in 0 .. MAX_CLIENTS
    BY <1>2 DEF Join
  <2> QED
    BY <1>2, <2>2, <2>3 DEF Join
<1>3. CASE Close
  BY <1>3 DEF Close
<1>4. CASE PrintTree
  BY <1>4 DEF PrintTree
<1>5. CASE Free
  BY <1>5 DEF Free
<1> QED
  BY <1>1, <1>2, <1>3, <1>4, <1>5 DEF verificaC

LEMMA NextKeepsEndInv == EndInv /\ [Next]_vars => EndInv'
<1> SUFFICES ASSUME EndInv, [Next]_vars PROVE EndInv'
  OBVIOUS
<1>1. CASE UNCHANGED vars
  BY <1>1 DEF EndInv, TypeOK, Counted, JoinedBefore, vars, main, sessions, handling
<1> QED
  BY <1>1, MainKeepsEndInv, SessionsKeepEndInv, HandlerKeepsEndInv DEF Next, Exited

LEMMA InitEndInv == Init => EndInv
  BY AcceptAssumption DEF Init, EndInv, TypeOK, Counted, JoinedBefore, Sessions

LEMMA EndInvLateOnly == EndInv => LateOnly
<1> SUFFICES ASSUME EndInv, at \in {"print", "free"} PROVE LateOnly
  BY DEF LateOnly
<1>1. \A k \in serving \ {handler} : k >= j
  BY DEF EndInv, JoinedBefore
<1>2. ASSUME handler = Main, NEW k \in serving PROVE k \in {m, m + 1}
  <2>1. k # Main /\ k \in Int /\ m \in Int /\ i \in Int
    BY AcceptAssumption DEF EndInv, TypeOK, Sessions
  <2>2. k >= m
    BY <1>1, <1>2, <2>1 DEF EndInv, JoinedBefore
  <2>3. k <= i /\ i <= m + 1
    BY <2>1 DEF EndInv, Counted
  <2> QED
    BY <2>1, <2>2, <2>3
<1> QED
  BY <1>1, <1>2 DEF LateOnly

\* The counters and sets stay what they are declared to be.
THEOREM AcceptTypes == Spec => []TypeOK
<1>1. EndInv => TypeOK
  BY DEF EndInv
<1> QED
  BY <1>1, InitEndInv, NextKeepsEndInv, PTL DEF Spec

\* While the tree is printed and freed no session may change it but the last
\* one, which m does not count, and those begun since.
THEOREM AcceptLateOnly == Spec => []LateOnly
  BY InitEndInv, NextKeepsEndInv, EndInvLateOnly, PTL DEF Spec
=============================================================================
