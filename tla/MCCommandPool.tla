--------------------------- MODULE MCCommandPool ---------------------------
(***************************************************************************)
(* Command files for module CommandPool.                                   *)
(***************************************************************************)
EXTENDS CommandPool, TLC

CONSTANTS a, b, d, c1, c2, c3

MCNames == {a, b, d}
MCFirstChar == a :> 97 @@ b :> 98 @@ d :> 100

Line(token, name) == [token |-> token, name |-> name, newName |-> Missing]
Rename(name, new) == [token |-> "r", name |-> name, newName |-> new]
Comment == [token |-> "#", name |-> Missing, newName |-> Missing]
Garbage == [token |-> "?", name |-> Missing, newName |-> Missing]

\* Every command, two creates of one bucket, a rename that happens and one
\* that does not: for one consumer.
MixedScript == <<Line("c", a), Line("c", b), Comment, Rename(a, d), Rename(b, d),
                 Line("l", d), Line("d", b), Line("c", a)>>

\* Commands that race on a and on d, and b that only one command touches.
RacyScript == <<Line("c", a), Line("c", b), Rename(a, d), Line("l", d), Line("d", a), Rename(a, d)>>

\* The file breaks off at a line that is no command.
BrokenScript == <<Line("c", a), Line("d", a), Garbage, Line("c", b)>>

\* For three consumers: one that ends with surplus units and finds old commands
\* in the ring, and one without commands, with which it finds an empty slot.
CreateScript == <<Line("c", a), Line("c", b)>>
EmptyScript  == <<Comment>>

Call(script, threads) == [file |-> script, threads |-> threads]

OneToThree == {Call(MixedScript, {c1}), Call(RacyScript, {c1, c2}), Call(BrokenScript, {c1, c2}),
               Call(CreateScript, {c1, c2, c3}), Call(EmptyScript, {c1, c2, c3})}
MCThree    == {c1, c2, c3}
ThreeTimes == {Call(CreateScript, MCThree)}
=============================================================================
