------------------------------ MODULE MCServer ------------------------------
(***************************************************************************)
(* Small instances of module Server.                                       *)
(***************************************************************************)
EXTENDS Server, TLC

CONSTANTS s1, s2, alice, bob, a, b, c

MCNames == {a, b}
ThreeNames == {a, b, c}
MCUids == {alice, bob}
\* The two clients are two users.
MCUid == s1 :> alice @@ s2 :> bob

\* For everybody, for the owner alone, and out of range.
AllPerms == {<<3, 3>>, <<3, 0>>, <<4, 4>>}
\* Others may read; the owner may write and nobody else anything.
GoodPerms == {<<3, 2>>, <<1, 0>>}
OpenPerms == {<<3, 3>>}
=============================================================================
