---------------------------- MODULE MCDirectory ----------------------------
(***************************************************************************)
(* A small directory: three names, two of which share a bucket.            *)
(***************************************************************************)
EXTENDS Directory, TLC

CONSTANTS a, b, c

MCNames == {a, b, c}
\* 'a' = 97, 'b' = 98, 'c' = 99: with two buckets a and c collide.
MCFirstChar == a :> 97 @@ b :> 98 @@ c :> 99
=============================================================================
