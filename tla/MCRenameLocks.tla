--------------------------- MODULE MCRenameLocks ---------------------------
(***************************************************************************)
(* Two names in two buckets.                                               *)
(***************************************************************************)
EXTENDS RenameLocks, TLC

CONSTANTS x, y

MCNames     == {x, y}
MCFirstChar == x :> 120 @@ y :> 121
=============================================================================
