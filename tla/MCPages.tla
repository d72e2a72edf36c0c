------------------------------ MODULE MCPages ------------------------------
(***************************************************************************)
(* Two cues, each with its ball, and a window that lies, stands, is a      *)
(* square or has no width.                                                 *)
(***************************************************************************)
EXTENDS Pages

MCWindows == {<<3, 2>>, <<2, 3>>, <<2, 2>>, <<0, 2>>}
MCFirstWindow == <<3, 2>>
=============================================================================
