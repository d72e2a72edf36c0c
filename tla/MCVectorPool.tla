---------------------------- MODULE MCVectorPool ----------------------------
(***************************************************************************)
(* Command files for module VectorPool.                                    *)
(***************************************************************************)
EXTENDS VectorPool

CONSTANTS a, b

Cmd(token, name) == [token |-> token, name |-> name]

\* A file with a comment and a line that is no command, one command longer
\* than the vector; and one with a command that lacks its name.
GoodScript == <<Cmd("c", a), Cmd("#", Missing), Cmd("c", b), Cmd("?", Missing),
                Cmd("l", a), Cmd("d", b), Cmd("c", b)>>
BadScript  == <<Cmd("c", b), Cmd("d", a), Cmd("l", Missing)>>

MCScripts == {GoodScript, BadScript}
ShortScripts == {<<Cmd("c", a)>>}
=============================================================================
