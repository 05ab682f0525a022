--------------------------- MODULE MCLocalCommand ---------------------------
(* Two calls for one repository, with the Git commands that they issue.     *)
EXTENDS LocalCommand

CONSTANT r1

OneRepo == [c \in Calls |-> r1]

NoRefspecs == <<>>

=============================================================================
