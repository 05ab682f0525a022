------------------------------ MODULE MCSearch ------------------------------
(***************************************************************************)
(* Search for model checking: the root holds a directory with one file,    *)
(* and another file; one entry, in the root another one before these or    *)
(* one of them, comes or goes.  Three calls, one cursor, two versions of   *)
(* each file.                                                              *)
(***************************************************************************)
EXTENDS SearchCursors, TLC

Upper == <<2>>
Lower == <<1, 1>>

Alike == Permutations(Calls)

MCNames == (<<>> :> {0, 1, 2}) @@ (<<1>> :> {1})
MCPresent == (<<>> :> {1, 2}) @@ (<<1>> :> {1})
MCLines == (Upper :> <<4, 3>>) @@ (Lower :> <<1, 2>>)
MCMatch == (Upper :> <<{1, 2, 4}, {2, 3}>>) @@ (Lower :> <<{1}, {1, 2}>>)
=============================================================================
