---------------------------- MODULE MCApprovals ----------------------------
(* Approvals for model checking: the commands and what they ask for.        *)
EXTENDS Approvals, TLC

CONSTANTS c1, c2, c3, c4, a, b

(* Commands of one task: two gates, one of them shared, a command that      *)
(* is refused after it paid, and one with a denied operation besides.       *)
Mixed == c1 :> <<a, b>> @@ c2 :> <<a>> @@ c3 :> <<b>> @@ c4 :> <<a>>

(* One command that names the same risky operation twice.                   *)
SameTwice == c1 :> <<a, a>>

Symmetry == Permutations(Ids)

=============================================================================
