---------------------------- MODULE MCPublishing ----------------------------
(* Verification and publication together, with the Git commands they issue: *)
(* pushes of a task branch and of main, forced, deleting and wildcard ones. *)
(* Both files have ordinary names, or one has a name no reviewer is shown.  *)
EXTENDS VerifiedPublishing, TLC

R(source, destination, force, delete, any) ==
  [source |-> source, destination |-> destination, force |-> force,
   delete |-> delete, any |-> any]

MCParsed == "S:fix" :> R("S", "fix", FALSE, FALSE, FALSE)
            @@ "T:main" :> R("T", "main", FALSE, FALSE, FALSE)
            @@ "+S:fix" :> R("S", "fix", TRUE, FALSE, FALSE)
            @@ ":fix" :> R("", "fix", FALSE, TRUE, FALSE)
            @@ "*" :> R("*", "*", FALSE, FALSE, TRUE)

(* The first file is an ordinary one.                                      *)
First == CHOOSE p \in Paths : TRUE
MCNamings == { [p \in Paths |-> IF p = First THEN "file" ELSE second] : second \in {"other", "odd"} }

=============================================================================
