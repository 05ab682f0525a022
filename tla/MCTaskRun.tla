----------------------------- MODULE MCTaskRun -----------------------------
(* TaskRun for model checking: the tasks and the repositories they select.  *)
EXTENDS TaskRun, TLC

CONSTANTS t1, t2, r1, r2

(* Two tasks that compete for one repository.                               *)
SameRepo == t1 :> r1 @@ t2 :> r1

(* Two tasks of different repositories.                                     *)
TwoRepos == t1 :> r1 @@ t2 :> r2

=============================================================================
