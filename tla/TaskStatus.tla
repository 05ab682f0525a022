---------------------------- MODULE TaskStatus ----------------------------
(***************************************************************************)
(* The status graph of a task (packages/domain/src/task.ts).  Statuses are *)
(* stored in the tasks table; every write is a compare-and-swap on the     *)
(* pair (id, status) made by TaskRepository.transition, and the graph says *)
(* which pairs the callers may ask for.                                    *)
(***************************************************************************)

Statuses ==
  { "QUEUED", "WAITING_REPO_LOCK", "PREPARING", "RUNNING", "VERIFYING",
    "PUBLISHING", "NEEDS_APPROVAL", "NEEDS_RECOVERY", "COMPLETED",
    "FAILED", "INTERRUPTED", "CANCELLED" }

Exceptional ==
  { "NEEDS_APPROVAL", "NEEDS_RECOVERY", "FAILED", "INTERRUPTED", "CANCELLED" }

(* The four statuses in which a task works on its repository.              *)
Working == { "PREPARING", "RUNNING", "VERIFYING", "PUBLISHING" }

TaskTransitions(from) ==
  CASE from = "QUEUED"            -> { "WAITING_REPO_LOCK", "CANCELLED" }
    [] from = "WAITING_REPO_LOCK" -> { "PREPARING" } \cup Exceptional
    [] from = "PREPARING"         -> { "RUNNING" } \cup Exceptional
    [] from = "RUNNING"           -> { "VERIFYING" } \cup Exceptional
    [] from = "VERIFYING"         -> { "RUNNING", "PUBLISHING" } \cup Exceptional
    [] from = "PUBLISHING"        -> { "RUNNING", "COMPLETED" } \cup Exceptional
    [] from \in { "NEEDS_APPROVAL", "NEEDS_RECOVERY" }
         -> { "WAITING_REPO_LOCK", "FAILED", "CANCELLED" } \cup Working
    [] from = "INTERRUPTED"
         -> { "WAITING_REPO_LOCK", "NEEDS_RECOVERY", "FAILED", "CANCELLED" } \cup Working
    [] from = "FAILED"            -> { "QUEUED" }
    [] OTHER                      -> {}

CanTransition(from, to) == to \in TaskTransitions(from)

(* RepoLockService.canMoveToRecovery                                       *)
CanMoveToRecovery(s) == s \in Working \cup { "WAITING_REPO_LOCK" }

=============================================================================
