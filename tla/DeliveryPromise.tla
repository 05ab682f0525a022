-------------------------- MODULE DeliveryPromise --------------------------
(***************************************************************************)
(* What the last part of a run promises to the user, without GitHub: a     *)
(* published task gets its pull request recorded once, is judged once by   *)
(* its required checks, and is COMPLETED only after SUCCESS.  A task may   *)
(* fail at any point before that, and a task whose checks are still        *)
(* running when the observation ends stays PUBLISHING.                     *)
(***************************************************************************)
CONSTANT Tasks

VARIABLES recorded,  \* tasks with a pull request on record
          verdict,   \* task: "none", "SUCCESS", "FAILURE" or "PENDING"
          status     \* task: its durable status

vars == <<recorded, verdict, status>>

Init ==
  /\ recorded = {}
  /\ verdict = [t \in Tasks |-> "none"]
  /\ status = [t \in Tasks |-> "PUBLISHING"]

Record(t) ==
  /\ status[t] = "PUBLISHING" /\ verdict[t] = "none"
  /\ t \notin recorded /\ recorded' = recorded \cup {t}
  /\ UNCHANGED <<verdict, status>>

Judge(t, v) ==
  /\ status[t] = "PUBLISHING" /\ t \in recorded /\ verdict[t] = "none"
  /\ verdict' = [verdict EXCEPT ![t] = v]
  /\ UNCHANGED <<recorded, status>>

Complete(t) ==
  /\ status[t] = "PUBLISHING" /\ verdict[t] = "SUCCESS"
  /\ status' = [status EXCEPT ![t] = "COMPLETED"]
  /\ UNCHANGED <<recorded, verdict>>

Fail(t) ==
  /\ status[t] = "PUBLISHING" /\ verdict[t] \in {"none", "SUCCESS"}
  /\ status' = [status EXCEPT ![t] = "FAILED"]
  /\ UNCHANGED <<recorded, verdict>>

Next == \E t \in Tasks :
  \/ Record(t)
  \/ \E v \in {"SUCCESS", "FAILURE", "PENDING"} : Judge(t, v)
  \/ Complete(t)
  \/ Fail(t)

Spec == Init /\ [][Next]_vars

=============================================================================
