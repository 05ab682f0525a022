------------------------- MODULE VerifiedPublishing -------------------------
(***************************************************************************)
(* Publication of a sealed plan: BoundPublishingVerification,              *)
(* CommitService, the commit and push of PublishingService.  Between any   *)
(* two of its Git processes other programs may edit, commit or amend.      *)
(*                                                                         *)
(* The lease and the rows of a publication are TaskRun's; here is what is  *)
(* published.                                                              *)
(***************************************************************************)
EXTENDS Verification, CommandPolicy

(* What assertReviewSourcePath takes, safePath takes: no pattern, no        *)
(* leading dash, no segment with a leading dot, at most 1024 characters.    *)
ASSUME OrdinaryIsSafe == Names \subseteq RepoFiles /\ Ordinary \subseteq SafePaths

VARIABLES
  stage,   \* where publish is
  sha,     \* the commit it found, 0 before
  remote,  \* the remote branch, 0 before the push
  message  \* of the commit: as long as the goal of the task makes it

pubVars == <<stage, sha, remote, message>>
allVars == <<verVars, pubVars>>

PubTypeOK ==
  /\ stage \in {"off", "bound", "cleared", "committed", "named", "inspected", "pushed", "rejected"}
  /\ sha \in 0..Len(log)
  /\ remote \in 0..Len(log)
  /\ message \in Messages \cup {None}

PubInit == VerInit /\ stage = "off" /\ sha = 0 /\ remote = 0 /\ message = None

(* The files a commit changed, as a view.                                   *)
Delta(commit) ==
  [p \in Paths |-> IF log[commit].tree[p] = log[log[commit].parent].tree[p] THEN None
                   ELSE log[commit].tree[p]]

ApprovedView == [p \in Paths |-> IF p \in approved THEN expected.entries[p] ELSE None]

Alive == pc = "verified" /\ agent # "down"

(* The publish adapter: HEAD is still the one the sealed plan was made for, *)
(* and the paths to publish are the approved ones.                          *)
Bind ==
  /\ Alive
  /\ stage = "off"
  /\ sealed /\ approved # {}
  /\ head = expected.head
  /\ stage' = "bound"
  /\ message' \in Messages
  /\ UNCHANGED <<verVars, sha, remote>>

(* assertPassed.                                                            *)
Clear ==
  /\ Alive
  /\ stage = "bound"
  /\ sealed
  /\ Snapshot = expected
  /\ stage' = "cleared"
  /\ UNCHANGED <<verVars, sha, remote, message>>

(* The trusted spawner takes the commands of commitExplicit.  Where it      *)
(* refuses one, publish rejects, and the lease stays with the task.         *)
CommitAdmitted == \A p \in approved : CommitCommands(name[p], message) \subseteq InWorktree

(* git commit --only: the approved paths as they are now, on HEAD as it is  *)
(* now; Git refuses an empty commit.                                        *)
CommitExplicit ==
  /\ Alive
  /\ stage = "cleared"
  /\ CommitAdmitted
  /\ LET tree == [p \in Paths |-> IF p \in approved THEN work[p] ELSE log[head].tree[p]]
     IN  /\ tree # log[head].tree
         /\ log' = Append(log, [parent |-> head, tree |-> tree])
  /\ head' = Len(log) + 1
  /\ stage' = "committed"
  /\ UNCHANGED <<work, writes, drift, evidenceVars, reviewVars, runVars, leased, agent, sha, remote, message>>

(* rev-parse HEAD, recordCommit.                                            *)
NameCommit ==
  /\ Alive
  /\ stage = "committed"
  /\ sha' = head
  /\ stage' = "named"
  /\ UNCHANGED <<verVars, remote, message>>

(* Mutant: the parent is compared, the contents are not.                    *)
InspectParent ==
  /\ Alive
  /\ stage = "named"
  /\ log[sha].parent = expected.head
  /\ stage' = "inspected"
  /\ UNCHANGED <<verVars, sha, remote, message>>

(* assertCommitted.                                                         *)
Inspect ==
  /\ Alive
  /\ stage = "named"
  /\ log[sha].parent = expected.head
  /\ Delta(sha) = ApprovedView
  /\ stage' = "inspected"
  /\ UNCHANGED <<verVars, sha, remote, message>>

Push ==
  /\ Alive
  /\ stage = "inspected"
  /\ remote' = sha
  /\ stage' = "pushed"
  /\ UNCHANGED <<verVars, sha, message>>

(* Drift, a failing process, a lease that is gone.                          *)
PublishRejects ==
  /\ Alive
  /\ stage \notin {"pushed", "rejected"}
  /\ stage' = "rejected"
  /\ UNCHANGED <<verVars, sha, remote, message>>

Publish == Bind \/ Clear \/ CommitExplicit \/ NameCommit \/ Inspect \/ Push \/ PublishRejects

PubNext == Publish \/ (VerNext /\ UNCHANGED pubVars)

PubSpec == PubInit /\ [][PubNext]_allVars

(* The fairness of VerFairSpec; nothing is assumed of the publication.      *)
PubFairSpec ==
  /\ PubSpec
  /\ WF_allVars(Progress /\ UNCHANGED pubVars)
  /\ WF_allVars(Expire /\ UNCHANGED pubVars)
  /\ WF_allVars(Timeout /\ UNCHANGED pubVars)

-----------------------------------------------------------------------------

(* What is on the remote changes exactly the approved files of the sealed   *)
(* snapshot, to the contents both reviewers were shown, on the commit that  *)
(* was verified: no hook, other program or moved HEAD gets anything else    *)
(* published.                                                               *)
PublishedIsReviewed ==
  remote # 0 =>
    /\ sealed
    /\ log[remote].parent = expected.head
    /\ \A p \in Paths :
         log[remote].tree[p] = IF p \in review[Diff].paths THEN review[Diff].views[p]
                               ELSE log[expected.head].tree[p]
    /\ review[Secret].decision = "PASS" /\ review[Diff].decision = "PASS"
    /\ review[Secret].views = review[Diff].views

(* Where the tables of commands can stop a task.  A verification and a      *)
(* publication come to no Git command that the policy does not allow or the *)
(* trusted spawner does not admit, with one exception: the commit, and it   *)
(* only for the length of its message, which no input bounds.  A path never *)
(* stops a publication, because both reviews had to be shown the files of   *)
(* the plan, under names the reviewer's reads take.  So a task may stop     *)
(* before its commit; between its commit and its push, or between its push  *)
(* and the confirmation, the tables do not stop it.                         *)
PublishingIsCarriedOut ==
  /\ pc = "planned" => SnapshotCommands \subseteq InWorktree
  /\ \A p \in Paths : reading[p] = Checked /\ p \in In(expected.entries) /\ Readable =>
                       ReviewCommands(name[p]) \subseteq InWorktree
  /\ stage = "cleared" => (CommitAdmitted <=> message \in ShortMessages)
  /\ stage = "committed" => HeadCommands \subseteq InWorktree
  /\ stage = "named" => SnapshotCommands \subseteq InWorktree
  /\ stage = "inspected" => PushCommands \subseteq InWorktree
  /\ stage = "pushed" => ConfirmCommands \subseteq InWorktree

(* What the proof adds: a commit that was inspected is the approved one.    *)
Exact(commit) ==
  /\ commit \in 1..Len(log)
  /\ sealed
  /\ log[commit].parent = expected.head
  /\ \A p \in Paths :
       log[commit].tree[p] = IF p \in approved THEN expected.entries[p]
                             ELSE log[expected.head].tree[p]

PInv ==
  /\ VInv
  /\ PubTypeOK
  /\ sealed => expected.head \in 1..Len(log)
  /\ stage \notin {"off", "rejected"} => sealed /\ message \in Messages
  /\ stage = "named" => sha \in 1..Len(log)
  /\ stage = "inspected" => Exact(sha)
  /\ remote # 0 => Exact(remote)

=============================================================================
