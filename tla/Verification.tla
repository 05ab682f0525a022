---------------------------- MODULE Verification ----------------------------
(***************************************************************************)
(* Verification of one task's worktree: VerificationCoordinator,           *)
(* VerificationRunner, ExternalVerificationReview and their repositories.  *)
(*                                                                         *)
(* A snapshot of HEAD and the changed files is taken first.  The required  *)
(* commands run, then the controller reviews the snapshot twice, for       *)
(* secrets and as a diff, then the plan is sealed.  The worktree is an     *)
(* ordinary directory: a command may write to it and so may any other      *)
(* program, and HEAD may move.  Every step compares the worktree with the  *)
(* snapshot before and after its own await.                                *)
(*                                                                         *)
(* A task is verified once and its plan stays the latest; executions of    *)
(* different tasks share nothing.  A capture is one action: it observes    *)
(* everything twice and rejects what moved between.                        *)
(***************************************************************************)
EXTENDS Naturals, Sequences, FiniteSets

CONSTANTS
  Paths,
  Contents,       \* what a file may hold, a deleted file included
  Original,       \* what every file holds at the first commit
  None,           \* no content: a path that is not in a snapshot or a view
  Names,          \* paths of files as Git and the reviewer are given them
  Ordinary,       \* those assertReviewSourcePath takes
  Namings,        \* how the files may be named
  Checked,        \* a read whose snapshot was compared, before the source is read
  Commands,       \* required commands of the plan
  MaxWrites,      \* bound on the writes of commands
  MaxDrift,       \* bound on edits and commits of other programs
  MaxOffers       \* bound on submissions in flight

ASSUME VerificationAssumption ==
  /\ Original \in Contents
  /\ None \notin Contents \cup {Checked}
  /\ Checked \notin Contents
  /\ Namings \subseteq [Paths -> Names]
  /\ Commands \in Nat \ {0}
  /\ MaxWrites \in Nat
  /\ MaxDrift \in Nat
  /\ MaxOffers \in Nat

Secret  == Commands + 1        \* secret-scan
Diff    == Commands + 2        \* diff-review
Reviews == {Secret, Diff}
Checks  == 1..Diff
Over    == Diff + 1            \* the runner's loop has ended

VARIABLES
  work,      \* the files of the worktree
  log,       \* commits: parent and tree
  head,      \* HEAD of the worktree
  name,      \* what each file is called, once and for all
  expected,  \* the snapshot the plan was made from
  status,    \* verification_checks
  approved,  \* paths recorded with the passed diff-review
  sealed,    \* the snapshot is part of the plan's evidence
  review,    \* verification_reviews, one row per external check
  entry,     \* the pending map holds the review of the current check
  fresh,     \* its expires_at is in the future
  seen,      \* what was shown of each path, by the digests of that entry
  reading,   \* reads in flight for that entry
  offers,    \* submissions in flight
  pc,        \* where the execution is
  check,     \* the check the runner is at
  outcome,   \* of the command that ended
  span,      \* worktree at the start and at the end of each command
  leased,    \* VERIFYING, with its workspace and a lease of this process
  agent,
  writes,
  drift

evidenceVars == <<name, expected, status, approved, sealed>>
reviewVars   == <<review, entry, fresh, seen, reading, offers>>
treeVars     == <<work, log, head, writes, drift>>
runVars      == <<pc, check, outcome, span>>
verVars      == <<treeVars, evidenceVars, reviewVars, runVars, leased, agent>>

Trees     == [Paths -> Contents]
Views     == [Paths -> Contents \cup {None}]
Snapshots == [head : Nat, entries : Views]
NoView    == [p \in Paths |-> None]
NoShot    == [head |-> 0, entries |-> NoView]
NoReview  == [state |-> "NONE", decision |-> "NONE", views |-> NoView, paths |-> {}]

Decisions == {"PASS", "FAIL"}
Offers    == [check : Reviews, decision : Decisions, views : Views, paths : SUBSET Paths]
Rows      == [state : {"NONE", "PENDING", "ACCEPTED", "FAILED", "INTERRUPTED"},
              decision : Decisions \cup {"NONE"}, views : Views, paths : SUBSET Paths]

Awaits == {"planned", "check", "queued", "running", "ended", "reviewed", "sealed"}

VerTypeOK ==
  /\ work \in Trees
  /\ log \in Seq([parent : Nat, tree : Trees])
  /\ head \in 1..Len(log)
  /\ name \in Namings
  /\ expected \in Snapshots
  /\ status \in [Checks -> {"PENDING", "PASS", "FAIL"}]
  /\ approved \in SUBSET Paths
  /\ sealed \in BOOLEAN
  /\ review \in [Reviews -> Rows]
  /\ entry \in BOOLEAN
  /\ fresh \in BOOLEAN
  /\ seen \in Views
  /\ reading \in [Paths -> Contents \cup {None, Checked}]
  /\ offers \in SUBSET Offers
  /\ pc \in Awaits \cup {"idle", "awaiting", "verified", "failed"}
  /\ check \in 1..Over
  /\ outcome \in Decisions
  /\ span \in [1..Commands -> [from : Snapshots, to : Snapshots]]
  /\ leased \in BOOLEAN
  /\ agent \in {"up", "closed", "down"}
  /\ writes \in 0..MaxWrites
  /\ drift \in 0..MaxDrift

(* The modification has been written; the branch has its first commit.     *)
VerInit ==
  /\ work \in Trees
  /\ log = <<[parent |-> 0, tree |-> [p \in Paths |-> Original]]>>
  /\ head = 1
  /\ name \in Namings
  /\ expected = NoShot
  /\ status = [k \in Checks |-> "PENDING"]
  /\ approved = {}
  /\ sealed = FALSE
  /\ review = [k \in Reviews |-> NoReview]
  /\ entry = FALSE
  /\ fresh = FALSE
  /\ seen = NoView
  /\ reading = NoView
  /\ offers = {}
  /\ pc = "idle"
  /\ check = 1
  /\ outcome = "PASS"
  /\ span = [k \in 1..Commands |-> [from |-> NoShot, to |-> NoShot]]
  /\ leased = TRUE
  /\ agent = "up"
  /\ writes = 0
  /\ drift = 0

(* What status reports.                                                     *)
Changed == {p \in Paths : work[p] # log[head].tree[p]}

(* capture: HEAD and every file that differs from it.                       *)
Snapshot ==
  [head |-> head, entries |-> [p \in Paths |-> IF p \in Changed THEN work[p] ELSE None]]

In(view) == {p \in Paths : view[p] # None}

(* assertActive.                                                            *)
Active == agent = "up" /\ leased

(* Mutant: only HEAD is compared.                                           *)
UnmovedHead == Active /\ head = expected.head

(* The bound capture of the coordinator.                                    *)
Unmoved == Active /\ Snapshot = expected

-----------------------------------------------------------------------------
(* The rows of verification_reviews.                                       *)

CreateRow(k) == review' = [review EXCEPT ![k].state = "PENDING"]

(* Only a pending row that has not expired is accepted.                     *)
AcceptRow(o) ==
  /\ review[o.check].state = "PENDING" /\ fresh
  /\ review' = [review EXCEPT ![o.check] =
                  [state |-> "ACCEPTED", decision |-> o.decision, views |-> o.views, paths |-> o.paths]]

(* An ended row is left alone.                                              *)
StopRow(k, s) ==
  review' = IF review[k].state = "PENDING" THEN [review EXCEPT ![k].state = s] ELSE review

-----------------------------------------------------------------------------
(* The rows of verification_plans and verification_checks.                 *)

(* A plan of checks nobody has run.                                         *)
PersistPlan(snapshot) ==
  /\ expected' = snapshot
  /\ status' = [k \in Checks |-> "PENDING"]

(* The accepted row of check k says s and approves these paths.             *)
AcceptedAs(k, s, paths) ==
  review[k].state = "ACCEPTED" /\ review[k].decision = s /\ review[k].paths = paths

(* A check is finished once, before the seal, and a review as accepted.     *)
FinishCheck(s, paths) ==
  /\ status[check] = "PENDING" /\ ~sealed
  /\ check \in Reviews => AcceptedAs(check, s, paths)
  /\ status' = [status EXCEPT ![check] = s]
  /\ approved' = IF check = Diff THEN paths ELSE approved

(* The evidence a plan needs.  Of the views the paths are compared.         *)
BoundPlan ==
  /\ \A k \in Checks : status[k] = "PASS"
  /\ \A k \in Reviews : /\ AcceptedAs(k, "PASS", IF k = Diff THEN approved ELSE {})
                        /\ In(review[k].views) = In(expected.entries)
  /\ approved \subseteq In(expected.entries)

SealSnapshot == ~sealed /\ BoundPlan /\ sealed' = TRUE

-----------------------------------------------------------------------------
(* The coordinator and the runner.                                         *)

Plan ==
  /\ pc = "idle"
  /\ Active
  /\ In(Snapshot.entries) # {}
  /\ PersistPlan(Snapshot)
  /\ pc' = "planned"
  /\ UNCHANGED <<treeVars, name, approved, sealed, reviewVars, check, outcome, span, leased, agent>>

StartChecks ==
  /\ pc = "planned"
  /\ Unmoved
  /\ pc' = "check"
  /\ UNCHANGED <<treeVars, evidenceVars, reviewVars, check, outcome, span, leased, agent>>

BeginCommand ==
  /\ pc = "check"
  /\ check \in 1..Commands
  /\ Unmoved
  /\ pc' = "queued"
  /\ UNCHANGED <<treeVars, evidenceVars, reviewVars, check, outcome, span, leased, agent>>

(* Policy and approvals come first; the worktree is not looked at again.    *)
SpawnCommand ==
  /\ pc = "queued"
  /\ agent # "down"
  /\ pc' = "running"
  /\ span' = [span EXCEPT ![check].from = Snapshot]
  /\ UNCHANGED <<treeVars, evidenceVars, reviewVars, check, outcome, leased, agent>>

CommandWrites(p, c) ==
  /\ pc = "running"
  /\ writes < MaxWrites
  /\ writes' = writes + 1
  /\ work' = [work EXCEPT ![p] = c]
  /\ UNCHANGED <<log, head, drift, evidenceVars, reviewVars, runVars, leased, agent>>

CommandEnds ==
  /\ pc = "running"
  /\ agent # "down"
  /\ outcome' \in Decisions
  /\ pc' = "ended"
  /\ span' = [span EXCEPT ![check].to = Snapshot]
  /\ UNCHANGED <<treeVars, evidenceVars, reviewVars, check, leased, agent>>

RecordCommand ==
  /\ pc = "ended"
  /\ Unmoved
  /\ FinishCheck(outcome, {})
  /\ pc' = "check"
  /\ check' = check + 1
  /\ UNCHANGED <<treeVars, name, expected, sealed, reviewVars, outcome, span, leased, agent>>

(* request: a new row, and an entry that has shown nothing yet.             *)
OpenReview ==
  /\ In(expected.entries) # {}
  /\ CreateRow(check)
  /\ entry' = TRUE
  /\ fresh' = TRUE
  /\ seen' = NoView
  /\ reading' = NoView

(* The gate: no command failed, the snapshot holds, then request.           *)
RequestReview ==
  /\ pc = "check"
  /\ check \in Reviews
  /\ \A k \in 1..Commands : status[k] # "FAIL"
  /\ Unmoved
  /\ OpenReview
  /\ pc' = "awaiting"
  /\ UNCHANGED <<treeVars, evidenceVars, offers, check, outcome, span, leased, agent>>

FinishReview ==
  /\ pc = "reviewed"
  /\ Unmoved
  /\ FinishCheck(review[check].decision, review[check].paths)
  /\ pc' = "check"
  /\ check' = check + 1
  /\ UNCHANGED <<treeVars, name, expected, sealed, reviewVars, outcome, span, leased, agent>>

(* The runner's own verdict.                                                *)
Passed == \A k \in Checks : status[k] = "PASS"

Seal ==
  /\ pc = "check"
  /\ check = Over
  /\ Passed
  /\ Unmoved
  /\ SealSnapshot
  /\ pc' = "sealed"
  /\ UNCHANGED <<treeVars, name, expected, status, approved, reviewVars, check, outcome, span, leased, agent>>

(* The lease is looked at once more, then the run goes on to publish.       *)
Finish ==
  /\ pc = "sealed"
  /\ Active
  /\ pc' = "verified"
  /\ UNCHANGED <<treeVars, evidenceVars, reviewVars, check, outcome, span, leased, agent>>

(* An await of the execution rejects, for drift, a lost lease, a check that *)
(* failed, or reasons of its own; after the seal too.                       *)
Reject ==
  /\ pc \in Awaits \cup {"idle"}
  /\ agent # "down"
  /\ pc' = "failed"
  /\ UNCHANGED <<treeVars, evidenceVars, reviewVars, check, outcome, span, leased, agent>>

-----------------------------------------------------------------------------
(* The controller's side of a review.  A call that throws changes nothing. *)

(* assertPending, for the review of check k.                                *)
ReviewOpen(k) ==
  /\ entry
  /\ check = k
  /\ review[k].state = "PENDING"
  /\ Active
  /\ fresh

BeginRead(p) ==
  /\ ReviewOpen(check)
  /\ p \in In(expected.entries)
  /\ Snapshot = expected
  /\ reading[p] = None
  /\ reading' = [reading EXCEPT ![p] = Checked]
  /\ UNCHANGED <<treeVars, evidenceVars, review, entry, fresh, seen, offers, runVars, leased, agent>>

(* Mutant: the paths of the snapshot are not looked at.                     *)
ReadAnyName(p) ==
  /\ reading[p] = Checked
  /\ agent # "down"
  /\ work[p] = expected.entries[p]
  /\ reading' = [reading EXCEPT ![p] = work[p]]
  /\ UNCHANGED <<treeVars, evidenceVars, review, entry, fresh, seen, offers, runVars, leased, agent>>

(* copySnapshot takes only ordinary paths, whichever of them is read.       *)
Readable == \A p \in In(expected.entries) : name[p] \in Ordinary

ReadSource(p) ==
  /\ reading[p] = Checked
  /\ agent # "down"
  /\ Readable
  /\ work[p] = expected.entries[p]
  /\ reading' = [reading EXCEPT ![p] = work[p]]
  /\ UNCHANGED <<treeVars, evidenceVars, review, entry, fresh, seen, offers, runVars, leased, agent>>

EndRead(p) ==
  /\ reading[p] \in Contents
  /\ Snapshot = expected
  /\ ReviewOpen(check)
  /\ seen' = [seen EXCEPT ![p] = reading[p]]
  /\ reading' = [reading EXCEPT ![p] = None]
  /\ UNCHANGED <<treeVars, evidenceVars, review, entry, fresh, offers, runVars, leased, agent>>

ReadFails(p) ==
  /\ reading[p] # None
  /\ reading' = [reading EXCEPT ![p] = None]
  /\ UNCHANGED <<treeVars, evidenceVars, review, entry, fresh, seen, offers, runVars, leased, agent>>

(* Mutant: a diff-review passes without approving a path.                   *)
ValidEmptyApproval(decision, paths) ==
  /\ decision = "PASS" => In(seen) = In(expected.entries)
  /\ paths \subseteq In(expected.entries)
  /\ paths # {} => decision = "PASS" /\ check = Diff

(* A PASS acknowledges every path of the snapshot by what this entry showed *)
(* and approves paths in the diff-review only.                              *)
Valid(decision, paths) ==
  /\ decision = "PASS" => In(seen) = In(expected.entries)
  /\ paths \subseteq In(expected.entries)
  /\ paths # {} <=> decision = "PASS" /\ check = Diff

Submit(decision, paths) ==
  /\ ReviewOpen(check)
  /\ Valid(decision, paths)
  /\ Cardinality(offers) < MaxOffers
  /\ offers' = offers \cup
       {[check |-> check, decision |-> decision, paths |-> paths,
         views |-> IF decision = "PASS" THEN seen ELSE NoView]}
  /\ UNCHANGED <<treeVars, evidenceVars, review, entry, fresh, seen, reading, runVars, leased, agent>>

(* Mutant: the pending map and the row are not looked at again.             *)
AcceptLate(o) ==
  /\ o \in offers
  /\ Snapshot = expected
  /\ Active
  /\ fresh
  /\ review' = [review EXCEPT ![o.check] =
                  [state |-> "ACCEPTED", decision |-> o.decision, views |-> o.views, paths |-> o.paths]]
  /\ entry' = FALSE
  /\ seen' = NoView
  /\ offers' = offers \ {o}
  /\ pc' = IF pc = "awaiting" THEN "reviewed" ELSE pc
  /\ UNCHANGED <<treeVars, evidenceVars, fresh, reading, check, outcome, span, leased, agent>>

(* The rest of submit: accept, remove, resolve.                             *)
Accept(o) ==
  /\ o \in offers
  /\ Snapshot = expected
  /\ ReviewOpen(o.check)
  /\ AcceptRow(o)
  /\ entry' = FALSE
  /\ seen' = NoView
  /\ offers' = offers \ {o}
  /\ pc' = "reviewed"
  /\ UNCHANGED <<treeVars, evidenceVars, fresh, reading, check, outcome, span, leased, agent>>

SubmitFails(o) ==
  /\ o \in offers
  /\ offers' = offers \ {o}
  /\ UNCHANGED <<treeVars, evidenceVars, review, entry, fresh, seen, reading, runVars, leased, agent>>

(* stop: the entry goes, the row too, the gate rejects.                     *)
StopReview(s) ==
  /\ entry' = FALSE
  /\ seen' = NoView
  /\ StopRow(check, s)
  /\ pc' = "failed"
  /\ UNCHANGED <<treeVars, evidenceVars, fresh, reading, offers, check, outcome, span, leased>>

ControllerFails ==
  /\ ReviewOpen(check)
  /\ StopReview("FAILED")
  /\ UNCHANGED agent

(* Mutant: the timer leaves a review alone while a submission is in flight. *)
TimeoutUnlessOffered ==
  /\ entry
  /\ ~fresh
  /\ agent # "down"
  /\ offers = {}
  /\ StopReview("FAILED")
  /\ UNCHANGED agent

Timeout ==
  /\ entry
  /\ ~fresh
  /\ agent # "down"
  /\ StopReview("FAILED")
  /\ UNCHANGED agent

-----------------------------------------------------------------------------
(* Around them.                                                            *)

Expire ==
  /\ entry
  /\ fresh
  /\ fresh' = FALSE
  /\ UNCHANGED <<treeVars, evidenceVars, review, entry, seen, reading, offers, runVars, leased, agent>>

LoseLease ==
  /\ leased
  /\ leased' = FALSE
  /\ UNCHANGED <<treeVars, evidenceVars, reviewVars, runVars, agent>>

Close ==
  /\ agent = "up"
  /\ agent' = "closed"
  /\ IF entry THEN StopReview("INTERRUPTED")
     ELSE UNCHANGED <<treeVars, evidenceVars, reviewVars, runVars, leased>>

Crash ==
  /\ agent # "down"
  /\ agent' = "down"
  /\ entry' = FALSE
  /\ seen' = NoView
  /\ reading' = NoView
  /\ offers' = {}
  /\ pc' = "failed"
  /\ UNCHANGED <<treeVars, evidenceVars, review, fresh, check, outcome, span, leased>>

(* The constructor: interruptPending.  Executions are not resumed.          *)
Restart ==
  /\ agent = "down"
  /\ agent' = "up"
  /\ review' = [k \in Reviews |->
                  IF review[k].state = "PENDING" THEN [review[k] EXCEPT !.state = "INTERRUPTED"] ELSE review[k]]
  /\ UNCHANGED <<treeVars, evidenceVars, entry, fresh, seen, reading, offers, runVars, leased>>

(* Another program edits a file.                                            *)
Edit(p, c) ==
  /\ drift < MaxDrift
  /\ drift' = drift + 1
  /\ work[p] # c
  /\ work' = [work EXCEPT ![p] = c]
  /\ UNCHANGED <<log, head, writes, evidenceVars, reviewVars, runVars, leased, agent>>

(* Another program commits the worktree, on top of HEAD or instead of it.   *)
MoveHead ==
  /\ drift < MaxDrift
  /\ drift' = drift + 1
  /\ \E parent \in {head, log[head].parent} \ {0} :
       log' = Append(log, [parent |-> parent, tree |-> work])
  /\ head' = Len(log) + 1
  /\ UNCHANGED <<work, writes, evidenceVars, reviewVars, runVars, leased, agent>>

-----------------------------------------------------------------------------

Progress ==
  Plan \/ StartChecks \/ BeginCommand \/ SpawnCommand \/ CommandEnds \/ RecordCommand
    \/ RequestReview \/ FinishReview \/ Seal \/ Finish \/ Reject

Control ==
  \/ \E p \in Paths : BeginRead(p) \/ ReadSource(p) \/ EndRead(p) \/ ReadFails(p)
  \/ \E decision \in Decisions, paths \in SUBSET Paths : Submit(decision, paths)
  \/ \E o \in offers : Accept(o) \/ SubmitFails(o)
  \/ ControllerFails

Drift == MoveHead \/ \E p \in Paths, c \in Contents : Edit(p, c) \/ CommandWrites(p, c)

VerNext == Progress \/ Control \/ Timeout \/ Expire \/ LoseLease \/ Close \/ Crash \/ Restart \/ Drift

VerSpec == VerInit /\ [][VerNext]_verVars

(* Awaits settle, the clock goes on, timers fire.  Nothing is assumed of    *)
(* the controller.                                                          *)
VerFairSpec == VerSpec /\ WF_verVars(Progress) /\ WF_verVars(Expire) /\ WF_verVars(Timeout)

-----------------------------------------------------------------------------
(* Correctness.                                                            *)

(* What a sealed plan proves: every check passed, and each of the two       *)
(* reviews was accepted for this snapshot by somebody who was shown every   *)
(* file of it as it is in the snapshot.                                     *)
SealedProof ==
  sealed =>
    /\ \A k \in Checks : status[k] = "PASS"
    /\ \A k \in Reviews :
         /\ review[k].state = "ACCEPTED"
         /\ review[k].decision = "PASS"
         /\ review[k].views = expected.entries
    /\ approved = review[Diff].paths
    /\ approved # {} /\ approved \subseteq In(expected.entries)

(* Every command of a sealed plan began and ended on the snapshot, as long  *)
(* as nobody but the commands wrote: what one command changes, another      *)
(* cannot restore unnoticed.                                                *)
CommandsSawSnapshot ==
  sealed /\ drift = 0 => \A k \in 1..Commands : span[k] = [from |-> expected, to |-> expected]

(* A pending review row has an entry and a waiting execution, and the other *)
(* way round, unless the process died.                                      *)
ReviewsAwaited ==
  /\ pc = "awaiting" <=> entry
  /\ entry => review[check].state = "PENDING" /\ agent # "down"
  /\ agent # "down" => \A k \in Reviews : review[k].state = "PENDING" => entry /\ check = k

(* A review is decided once: submissions in flight, timers, shutdown and    *)
(* restarts leave an ended one alone.                                       *)
DecidedOnce ==
  [][ \A k \in Reviews : review[k].state \notin {"NONE", "PENDING"} => review'[k] = review[k] ]_verVars

(* What the proofs add: where the execution is with each check, and that    *)
(* everything shown, offered or accepted is the content of the snapshot.    *)
Located ==
  /\ pc = "idle" => /\ seen = NoView /\ reading = NoView /\ offers = {}
                    /\ \A k \in Reviews : review[k].state = "NONE"
  /\ pc \in {"queued", "running", "ended"} => check \in 1..Commands
  /\ pc = "reviewed" => /\ check \in Reviews
                        /\ review[check].state = "ACCEPTED" /\ review[check].decision \in Decisions
  /\ entry => pc = "awaiting" /\ check \in Reviews
  /\ \A k \in Checks : k >= check => status[k] = "PENDING"
  /\ sealed => pc \in {"sealed", "verified", "failed"} /\ check = Over

Faithful(views, paths, k) ==
  /\ Readable
  /\ views = expected.entries
  /\ paths \subseteq In(expected.entries)
  /\ k = Diff => paths # {}

Shown ==
  /\ \A p \in Paths :
       /\ seen[p] # None => seen[p] = expected.entries[p] /\ Readable
       /\ reading[p] \in Contents => reading[p] = expected.entries[p] /\ Readable
  /\ \A o \in offers : o.decision = "PASS" => Faithful(o.views, o.paths, o.check)
  /\ \A k \in Reviews :
       /\ review[k].state = "ACCEPTED" /\ review[k].decision = "PASS" =>
            Faithful(review[k].views, review[k].paths, k)
       /\ status[k] = "PASS" => review[k].state = "ACCEPTED" /\ review[k].decision = "PASS"

Recorded ==
  /\ status[Diff] = "PASS" => approved = review[Diff].paths
  /\ sealed => \A k \in Checks : status[k] = "PASS"

VInv == VerTypeOK /\ Located /\ Shown /\ Recorded

(* A check the runner has not reached has no review yet.                    *)
Unrequested ==
  \A k \in Reviews :
    (k > check \/ (k = check /\ pc \notin {"awaiting", "reviewed", "failed"})) => review[k].state = "NONE"

RInv == VInv /\ ReviewsAwaited /\ Unrequested

(* An execution that began ends.                                            *)
ExecutionSettles == pc # "idle" ~> pc \in {"verified", "failed"}

=============================================================================
