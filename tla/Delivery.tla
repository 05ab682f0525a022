------------------------------ MODULE Delivery ------------------------------
(***************************************************************************)
(* The end of a run without its lease: the pull request of the pushed      *)
(* branch and the required checks of the confirmed commit                  *)
(* (packages/github, github-services.ts and the adapters of                *)
(* task-runner-composition.ts).  TaskRun takes each of EnsurePr and        *)
(* ObserveCi in one step; here they are the requests they are made of.     *)
(*                                                                         *)
(* Every request is awaited.  Between two of them GitHub changes: people   *)
(* open and close pull requests, check runs appear, finish and are run     *)
(* again, and rules the agent does not support appear.  Runs of several    *)
(* repositories go on at once.                                             *)
(***************************************************************************)
EXTENDS Sequences, FiniteSets, Naturals

CONSTANTS
  Tasks, Repos,
  RepoOf,       \* task: its repository; each task has a branch of its own
  Slots,        \* places for a check run: a suite and a name on a commit
  SlotOf,       \* slot: [task, name, app]
  Required,     \* repo: the required rules of its base branch, [name, app]
  AnyApp,
  Listing,      \* all slots, in the order GitHub lists them
  PageSize,     \* 100
  MaxAttempts,  \* 6 polls
  Pushed,       \* slot: the states its check run may be in by now
  MaxReruns,    \* bound: times a finished check is run again
  MaxHuman,     \* bound: pull requests of a repository when people open one
  MaxChanges,   \* bound: changes on GitHub
  Crashes       \* bound: crashes of the agent

ASSUME TasksHaveRepositories == RepoOf \in [Tasks -> Repos]

ASSUME SlotsAreListed ==
  /\ \A c \in Slots : SlotOf[c].task \in Tasks
  /\ Listing \in Seq(Slots) /\ \A c \in Slots : \E i \in DOMAIN Listing : Listing[i] = c
  /\ PageSize \in Nat \ {0}

VARIABLES
  at,        \* task: the request run(t) awaits, "gone" after a crash
  prs,       \* repo: the pull requests by number, [head, open]
  run,       \* slot: its latest check run, [id, value]
  extra,     \* task: "ruleset" and "status" requirements that apply to it
  poll,      \* task: [attempt, page, seen]: the poll that is under way
  changed,   \* task: history, what changed on GitHub since that poll began
  rows,      \* pull_requests: [task, repo, number], in the order of their ids
  stored,    \* task: ci_runs, [key, value]
  outcome,   \* task: what observeRequiredChecks returned
  status,    \* task: its durable status
  crashes, changes

deliveryVars == <<at, prs, run, extra, poll, changed, rows, stored,
                  outcome, status, crashes, changes>>
github == <<prs, run, extra, changed, changes, crashes>>

Absent == [id |-> 0, value |-> "absent"]
Failures == {"failure", "cancelled", "timed_out", "action_required", "startup_failure", "stale"}
Acceptable == {"success", "neutral", "skipped"}
NoPoll == [attempt |-> 0, page |-> 0, seen |-> {}]

DeliveryInit ==
  /\ at = [t \in Tasks |-> "find"]
  /\ prs = [r \in Repos |-> <<>>]
  /\ run \in [Slots -> [id : {0}, value : UNION {Pushed[c] : c \in Slots}]]
  /\ \A c \in Slots : run[c].value \in Pushed[c]
  /\ extra = [t \in Tasks |-> {}]
  /\ poll = [t \in Tasks |-> NoPoll]
  /\ changed = [t \in Tasks |-> {}]
  /\ rows = <<>>
  /\ stored = [t \in Tasks |-> {}]
  /\ outcome = [t \in Tasks |-> "none"]
  /\ status = [t \in Tasks |-> "PUBLISHING"]
  /\ crashes = 0 /\ changes = 0

Goto(t, from, to) == at[t] = from /\ at' = [at EXCEPT ![t] = to]

-----------------------------------------------------------------------------
(* PullRequestService.ensureForTask.                                       *)

OpenFor(t) == {n \in DOMAIN prs[RepoOf[t]] :
                 prs[RepoOf[t]][n].head = t /\ prs[RepoOf[t]][n].open}

(* Mutant: the conflict is on the number alone.                            *)
PersistByNumber(t, n) ==
  LET old == {i \in DOMAIN rows : rows[i].number = n}
      row == [task |-> t, repo |-> RepoOf[t], number |-> n]
  IN rows' = IF old = {} THEN Append(rows, row)
             ELSE [i \in DOMAIN rows |-> IF i \in old THEN row ELSE rows[i]]

(* One row for each number of a repository; a second record of the number  *)
(* gives the row to the new task.                                          *)
Persist(t, n) ==
  LET r == RepoOf[t]
      old == {i \in DOMAIN rows : rows[i].repo = r /\ rows[i].number = n}
      row == [task |-> t, repo |-> r, number |-> n]
  IN rows' = IF old = {} THEN Append(rows, row)
             ELSE [i \in DOMAIN rows |-> IF i \in old THEN row ELSE rows[i]]

RowsOf(t) == {i \in DOMAIN rows : rows[i].task = t}
LatestRow(t) == rows[CHOOSE i \in RowsOf(t) : \A j \in RowsOf(t) : j <= i]

(* The open pull request of the branch is found, or its text is built from *)
(* the stored evidence.                                                    *)
Find(t) ==
  /\ IF OpenFor(t) # {}
     THEN Goto(t, "find", "context") /\ (\E n \in OpenFor(t) : Persist(t, n))
     ELSE Goto(t, "find", "describe") /\ UNCHANGED rows
  /\ UNCHANGED <<github, poll, stored, outcome, status>>

Describe(t) ==
  /\ Goto(t, "describe", "create")
  /\ UNCHANGED <<github, rows, poll, stored, outcome, status>>

(* GitHub refuses a second open pull request for a branch.                 *)
Create(t) ==
  LET r == RepoOf[t] IN
  /\ OpenFor(t) = {}
  /\ Goto(t, "create", "context")
  /\ prs' = [prs EXCEPT ![r] = Append(@, [head |-> t, open |-> TRUE])]
  /\ Persist(t, Len(prs[r]) + 1)
  /\ UNCHANGED <<run, extra, changed, changes, crashes, poll, stored, outcome, status>>

(* The reply to the request is lost: the pull request exists, the run does *)
(* not know its number and rejects.                                        *)
CreateUnanswered(t) ==
  /\ OpenFor(t) = {}
  /\ Goto(t, "create", "rejected")
  /\ prs' = [prs EXCEPT ![RepoOf[t]] = Append(@, [head |-> t, open |-> TRUE])]
  /\ UNCHANGED <<run, extra, changed, changes, crashes, rows, poll, stored, outcome, status>>

-----------------------------------------------------------------------------
(* CiObserve.  The context is read from the database: the latest row of    *)
(* the task and its confirmed commit.                                      *)

(* Mutant: the attempt is not counted.                                     *)
BeginPollUncounted(t, from) ==
  /\ Goto(t, from, "rules")
  /\ poll' = [poll EXCEPT ![t] = [attempt |-> 1, page |-> 1, seen |-> {}]]
  /\ changed' = [changed EXCEPT ![t] = {}]
  /\ UNCHANGED <<prs, run, extra, changes, crashes, rows, stored, outcome, status>>

(* A poll begins with the request for the rules.                           *)
BeginPoll(t, from) ==
  /\ Goto(t, from, "rules")
  /\ poll' = [poll EXCEPT ![t] = [attempt |-> @.attempt + 1, page |-> 1, seen |-> {}]]
  /\ changed' = [changed EXCEPT ![t] = {}]
  /\ UNCHANGED <<prs, run, extra, changes, crashes, rows, stored, outcome, status>>

ResolveContext(t) ==
  /\ RowsOf(t) # {}
  /\ BeginPoll(t, "context")

Rules(t) == Required[RepoOf[t]]

(* The rulesets, the commit statuses and the branch protection are read,   *)
(* one request after the other.  A ruleset or a status adds requirements   *)
(* the check runs do not show, and without a required check there is       *)
(* nothing to judge: then the observation rejects.                         *)
ReadRules(t) ==
  /\ extra[t] = {} /\ Rules(t) # {}
  /\ Goto(t, "rules", "runs")
  /\ UNCHANGED <<github, rows, poll, stored, outcome, status>>

(* The check runs of a task's commit, by their places in the listing.      *)
Listed(t) == {i \in DOMAIN Listing : SlotOf[Listing[i]].task = t /\ run[Listing[i]] # Absent}
Before(t, i) == Cardinality({j \in Listed(t) : j < i})

(* A page is counted when it is asked for; the listing may have grown since *)
(* the page before.                                                        *)
Page(t, p) == {i \in Listed(t) : (p - 1) * PageSize <= Before(t, i) /\ Before(t, i) < p * PageSize}
Answer(page) == {[slot |-> Listing[i], run |-> run[Listing[i]]] : i \in page}

Matches(rule, c) == SlotOf[c].name = rule.name /\ rule.app \in {AnyApp, SlotOf[c].app}

(* Mutant: one run stands for all that match a rule.                      *)
SnapshotsLast(t, seen) ==
  UNION { LET mine == {x \in seen : Matches(rule, x.slot)}
          IN IF mine = {} THEN {[key |-> <<rule, 0>>, value |-> "queued"]}
             ELSE LET x == CHOOSE y \in mine : \A z \in mine : y.run.id >= z.run.id
                  IN {[key |-> <<x.slot, x.run.id>>, value |-> x.run.value]}
          : rule \in Rules(t) }

(* Every run that matches a rule counts, or a queued one when none does.   *)
Snapshots(t, seen) ==
  UNION { LET mine == {x \in seen : Matches(rule, x.slot)}
          IN IF mine = {} THEN {[key |-> <<rule, 0>>, value |-> "queued"]}
             ELSE {[key |-> <<x.slot, x.run.id>>, value |-> x.run.value] : x \in mine}
          : rule \in Rules(t) }

Verdict(latest) ==
  IF \E x \in latest : x.value \in Failures THEN "FAILURE"
  ELSE IF latest # {} /\ \A x \in latest : x.value \in Acceptable THEN "SUCCESS"
  ELSE "PENDING"

(* Mutant: the run completes unless a check failed.                        *)
AfterUnlessFailed(verdict) == IF verdict # "FAILURE" THEN "complete" ELSE "resolved"

(* How the run goes on when the observation is over.                       *)
After(verdict) == IF verdict = "SUCCESS" THEN "complete" ELSE "resolved"

(* Every snapshot is stored, one row for each check run.                   *)
Store(t, latest) ==
  LET keys == {x.key : x \in latest}
  IN stored' = [stored EXCEPT ![t] = {x \in @ : x.key \notin keys} \cup latest]

(* The decision after the last page: the observation ends, or waits for    *)
(* the next poll.                                                          *)
Judge(t, seen) ==
  LET latest == Snapshots(t, seen)
      verdict == Verdict(latest)
      over == verdict # "PENDING" \/ poll[t].attempt >= MaxAttempts
  IN
  /\ Store(t, latest)
  /\ Goto(t, "runs", IF over THEN After(verdict) ELSE "wait")
  /\ outcome' = [outcome EXCEPT ![t] = IF over THEN verdict ELSE @]

(* A full page is followed by another one.                                 *)
ReadRuns(t) ==
  LET p == poll[t].page
      page == Page(t, p)
      seen == poll[t].seen \cup Answer(page)
  IN
  /\ at[t] = "runs"
  /\ IF Cardinality(page) = PageSize
     THEN poll' = [poll EXCEPT ![t].page = p + 1, ![t].seen = seen]
          /\ UNCHANGED <<at, stored, outcome>>
     ELSE Judge(t, seen) /\ poll' = [poll EXCEPT ![t].page = 0, ![t].seen = {}]
  /\ UNCHANGED <<github, rows, status>>

Wait(t) == BeginPoll(t, "wait")

-----------------------------------------------------------------------------
(* The end of the run.                                                     *)

Complete(t) ==
  /\ Goto(t, "complete", "resolved")
  /\ status[t] = "PUBLISHING"
  /\ status' = [status EXCEPT ![t] = "COMPLETED"]
  /\ UNCHANGED <<github, rows, poll, stored, outcome>>

Requests == {"find", "describe", "create", "context", "rules", "runs", "complete"}

(* A request fails, its answer is malformed, its 30 seconds are over, a    *)
(* precondition does not hold, or SQLite refuses the write.                *)
Reject(t) ==
  /\ \E from \in Requests : Goto(t, from, "rejected")
  /\ UNCHANGED <<github, rows, poll, stored, outcome, status>>

FailTask(t) ==
  /\ Goto(t, "rejected", "resolved")
  /\ status' = [status EXCEPT ![t] = "FAILED"]
  /\ UNCHANGED <<github, rows, poll, stored, outcome>>

(* The agent is killed.  Nothing takes up a PUBLISHING task again.         *)
Crash ==
  /\ crashes < Crashes /\ crashes' = crashes + 1
  /\ at' = [t \in Tasks |-> IF at[t] = "resolved" THEN "resolved" ELSE "gone"]
  /\ poll' = [t \in Tasks |-> NoPoll]
  /\ UNCHANGED <<prs, run, extra, changed, changes, rows, stored, outcome, status>>

RunStep(t) ==
  \/ Find(t) \/ Describe(t) \/ Create(t) \/ CreateUnanswered(t)
  \/ ResolveContext(t) \/ ReadRules(t)
  \/ ReadRuns(t) \/ Wait(t) \/ Complete(t) \/ Reject(t) \/ FailTask(t)

-----------------------------------------------------------------------------
(* GitHub and the people who use it.                                       *)

Observing(t) == at[t] \in {"rules", "runs"}

Change == changes < MaxChanges /\ changes' = changes + 1
Touch(t, what) == changed' = [changed EXCEPT ![t] = IF Observing(t) THEN @ \cup {what} ELSE @]

HumanOpens(t) ==
  LET r == RepoOf[t] IN
  /\ Change /\ OpenFor(t) = {}
  /\ Len(prs[r]) < MaxHuman
  /\ prs' = [prs EXCEPT ![r] = Append(@, [head |-> t, open |-> TRUE])]
  /\ UNCHANGED <<at, run, extra, poll, changed, rows, stored, outcome, status, crashes>>

HumanCloses(t) ==
  /\ Change
  /\ \E n \in OpenFor(t) : prs' = [prs EXCEPT ![RepoOf[t]][n].open = FALSE]
  /\ UNCHANGED <<at, run, extra, poll, changed, rows, stored, outcome, status, crashes>>

RunAdvances(c) ==
  /\ Change
  /\ \/ run[c].value = "absent" /\ run' = [run EXCEPT ![c].value = "queued"]
     \/ run[c].value = "queued"
        /\ \E v \in {"success", "failure", "unheard_of"} : run' = [run EXCEPT ![c].value = v]
     \/ run[c].value \notin {"absent", "queued"} /\ run[c].id < MaxReruns
        /\ run' = [run EXCEPT ![c] = [id |-> run[c].id + 1, value |-> "queued"]]
  /\ Touch(SlotOf[c].task, c)
  /\ UNCHANGED <<at, prs, extra, poll, rows, stored, outcome, status, crashes>>

NewRequirement(t, what) ==
  /\ Change /\ what \notin extra[t]
  /\ extra' = [extra EXCEPT ![t] = @ \cup {what}]
  /\ Touch(t, what)
  /\ UNCHANGED <<at, prs, run, poll, rows, stored, outcome, status, crashes>>

GitHub ==
  \/ \E t \in Tasks : \/ HumanOpens(t) \/ HumanCloses(t)
                      \/ \E what \in {"ruleset", "status"} : NewRequirement(t, what)
  \/ \E c \in Slots : RunAdvances(c)

DeliveryNext == (\E t \in Tasks : RunStep(t)) \/ Crash \/ GitHub

(* Every request has a deadline, and the delay between polls is a timer.   *)
DeliverySpec == DeliveryInit /\ [][DeliveryNext]_deliveryVars
                /\ \A t \in Tasks : WF_deliveryVars(RunStep(t))

-----------------------------------------------------------------------------

(* Whatever GitHub does in between, each task goes through the promise:    *)
(* recorded once, judged once, COMPLETED only after SUCCESS.               *)
Promise == INSTANCE DeliveryPromise WITH
             recorded <- {t \in Tasks : RowsOf(t) # {}}, verdict <- outcome
DeliversAsPromised == Promise!Spec

(* SUCCESS is earned on GitHub and not only in the answers that were read: *)
(* of all that did not change while the last poll read it, every check run *)
(* that matches a required rule is acceptable, no rule is without one, and *)
(* no other requirement applies.  The rows that back the verdict are       *)
(* stored.                                                                 *)
SuccessIsEarned ==
  [][ \A t \in Tasks :
        outcome'[t] = "SUCCESS" /\ outcome[t] # "SUCCESS" =>
          /\ extra[t] \subseteq changed[t]
          /\ \A rule \in Rules(t) :
               LET mine == {c \in Slots : SlotOf[c].task = t /\ Matches(rule, c) /\ run[c] # Absent}
               IN /\ mine # {}
                  /\ \A c \in mine \ changed[t] : run[c].value \in Acceptable
                  /\ \E x \in stored'[t] : x.key \in mine \X Nat /\ x.value \in Acceptable
    ]_deliveryVars

(* The pull request a task is observed under is one of its own branch and  *)
(* repository, also when runs of other repositories get the same numbers   *)
(* and people open pull requests first.                                    *)
ObservedUnderItsOwn ==
  \A t \in Tasks : at[t] \in {"rules", "runs", "wait", "complete"} \/ status[t] = "COMPLETED" =>
    /\ RowsOf(t) # {}
    /\ LatestRow(t).repo = RepoOf[t]
    /\ prs[RepoOf[t]][LatestRow(t).number].head = t

(* The observation of a task ends: a check that stays queued, or that ends *)
(* with a conclusion nobody has heard of, costs the polls that are left.   *)
ObservationEnds ==
  \A t \in Tasks : at[t] = "context" ~> at[t] \in {"resolved", "gone"}

-----------------------------------------------------------------------------
(* The inductive strengthening used by the proofs.                         *)

BeforeRecord == {"find", "describe", "create"}
UnderRecord  == {"context", "rules", "runs", "wait"}

(* What the promise speaks of; the rest is GitHub's answers.                *)
DeliveryTyped ==
  /\ at \in [Tasks -> BeforeRecord \cup UnderRecord
                       \cup {"complete", "rejected", "resolved", "gone"}]
  /\ prs \in [Repos -> Seq([head : Tasks, open : BOOLEAN])]
  /\ rows \in Seq([task : Tasks, repo : Repos, number : Nat])
  /\ outcome \in [Tasks -> {"none", "SUCCESS", "FAILURE", "PENDING"}]
  /\ status \in [Tasks -> {"PUBLISHING", "COMPLETED", "FAILED"}]

(* A row names a pull request of its task's branch in its task's repository.*)
RowTrue(x) ==
  /\ x.repo = RepoOf[x.task]
  /\ x.number \in DOMAIN prs[x.repo]
  /\ prs[x.repo][x.number].head = x.task

RowsTrue ==
  /\ \A i \in DOMAIN rows : RowTrue(rows[i])
  /\ \A i, j \in DOMAIN rows : rows[i].task = rows[j].task => i = j

(* What a run has recorded and heard at each of its requests.               *)
RunAt(t) ==
  /\ at[t] \in BeforeRecord => RowsOf(t) = {}
  /\ at[t] \in UnderRecord \cup {"complete"} => RowsOf(t) # {}
  /\ at[t] \in BeforeRecord \cup UnderRecord => outcome[t] = "none"
  /\ at[t] = "complete" => outcome[t] = "SUCCESS"
  /\ at[t] = "rejected" => outcome[t] \in {"none", "SUCCESS"}
  /\ at[t] \notin {"resolved", "gone"} => status[t] = "PUBLISHING"
  /\ status[t] = "COMPLETED" => RowsOf(t) # {}

DeliveryInv == DeliveryTyped /\ RowsTrue /\ \A t \in Tasks : RunAt(t)

(* What the verdict speaks of.                                              *)
Runs == [id : Nat, value : {"queued", "success", "failure", "unheard_of"}
                             \cup UNION {Pushed[c] : c \in Slots}]

PollTyped ==
  /\ run \in [Slots -> Runs]
  /\ extra \in [Tasks -> SUBSET {"ruleset", "status"}]
  /\ changed \in [Tasks -> SUBSET (Slots \cup {"ruleset", "status"})]
  /\ poll \in [Tasks -> [attempt : Nat, page : Nat, seen : SUBSET [slot : Slots, run : Runs]]]
  /\ DOMAIN stored = Tasks

(* What a poll has seen is there, and is as it was seen unless it changed   *)
(* since; and it has seen all that the pages behind it hold, counted as the *)
(* listing is now.                                                         *)
PollAt(t) ==
  /\ at[t] = "rules" => poll[t].page = 1 /\ poll[t].seen = {}
  /\ at[t] = "runs" =>
       /\ extra[t] \subseteq changed[t]
       /\ poll[t].page >= 1
       /\ \A x \in poll[t].seen :
            /\ SlotOf[x.slot].task = t /\ run[x.slot] # Absent
            /\ x.slot \in changed[t] \/ x.run = run[x.slot]
       /\ \A i \in Listed(t) :
            Before(t, i) < (poll[t].page - 1) * PageSize =>
              Listing[i] \in changed[t] \/ Answer({i}) \subseteq poll[t].seen

PollInv == PollTyped /\ \A t \in Tasks : PollAt(t)

=============================================================================
