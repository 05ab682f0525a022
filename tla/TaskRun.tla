------------------------------ MODULE TaskRun ------------------------------
(***************************************************************************)
(* The execution of tasks by one agent process: TaskScheduler, TaskRunner  *)
(* with the adapters of task-runner-composition.ts, PublishingService, and *)
(* the startup and shutdown of main.ts, on top of the lock service of      *)
(* RepoLease.                                                              *)
(*                                                                         *)
(* run(taskId) is one async function; pc[t] names the await it is at.      *)
(* Between two awaits nothing else runs, so one action is the completion   *)
(* of one await and the synchronous code up to the next.  Heartbeats,      *)
(* ticks, other runs, submissions and shutdown come between actions.       *)
(***************************************************************************)
EXTENDS RepoLease, FiniteSets

CONSTANTS Agent,           \* the only process: the MCP port excludes a second
          RepoOf,          \* the repository each task's selector resolves to
          PerStatusLimit,  \* limit of listRunnable (32 in the code)
          MaxFaults        \* bound on crashes, SQLite and disk errors

ASSUME RunAssumption ==
  /\ Procs = {Agent}
  /\ RepoOf \in [Tasks -> Repos]
  /\ PerStatusLimit \in Nat \ {0}
  /\ MaxFaults \in Nat

VARIABLES
  pc,        \* where run(t) is; "none" when t is not in flight
  seq,       \* tasks.seq, 0 before task_create
  evidence,  \* durable results of t: sealed plan, commit row, remote ref, PR
  ci,        \* the last CI outcome run(t) observed
  phase,     \* the process: "starting", "up", "draining"
  faults     \* how many faults have happened

runVars == <<pc, seq, evidence, ci, phase>>
vars    == <<leaseVars, runVars, faults>>

Stages ==
  { "none", "resolve", "acquire", "fetch", "workspace", "modify", "verify",
    "verified", "commit", "push", "confirm", "release", "pr", "ci",
    "complete", "resolved", "locked", "rejected" }

CommitStates == { "none", "recorded", "confirmed" }
Evidence == [sealed : BOOLEAN, commit : CommitStates, remote : BOOLEAN, pr : BOOLEAN]
NoEvidence == [sealed |-> FALSE, commit |-> "none", remote |-> FALSE, pr |-> FALSE]

RunInit ==
  /\ Init
  /\ pc = [t \in Tasks |-> "none"]
  /\ seq = [t \in Tasks |-> 0]
  /\ evidence = [t \in Tasks |-> NoEvidence]
  /\ ci = [t \in Tasks |-> "none"]
  /\ phase = "starting"
  /\ faults = 0

InFlight == { t \in Tasks : pc[t] # "none" }

Fault   == faults < MaxFaults /\ faults' = faults + 1
NoFault == faults' = faults

(* run(t) is at the await named from; it goes on to the one named to.       *)
Goto(t, from, to) == pc[t] = from /\ pc' = [pc EXCEPT ![t] = to]

(* The run of t rejects at this await.                                      *)
Reject(t, from) == Goto(t, from, "rejected")

-----------------------------------------------------------------------------
(* Submission and dispatch.                                                *)

(* TaskService.create, while the MCP server accepts calls.                  *)
Create(t) ==
  /\ Free(Agent)
  /\ phase = "up"
  /\ seq[t] = 0
  /\ seq' = [seq EXCEPT ![t] = Cardinality({ u \in Tasks : seq[u] # 0 }) + 1]
  /\ NoFault
  /\ UNCHANGED <<leaseVars, pc, evidence, ci, phase>>

(* TaskRepository.listRunnable: at most PerStatusLimit of each status, the  *)
(* oldest ones.  (All MCP tasks have the default priority.)                 *)
InStatus(s) == { t \in Tasks : seq[t] # 0 /\ status[t] = s }

Oldest(S) == { t \in S : Cardinality({ u \in S : seq[u] < seq[t] }) < PerStatusLimit }
Runnable    == Oldest(InStatus("WAITING_REPO_LOCK")) \cup Oldest(InStatus("QUEUED"))

(* TaskScheduler.tick: every listed task that is not in flight is claimed   *)
(* (QUEUED becomes WAITING_REPO_LOCK) and its run is started.               *)
Dispatch ==
  LET new == Runnable \ InFlight IN
  /\ status' = [t \in Tasks |-> IF t \in new THEN "WAITING_REPO_LOCK" ELSE status[t]]
  /\ pc' = [t \in Tasks |-> IF t \in new THEN "resolve" ELSE pc[t]]

(* startAgent reached scheduler.start(), which ticks at once.               *)
Start ==
  /\ Free(Agent)
  /\ phase = "starting"
  /\ phase' = "up"
  /\ Dispatch
  /\ NoFault
  /\ UNCHANGED <<repoId, lockFile, lockRow, held, section, running, tokens,
                 seq, evidence, ci>>

(* Mutant: a tick does not look whether the scheduler was stopped.          *)
TickWhileStopping ==
  /\ Free(Agent)
  /\ phase # "starting"
  /\ Runnable \ InFlight # {}
  /\ Dispatch
  /\ NoFault
  /\ UNCHANGED <<repoId, lockFile, lockRow, held, section, running, tokens,
                 seq, evidence, ci, phase>>

Tick ==
  /\ Free(Agent)
  /\ phase = "up"
  /\ Runnable \ InFlight # {}
  /\ Dispatch
  /\ NoFault
  /\ UNCHANGED <<repoId, lockFile, lockRow, held, section, running, tokens,
                 seq, evidence, ci, phase>>

-----------------------------------------------------------------------------
(* run(t) up to the lease.                                                 *)

(* resolveAndBind: the repository is registered and the task is bound to it *)
(* (or already was); otherwise the run rejects.                             *)
Resolve(t) ==
  /\ Free(Agent)
  /\ \/ /\ Goto(t, "resolve", "acquire")
        /\ \/ BindRepository(t, RepoOf[t])
           \/ repoId[t] = RepoOf[t] /\ UNCHANGED repoId
     \/ Reject(t, "resolve") /\ UNCHANGED repoId
  /\ NoFault
  /\ UNCHANGED <<status, lockFile, lockRow, held, section, running, tokens,
                 seq, evidence, ci, phase>>

(* RepoLockService.acquire: EEXIST is RepoLockedError.                      *)
AcquireRefused(t) ==
  /\ Free(Agent)
  /\ lockFile[RepoOf[t]] # Absent
  /\ Goto(t, "acquire", "locked")
  /\ NoFault
  /\ UNCHANGED <<leaseVars, seq, evidence, ci, phase>>

AcquireFile(t) ==
  /\ pc[t] = "acquire"
  /\ OpenLockFile(Agent, t, RepoOf[t])
  /\ NoFault
  /\ UNCHANGED runVars

AcquireFileFails(t) ==
  /\ WriteLockFileFails(Agent, RepoOf[t])
  /\ Reject(t, "acquire")
  /\ Fault
  /\ UNCHANGED <<seq, evidence, ci, phase>>

Acquired(t) ==
  /\ section[Agent].task = t
  /\ PrepareTask(Agent)
  /\ Goto(t, "acquire", "fetch")
  /\ NoFault
  /\ UNCHANGED <<seq, evidence, ci, phase>>

(* A conflict or a task that is not waiting refuses without a fault.        *)
AcquireFails(t) ==
  /\ section[Agent].task = t
  /\ PrepareFails(Agent)
  /\ IF RowConflict(section[Agent]) \/ ~WaitingFor(section[Agent])
     THEN NoFault ELSE Fault
  /\ UNCHANGED runVars

AcquireUndone(t) ==
  /\ section[Agent].task = t
  /\ UndoLockFile(Agent)
  /\ Goto(t, "acquire",
          IF section[Agent].op = "undoConflict" THEN "locked" ELSE "rejected")
  /\ NoFault
  /\ UNCHANGED <<seq, evidence, ci, phase>>

AcquireUndoFails(t) ==
  /\ section[Agent].task = t
  /\ UndoThrows(Agent)
  /\ Reject(t, "acquire")
  /\ Fault
  /\ UNCHANGED <<seq, evidence, ci, phase>>

-----------------------------------------------------------------------------
(* Under the lease.                                                        *)

(* ownedExecutionLease: the lease object is tracked here, and its row and   *)
(* file both carry its token and have not expired.                          *)
OwnsLease(t) ==
  LET h == held[Agent][t] IN
  /\ h # NoLease
  /\ h.repo = repoId[t]
  /\ lockRow[h.repo].token = h.token
  /\ lockRow[h.repo].live
  /\ lockFile[h.repo] = h.token

(* gitContext: no Git process is spawned for a task without this.           *)
GitContext(t) == status[t] \in Working /\ OwnsLease(t)

(* A step of the run that may reject for reasons of its own (network, Git,  *)
(* controller, policy, verification) and then has no durable effect here.   *)
MayReject(t) ==
  /\ Free(Agent)
  /\ \E from \in { "acquire", "fetch", "workspace", "modify", "verify", "verified",
                   "commit", "push", "confirm", "release", "pr", "ci", "complete" } :
        Reject(t, from)
  /\ NoFault
  /\ UNCHANGED <<leaseVars, seq, evidence, ci, phase>>

(* Mutant: the write is not conditional on the expected status.             *)
ProgressAlways(t, from, to) == status' = [status EXCEPT ![t] = to]

(* The progress adapter: a write only from the expected status, otherwise   *)
(* nothing, and the run goes on.                                            *)
Progress(t, from, to) ==
  status' = [status EXCEPT ![t] = IF @ = from THEN to ELSE @]

Fetch(t) ==
  /\ Free(Agent)
  /\ GitContext(t)
  /\ Goto(t, "fetch", "workspace")
  /\ NoFault
  /\ UNCHANGED <<leaseVars, seq, evidence, ci, phase>>

(* The worktree is created and recorded, then PREPARING -> RUNNING.         *)
CreateWorkspace(t) ==
  /\ Free(Agent)
  /\ GitContext(t)
  /\ Goto(t, "workspace", "modify")
  /\ Progress(t, "PREPARING", "RUNNING")
  /\ NoFault
  /\ UNCHANGED <<repoId, lockFile, lockRow, held, section, running, tokens,
                 seq, evidence, ci, phase>>

(* Instructions, analysis and modification by the external controller; each *)
(* step is bound to a RUNNING task that owns its lease.  RUNNING->VERIFYING. *)
Modify(t) ==
  /\ Free(Agent)
  /\ status[t] = "RUNNING"
  /\ OwnsLease(t)
  /\ Goto(t, "modify", "verify")
  /\ Progress(t, "RUNNING", "VERIFYING")
  /\ NoFault
  /\ UNCHANGED <<repoId, lockFile, lockRow, held, section, running, tokens,
                 seq, evidence, ci, phase>>

(* VerificationCoordinator seals a plan: its commands and reviews need a    *)
(* VERIFYING task with its lease.                                           *)
Verify(t) ==
  /\ Free(Agent)
  /\ status[t] = "VERIFYING"
  /\ OwnsLease(t)
  /\ Goto(t, "verify", "verified")
  /\ evidence' = [evidence EXCEPT ![t].sealed = TRUE]
  /\ NoFault
  /\ UNCHANGED <<leaseVars, seq, ci, phase>>

(* The sealed plan is read back: passed.  VERIFYING -> PUBLISHING.          *)
Verified(t) ==
  /\ Free(Agent)
  /\ evidence[t].sealed
  /\ Goto(t, "verified", "commit")
  /\ Progress(t, "VERIFYING", "PUBLISHING")
  /\ NoFault
  /\ UNCHANGED <<repoId, lockFile, lockRow, held, section, running, tokens,
                 seq, evidence, ci, phase>>

(* publish: HEAD is read again, assertPassed, commitExplicit, recordCommit. *)
Commit(t) ==
  /\ Free(Agent)
  /\ GitContext(t)
  /\ evidence[t].sealed
  /\ Goto(t, "commit", "push")
  /\ evidence' = [evidence EXCEPT ![t].commit = "recorded"]
  /\ NoFault
  /\ UNCHANGED <<leaseVars, seq, ci, phase>>

(* Mutant: the lease is given back without confirming the remote commit.    *)
PushUnconfirmed(t) ==
  /\ Free(Agent)
  /\ GitContext(t)
  /\ Goto(t, "push", "release")
  /\ evidence' = [evidence EXCEPT ![t].remote = TRUE]
  /\ NoFault
  /\ UNCHANGED <<leaseVars, seq, ci, phase>>

(* assertCommitted and push.  A push that reports failure may have moved    *)
(* the remote branch all the same.                                          *)
Push(t) ==
  /\ Free(Agent)
  /\ GitContext(t)
  /\ Goto(t, "push", "confirm") \/ Reject(t, "push")
  /\ evidence' = [evidence EXCEPT ![t].remote = TRUE]
  /\ NoFault
  /\ UNCHANGED <<leaseVars, seq, ci, phase>>

(* confirmRemoteSha reads the commit back and markRemoteConfirmed stores it. *)
Confirm(t) ==
  /\ Free(Agent)
  /\ GitContext(t)
  /\ evidence[t].remote
  /\ Goto(t, "confirm", "release")
  /\ evidence' = [evidence EXCEPT ![t].commit = "confirmed"]
  /\ NoFault
  /\ UNCHANGED <<leaseVars, seq, ci, phase>>

Release(t) ==
  /\ pc[t] = "release"
  /\ \/ StartRelease(Agent, t)
     \/ section[Agent].task = t /\ DeleteRow(Agent)
  /\ NoFault
  /\ UNCHANGED runVars

Released(t) ==
  /\ section[Agent].task = t
  /\ RemoveLockFile(Agent)
  /\ Goto(t, "release", "pr")
  /\ NoFault
  /\ UNCHANGED <<seq, evidence, ci, phase>>

ReleaseFails(t) ==
  /\ section[Agent].task = t
  /\ ReleaseThrows(Agent)
  /\ Reject(t, "release")
  /\ Fault
  /\ UNCHANGED <<seq, evidence, ci, phase>>

-----------------------------------------------------------------------------
(* Without the lease.                                                      *)

(* PullRequestService.ensureForTask; the branch exists on the remote.       *)
EnsurePr(t) ==
  /\ Free(Agent)
  /\ Goto(t, "pr", "ci")
  /\ evidence' = [evidence EXCEPT ![t].pr = TRUE]
  /\ NoFault
  /\ UNCHANGED <<leaseVars, seq, ci, phase>>

(* Mutant: pending checks count as passed.                                  *)
ObserveCiPendingPasses(t, outcome) ==
  /\ Free(Agent)
  /\ evidence[t].pr
  /\ evidence[t].commit = "confirmed"
  /\ Goto(t, "ci", IF outcome # "FAILURE" THEN "complete" ELSE "resolved")
  /\ ci' = [ci EXCEPT ![t] = outcome]
  /\ NoFault
  /\ UNCHANGED <<leaseVars, seq, evidence, phase>>

(* The CI context needs the recorded pull request and the latest commit to  *)
(* be confirmed.  Only SUCCESS completes; with FAILURE or PENDING the run   *)
(* resolves and the task stays PUBLISHING.                                  *)
ObserveCi(t, outcome) ==
  /\ Free(Agent)
  /\ evidence[t].pr
  /\ evidence[t].commit = "confirmed"
  /\ Goto(t, "ci", IF outcome = "SUCCESS" THEN "complete" ELSE "resolved")
  /\ ci' = [ci EXCEPT ![t] = outcome]
  /\ NoFault
  /\ UNCHANGED <<leaseVars, seq, evidence, phase>>

Complete(t) ==
  /\ Free(Agent)
  /\ CanTransition(status[t], "COMPLETED")
  /\ Goto(t, "complete", "resolved")
  /\ status' = [status EXCEPT ![t] = "COMPLETED"]
  /\ NoFault
  /\ UNCHANGED <<repoId, lockFile, lockRow, held, section, running, tokens,
                 seq, evidence, ci, phase>>

-----------------------------------------------------------------------------
(* The promise settled: TaskScheduler.failTask and finish.                  *)

Finish(t) ==
  /\ Free(Agent)
  /\ Goto(t, "resolved", "none") \/ Goto(t, "locked", "none")
  /\ NoFault
  /\ UNCHANGED <<leaseVars, seq, evidence, ci, phase>>

(* FAILED from wherever the graph allows it; a task this write misses       *)
(* (SQLite fails) keeps its status and leaves the in-flight set all the     *)
(* same.                                                                    *)
FailTask(t) ==
  /\ Free(Agent)
  /\ Goto(t, "rejected", "none")
  /\ \/ /\ status' = [status EXCEPT ![t] = IF CanTransition(@, "FAILED") THEN "FAILED" ELSE @]
        /\ NoFault
     \/ /\ UNCHANGED status
        /\ Fault
  /\ UNCHANGED <<repoId, lockFile, lockRow, held, section, running, tokens,
                 seq, evidence, ci, phase>>

-----------------------------------------------------------------------------
(* The environment of a run: heartbeats, expiry, shutdown, crash.           *)

HeartbeatOk(t) ==
  /\ Beat(Agent, t)
  /\ NoFault
  /\ UNCHANGED runVars

HeartbeatFails(t) ==
  /\ BeatFails(Agent, t)
  /\ Fault
  /\ UNCHANGED runVars

Expires(r) ==
  /\ LeaseExpires(r)
  /\ \/ Fault       \* the machine was suspended past the TTL
     \/ /\ \A t \in Tasks : held[Agent][t].token = lockRow[r].token
                              => ~held[Agent][t].timer
        /\ NoFault  \* nobody beats any more
  /\ UNCHANGED runVars

(* close(): stop() blocks dispatch, the MCP server stops accepting, pending *)
(* controller waits reject.                                                 *)
Stop ==
  /\ Free(Agent)
  /\ phase = "up"
  /\ phase' = "draining"
  /\ pc' \in { [t \in Tasks |-> IF t \in S THEN "rejected" ELSE pc[t]] :
                 S \in SUBSET { t \in Tasks : pc[t] \in {"modify", "verify"} } }
  /\ NoFault
  /\ UNCHANGED <<leaseVars, seq, evidence, ci>>

(* The drain resolved: no run is in flight.  Leases left held are quiesced, *)
(* never released.                                                          *)
QuiesceLease(t) ==
  /\ phase = "draining"
  /\ InFlight = {}
  /\ Quiesce(Agent, t)
  /\ NoFault
  /\ UNCHANGED runVars

(* Then the database is closed and the process exits.                       *)
Exit ==
  /\ Free(Agent)
  /\ phase = "draining"
  /\ InFlight = {}
  /\ \A t \in Tasks : ~held[Agent][t].timer
  /\ running' = [running EXCEPT ![Agent] = FALSE]
  /\ held' = [held EXCEPT ![Agent] = [t \in Tasks |-> NoLease]]
  /\ NoFault
  /\ UNCHANGED <<status, repoId, lockFile, lockRow, section, tokens, runVars>>

(* A kill at any point: memory is lost, nothing durable is undone.          *)
CrashAgent ==
  /\ Crash(Agent)
  /\ pc' = [t \in Tasks |-> "none"]
  /\ Fault
  /\ UNCHANGED <<seq, evidence, ci, phase>>

RestartAgent ==
  /\ Restart(Agent)
  /\ phase' = "starting"
  /\ NoFault
  /\ UNCHANGED <<pc, seq, evidence, ci>>

-----------------------------------------------------------------------------

(* A step run(t) takes by itself once its await completes.                  *)
RunStep(t) ==
  \/ Resolve(t)
  \/ AcquireRefused(t)
  \/ AcquireFile(t)
  \/ Acquired(t)
  \/ AcquireFails(t)
  \/ AcquireUndone(t)
  \/ Fetch(t)
  \/ CreateWorkspace(t)
  \/ Modify(t)
  \/ Verify(t)
  \/ Verified(t)
  \/ Commit(t)
  \/ Push(t)
  \/ Confirm(t)
  \/ Release(t)
  \/ Released(t)
  \/ EnsurePr(t)
  \/ \E outcome \in {"SUCCESS", "FAILURE", "PENDING"} : ObserveCi(t, outcome)
  \/ Complete(t)
  \/ MayReject(t)
  \/ Finish(t)
  \/ FailTask(t)

RunNext ==
  \/ \E t \in Tasks :
       \/ Create(t)
       \/ RunStep(t)
       \/ AcquireFileFails(t)
       \/ AcquireUndoFails(t)
       \/ ReleaseFails(t)
       \/ HeartbeatOk(t)
       \/ HeartbeatFails(t)
       \/ QuiesceLease(t)
  \/ \E r \in Repos : Expires(r)
  \/ Start
  \/ Tick
  \/ Stop
  \/ Exit
  \/ CrashAgent
  \/ RestartAgent

RunSpec == RunInit /\ [][RunNext]_vars

(* Every await of a run settles: Git and isolated commands, GitHub requests *)
(* and controller waits all have deadlines.  The interval timer keeps       *)
(* ticking, close() runs to its end, and systemd restarts the service.      *)
Fairness ==
  /\ \A t \in Tasks : WF_vars(RunStep(t))
  /\ \A t \in Tasks : WF_vars(QuiesceLease(t))
  /\ WF_vars(Start)
  /\ WF_vars(Tick)
  /\ WF_vars(Exit)

FairSpec == RunSpec /\ Fairness

-----------------------------------------------------------------------------
(* Correctness.                                                            *)

(* Types of the composed state.                                             *)
RunTypeOK ==
  /\ TypeOK
  /\ pc \in [Tasks -> Stages]
  /\ seq \in [Tasks -> Nat]
  /\ IsFiniteSet({ t \in Tasks : seq[t] # 0 })
  /\ evidence \in [Tasks -> Evidence]
  /\ ci \in [Tasks -> {"none", "SUCCESS", "FAILURE", "PENDING"}]
  /\ phase \in {"starting", "up", "draining"}
  /\ faults \in 0..MaxFaults

(* t has changed, or may still change, its repository and has not yet       *)
(* confirmed the result on the remote.                                      *)
Mutating(t) ==
  \/ status[t] \in {"PREPARING", "RUNNING", "VERIFYING"}
  \/ status[t] = "PUBLISHING" /\ evidence[t].commit # "confirmed"

(* A task in such a status owns the row of its repository, at every moment  *)
(* of a run and across crashes: nothing moves a task into work without the  *)
(* lease, and no failure path frees the lease under a task at work.         *)
WorkUnderLease ==
  \A t \in Tasks : Mutating(t) =>
    repoId[t] \in Repos /\ lockRow[repoId[t]].task = t

(* COMPLETED says what the user reads into it: the verified plan was sealed,*)
(* the commit reached the remote and was confirmed, the pull request exists,*)
(* CI succeeded, and the repository is free for others.                     *)
CompletedEvidence ==
  \A t \in Tasks : status[t] = "COMPLETED" =>
    /\ evidence[t] = [sealed |-> TRUE, commit |-> "confirmed", remote |-> TRUE, pr |-> TRUE]
    /\ ci[t] = "SUCCESS"
    /\ \A r \in Repos : lockRow[r].task # t

(* The row of a task is deleted only after its commit was confirmed on the  *)
(* remote (SEC-LOCK-002): every failing, crashing or stopped run leaves the *)
(* repository locked around its unconfirmed work.                           *)
FreedOnlyAfterConfirmation ==
  [][ \A r \in Repos :
        lockRow[r] # NoRow /\ lockRow'[r] = NoRow
        => evidence[lockRow[r].task].commit = "confirmed" ]_vars

(* A task whose lease was lost never works again nor completes: the run it  *)
(* still has in memory can only fail it.                                    *)
RecoveryIsSticky ==
  [][ \A t \in Tasks :
        status[t] = "NEEDS_RECOVERY" => status'[t] \in {"NEEDS_RECOVERY", "FAILED"} ]_vars

(* close() always ends: the drain is not blocked by a run that waits.       *)
ShutdownCompletes == phase = "draining" ~> ~running[Agent]

(* Whatever the order of repositories, a waiting task is not passed over    *)
(* for ever while its repository is free: once the agent stays up and the   *)
(* lock file of its repository stays absent, the task leaves the queue.     *)
Waits(t) == seq[t] # 0 /\ status[t] \in {"QUEUED", "WAITING_REPO_LOCK"}

IndependentRepos ==
  \A t \in Tasks :
    <>[](running[Agent] /\ phase = "up" /\ lockFile[RepoOf[t]] = Absent)
      => []<>~Waits(t)

-----------------------------------------------------------------------------
(* The inductive strengthening used by the proofs.                         *)

AfterRelease == { "pr", "ci", "complete" }
AfterConfirm == { "release" } \cup AfterRelease
AfterPush    == { "confirm" } \cup AfterConfirm
AfterSeal    == { "verified", "commit", "push" } \cup AfterPush

(* The status run(t) has given its task by each stage: only the loss of the *)
(* lease changes it behind the run's back.                                  *)
AtStage(t) ==
  status[t] # "NEEDS_RECOVERY" =>
    /\ pc[t] \in { "fetch", "workspace" } => status[t] = "PREPARING"
    /\ pc[t] = "modify" => status[t] = "RUNNING"
    /\ pc[t] \in { "verify", "verified" } => status[t] = "VERIFYING"
    /\ pc[t] \in AfterSeal \ { "verified" } => status[t] = "PUBLISHING"

(* The durable results a run has behind it at each stage.                   *)
Behind(t) ==
  /\ pc[t] \in AfterSeal => evidence[t].sealed
  /\ pc[t] \in AfterPush => evidence[t].remote
  /\ pc[t] \in AfterConfirm => evidence[t].commit = "confirmed"
  /\ pc[t] \in { "ci", "complete" } => evidence[t].pr
  /\ pc[t] = "complete" => ci[t] = "SUCCESS"
  /\ pc[t] \in AfterRelease => \A r \in Repos : lockRow[r].task # t

StageOK == \A t \in Tasks : AtStage(t) /\ Behind(t)

(* The call in progress is the one the run of its task awaits.              *)
StageSection ==
  LET s == section[Agent] IN
  /\ s.op \in { "acquire", "undoConflict", "undoError" } => pc[s.task] = "acquire"
  /\ s.op \in { "releaseRow", "releaseFile" } =>
       pc[s.task] = "release" /\ repoId[s.task] = s.repo
  /\ s.op = "releaseRow" => lockRow[s.repo].task = s.task

(* A row names a task that is bound to its repository.                      *)
RowsBound == \A t \in Tasks, r \in Repos : lockRow[r].task = t => repoId[t] = r

RunInv ==
  /\ IInv
  /\ RunTypeOK
  /\ StageOK
  /\ StageSection
  /\ RowsBound
  /\ WorkUnderLease
  /\ CompletedEvidence

=============================================================================
