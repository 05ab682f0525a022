# Verification of the Gram coding agent

This directory holds TLA+ specifications of the agent in `../src`, the TLC
configurations that check them on small instances, and TLAPS proofs of the
properties that matter most for every instance. Paths below are relative to
`src/`.

The agent is one Node.js process (`apps/agent`) that takes coding tasks over
MCP, serializes them per repository with a durable lock, lets an external
controller edit a worktree, verifies, commits, pushes, opens a pull request and
waits for CI. Beside that it runs local commands of registered repositories and
gives a remote caller guarded access to the owner's files. Its state is a SQLite
database, a directory of lock files, Git worktrees, native worker processes and a
few maps in memory. It is asynchronous single-threaded code: what runs between two
`await`s is atomic inside the process, and everything else (heartbeat timers,
scheduler ticks, other runs, MCP calls, the owner at work in the same files,
shutdown, a crash, another process on the same state directory) can come in
between. That is the grain of every module here.

## 1. Inventory

| Component | State | Operations | What makes it correct |
|---|---|---|---|
| Task state machine (`packages/domain/src/task.ts`, `task-repository.ts`, `task-service.ts`) | `tasks` rows: status, repo_id, seq | create, transition (compare-and-swap), bindRepository, listRunnable, completeLocalCommand | only edges of the status graph; one binding for ever |
| Repository lock (`packages/repo-lock`, `lock-repository.ts`) | `<repoId>.lock` files, `repo_locks` rows, lease objects with a timer | acquire, heartbeat, quiesce, release | one owner; a crash leaves the repository closed, never open |
| Scheduler (`apps/agent/src/task-scheduler.ts`) | in-flight set, stopping, stopped | start, tick, stop, failTask, finish | no double dispatch, drain ends, no starvation |
| Task runner (`packages/task-engine/src/task-runner.ts`, `task-runner-composition.ts`, `persistence-adapters.ts`) | the position of each `run(taskId)` | run, the adapters | work under the lease, completion backed by evidence |
| Publication (`packages/publishing`, `verified-publishing.ts`, `packages/git`) | `git_commits` rows, remote branch | publish | what was reviewed is published; release only after the remote confirmed the commit |
| Agent lifecycle (`main.ts`, `ordinary-execution-authorization.ts`) | heldLeases, closed | startAgent, close, gitContext | drain before SQLite closes, nothing released by shutdown |
| Approvals (`approval-repository.ts`, `command-runner.ts`) | `approvals` rows | request, approve, deny, expire, consume | an approval is spent once, in time, for its own operation |
| External coding capability (`external-coding-capability.ts`, `coding-step-repository.ts`) | `coding_steps` rows, live entries with timers | request, submit, timeout, close | one live step per task, no late answer applied |
| Verification (`verification-coordinator.ts`, `external-verification-review.ts`, `packages/verification`) | plans, checks, evidence, reviews, snapshot | execute, review, seal | the sealed plan belongs to the HEAD that is published |
| GitHub (`packages/github`, `github-services.ts`) | `pull_requests`, `ci_runs` rows | ensureForTask, observeRequiredChecks | rows that are true, only SUCCESS completes, the observation ends |
| Worktrees (`packages/workspace`, `command-adapters.ts`) | `workspaces` rows, directories | create with rollback | no worktree without a row is forgotten |
| Local commands (`local-command.ts`, `local-developer*.ts`) | LOCAL_COMMAND tasks, their lease, worktree and process | run | runs on a clean HEAD, under the lock, and ends |
| Policy and execution (`packages/policy`, `packages/shell`, `trusted-git-spawner.ts`) | none; child processes | classify, preflight, admit, supervise | four tables of commands agree; no process outlives its lock |
| Owner workspace (`owner-workspace-*.ts`, `local-operation-repository.ts`, `local-recovery-store.ts`, `local-owner-consent.ts`) | journal, recovery records, cursors, grants, admission queue | read, search, mutate, restore, export, reveal | a mutation is journaled before its effect; DENIED left no trace; cursors and grants are single use |
| Native workers (`apps/filesystem-worker`, `apps/windows-workspace-helper`, transports) | the owner's files, reserved names, vault | write, move, copy, trash, restore, mkdir | exact or unresolved, nothing lost |
| Migrations, verification planner, MCP server, secrets, registry, observability | none or configuration | pure functions and I/O | not modelled, section 8 |

How they interact. `TaskService.create` inserts a QUEUED task; a scheduler tick
moves it to WAITING_REPO_LOCK and calls `TaskRunner.run`; `run` binds the
repository, acquires the lock (which moves the task to PREPARING in the same
transaction), fetches, makes a worktree, waits for the controller (coding steps),
executes verification (commands, controller reviews), publishes, and only then
releases the lease; it goes on to the pull request and CI without it. A heartbeat
that fails moves the task to NEEDS_RECOVERY behind the back of the run; the
adapters re-read status, lease row and lock file before every Git operation.
Local commands and the owner's mutations take part in the same locking: the first
acquire the repository lock themselves, the second pass through one admission
queue with the leases. `close()` stops the scheduler, rejects controller waits,
drains runs and local calls, stops the heartbeats and closes SQLite.

Hard behaviours, each at its line in the hazard list of `PROJECT.json`: lock file
and row made in two steps; a lease lost under a running task; releases that fail
half way; crashes between any two steps; status writes that are silently skipped;
requests whose reply is lost; check runs that change between the pages of one poll;
a working copy read file by file while its owner edits; native processes that
outlive the call that started them; consent that was given for something that has
changed since; bounds that are checked before an await and used after it; four
tables of commands kept in sync by hand; drain on shutdown.

## 2. Modules

| Module | Models |
|---|---|
| `TaskStatus` | the status graph and the statuses a lost heartbeat may move to recovery |
| `LeaseMutex` | the abstract promise of the lock: tokens own repositories one at a time, only a live lease object frees one, nobody takes over |
| `RepoLease` | `RepoLockService`, `LeaseHeartbeat`, `LockRepository` and the tracked leases, for any number of processes |
| `TaskRun` | scheduler, runner, publication, startup, shutdown and crash of one agent; EXTENDS `RepoLease` |
| `ApprovalLedger` | the abstract promise of approvals: one grant per operation, given by the owner, spent once |
| `Approvals` | `ApprovalRepository`, the consumption port and tools of `main.ts`, the gate of `CommandRunner.run` |
| `CodingStep` | `ExternalCodingCapability` and `CodingStepRepository` |
| `Verification` | `VerificationCoordinator`, `VerificationRunner`, `ExternalVerificationReview`, snapshot, source and repositories, for one task |
| `VerifiedPublishing` | `BoundPublishingVerification`, `CommitService` and the push of a sealed plan; EXTENDS `Verification` and `CommandPolicy` |
| `CommandPolicy` | the risk classifier, the worktree preflight, the admission of the trusted Git spawner and the commands of the agent's adapters, as operators |
| `DeliveryPromise` | the abstract promise of the end of a run: recorded once, judged once, COMPLETED only after SUCCESS |
| `Delivery` | pull request and required checks, request by request, and GitHub in between |
| `LocalJournal` | the journal of the owner's workspace |
| `NativeWorker` | the POSIX worker system call by system call, the Windows helper, other programs; EXTENDS `LocalJournal` |
| `OwnerWorkspace` | the core, the runtime, owner consent and the admission queue; EXTENDS `NativeWorker` |
| `SearchCursors` | the paged search of the core |
| `LocalCommand` | a local command from the call to the release: lease, worktree, Git children, isolated process; EXTENDS `TaskStatus` and `CommandPolicy` |
| `RepoLeaseProofs`, `TaskRunProofs`, `ApprovalsProofs`, `CodingStepProofs`, `VerificationProofs`, `DeliveryProofs`, `LocalCommandProofs`, `OwnerWorkspaceProofs` | the theorems about the module they are named after; `VerificationProofs` also those about `VerifiedPublishing`, `OwnerWorkspaceProofs` those about `SearchCursors` |
| `MCRepoLease`, `MCTaskRun`, `MCApprovals`, `MCCodingStep`, `MCPublishing`, `MCOwnerWorkspace`, `MCSearch`, `MCDelivery`, `MCLocalCommand` | instances for TLC |

### RepoLease

`lockFile[r]` is the token in `<repoId>.lock` (`Absent`, or `Torn` when the file
was created and its metadata could not be written), `lockRow[r]` the `repo_locks`
row with `live` saying whether `lease_until` is in the future, `held[p][t]` the
lease object of `heldLeases`, `section[p]` the acquire or release call a process
is in. The two calls contain no `await`, so inside one process nothing else runs
while `section[p]` is not idle, but another process or a crash can come between
its steps. Tokens are numbers issued in order; a UUID is fresh, which is all the
code uses.

| Action | Code |
|---|---|
| `OpenLockFile`, `WriteLockFileFails` | `openSync(.., 'wx')` and the metadata write |
| `PrepareTask` | the transaction of `acquireAndPrepare`: row, status PREPARING, then the heartbeat and `heldLeases` |
| `PrepareFails`, `UndoLockFile`, `UndoThrows` | the rollback and the `rmSync` in the catch |
| `Beat`, `BeatFails` | one interval callback, including `moveTaskTowardRecovery` |
| `LeaseExpires` | time passes `lease_until` |
| `StartRelease`, `DeleteRow`, `RemoveLockFile`, `ReleaseThrows` | the tracked release |
| `Quiesce`, `Crash`, `Restart` | shutdown and process lifetime; startup looks at no lock |
| `BindRepository`, `TransitionTask` | the callers' writes to `tasks` |

### TaskRun

`pc[t]` names the `await` at which `run(t)` is; an action is the completion of one
await and the synchronous code up to the next. `evidence[t]` keeps what is durable
about a task: sealed plan, commit row (recorded, confirmed), remote branch, pull
request. `phase` is the process's lifecycle. `Dispatch` is a tick over
`listRunnable` with its per-status limit; `GitContext` and `OwnsLease` are the
guards every Git operation re-reads; `Progress` is the adapter that silently skips
a write from an unexpected status; `MayReject` is any step failing for reasons of
its own. A fault is a heartbeat that fails, a suspended machine, a failing write or
unlink, or a crash, and `MaxFaults` bounds them. Only CODING tasks are in it;
`Delivery` opens up its `EnsurePr` and `ObserveCi`, `Verification` its `Verify`,
`VerifiedPublishing` its `Commit` and `Push`, `CodingStep` its `Modify`.

### Approvals

`row[i]` is a row of `approvals`: operation hash (it covers the task, so it names
one), status, and whether `expires_at` is still in the future. `call[c]` is one
`CommandRunner.run`: idle, consuming, or running, with the ids it has consumed. A
command is attempted again and again; `Gates[c]` are its NEEDS_APPROVAL operations
in order, `Denied` the commands with an operation that policy denies, `OutOfHome`
those whose worktree target the preflight refuses. One action is one repository
transaction; each `await` of the gate loop is a place where others come in. Begin
evaluates all operations; `ConsumeHits`, `Request`, `AlreadyAsked` and
`RequestFails` are the outcomes of one gate; `Spawn`, `PreflightDenies` and
`Finish` what follows; `Approve` and `Deny` the MCP tools; `Lapse` and `Crash` the
thirty minutes and the end of the process. An id whose row is resolved and belongs
to no attempt in progress may be used again; the code compares such a row only with
`PENDING` and `APPROVED`.

### CodingStep

`step[t][n]` is the `coding_steps` row of the n-th question of task t
(instructions, analysis, modification), `entry[t]` the question its live entry in
the pending map is for, `fresh[t]` whether that entry's `expires_at` is in the
future, `runner[t]` the run, `writes[t]` the files of the modification written so
far. `owned[t]` stands for everything `binding` re-reads.

A submission is one turn of the event loop: validate, claim, write the files,
finish; all of it is synchronous. `busy` is the task whose answer is being applied
and `turn` the call that comes next: an assertion (`Check`, which is `beforeWrite`
and the last `assertPending`), a file (`Write`), the transition to SUCCEEDED
(`Accept`) or the catch block (`MutationFails`). No other callback of the process
runs in a turn, but `Expire`, `LoseLease`, `SecondAgent` and `Crash` may come between
any two of these calls, so a claim that was asserted may have lapsed when its file is
written or its row finished. `late[t]` counts the files written so. `Check` finds the
lapse before the next file and `finish` only when the row itself was taken;
`MutationThrows` is either, or a call that throws (a file that cannot be written, a
database that is busy). `Request` and `RequestRefused` are the insert of the row;
`ControllerFails`, `Timeout`, `Close` the other ways an entry goes; `Stop` and
`StopThrows` are `stop`, with a terminal transition that SQLite accepts or refuses
(at most `MaxStoreFaults` times); `Restart` and `SecondAgent` the constructor's
`interruptPending`, of the next process or of another on the same directory.

### Verification and VerifiedPublishing

`work` is the worktree (what each file holds, a deleted file being one of the
contents), `log` the commits with parent and tree, `head` HEAD. `Snapshot` is what
`capture` returns: HEAD and the files that differ from it; `expected` is the
snapshot the plan was made from. `status` is `verification_checks`, `review`
`verification_reviews`, `entry`, `fresh` and `seen` the live entry of the pending
map, `reading` and `offers` the reads and submissions of the controller that are in
an await, `pc` and `check` where the execution is. `leased` stands for everything
`assertActive` re-reads; `span` remembers the worktree at both ends of each command
and is only looked at by a property.

A capture is one action, at its second status: it observes everything twice and
rejects what moved between (a change that is undone between the two observations of
one capture is outside the model, as the design document disclaims it). Writes of
commands, edits and commits of other programs come between any two awaits. `name` is
what the files are called, fixed for a behavior: `Readable` is `copySnapshot`, which shows
nothing of a snapshot that has a file with an extraordinary name. `message` is the commit
message, `task <id>: <goal>`, known by its length only.

| Action | Code |
|---|---|
| `Plan`, `StartChecks` | `execute` up to the plan; the first capture of the runner |
| `BeginCommand`, `SpawnCommand`, `CommandWrites`, `CommandEnds`, `RecordCommand` | the bound command run and the record of its result |
| `RequestReview`, `FinishReview` | the gate before and after the review |
| `Seal`, `Finish`, `Reject` | the runner's end with `sealSnapshot`, the coordinator's end, an await that rejects |
| `BeginRead`, `ReadSource`, `EndRead`, `ReadFails` | `read`, at its three awaits |
| `Submit`, `Accept`, `SubmitFails` | `submit` before and after its await |
| `ControllerFails`, `Timeout`, `Close`, `StopReview` | `fail`, the timer, `close`, `stop` |
| `Crash`, `Restart` | the process dies; the constructor's `interruptPending` |
| `Edit`, `MoveHead` | other programs; `MoveHead` commits on HEAD or amends it |
| `Bind`, `Clear`, `CommitExplicit`, `NameCommit`, `Inspect`, `Push`, `PublishRejects` | `publish`: the bound HEAD, `assertPassed`, `git commit --only`, `rev-parse`, `assertCommitted`, `git push sha:branch` |

Abstracted: a task is verified once, so its plan stays the current one and a command
run is evidence for one check only; the digests of acknowledgements are the contents
they were computed from; modes, text safety and Git's output formats; of a path only
whether the reviewer's reads and the spawner take it.

### CommandPolicy

An argument is a token, the fixed flags of a Git read are one token, and
`refs/heads/b` and `b` are one. `ClassifyRisk` with `ClassifyGit`, `ClassifyPush`,
`WorktreeLifecycle`, `ClassifyRemoval` and `ClassifyPackageManager` is
`risk-classifier.ts` case by case; `WorktreeTargetFor` and `Preflight` are the
check `CommandRunner.run` makes before it spawns; `Admitted` is `validateArgs` of
the trusted spawner; `AddCommands` to `ConfirmCommands` are the argument lists the
adapters build. `CarriedOut` says the four agree: allowed without an owner, the
directory the preflight reads is the one Git takes, and the spawner admits it. What
the spawner admits depends on the path (`SafePaths`) and on the length of the message
(`ShortMessages`); what a reviewer is shown on the path (`Ordinary`, in `Verification`).
`VerifiedPublishing` and `LocalCommand` ask this at each await for the commands issued
there. `Parsed` is what `parseGitPushRefspec` makes of the tokens that are refspecs.

### Delivery

`at[t]` is the request `run(t)` awaits: `find`, `describe`, `create` of
`ensureForTask`; `context`, `rules`, `runs`, `wait` of `observeRequiredChecks`;
`complete`. `prs` and `run` are GitHub's pull requests and check runs, `rows`
`pull_requests`, `stored` `ci_runs`. `Find` records the open pull request of the
branch or goes on to create one; `Create` and `CreateUnanswered` are the POST whose
reply arrives or is lost; `Persist` is the upsert on repository and number;
`ReadRules` rejects when a ruleset or a commit status applies that the client does
not support, or nothing is required; `ReadRuns` reads one page of check runs and
asks for another after a full one; `Snapshots`, `Verdict` and `Judge` decide after
the last page; `BeginPoll` counts the attempts. `Reject` is any request that fails,
times out or is malformed, `Crash` the end of the process, after which nothing takes
up a PUBLISHING task. People open and close pull requests (`HumanOpens`,
`HumanCloses`), runs advance and are run again (`RunAdvances`) and requirements
appear (`NewRequirement`) between any two requests. `changed[t]` remembers what
changed during the current poll and is only looked at by a property.

Abstracted: the CI_OBSERVATION_STARTED audit rows and the observer of the smoke
test, which change no decision; the text of a pull request; ruleset, status and
protection reads are one step; a check run has a fixed place in the list and does not
disappear from it, so pages shift only by additions. `Page` counts the list as it is
when the page is asked for. In the composition the completion port of
`ChecksService` does nothing and `TaskRunner` completes the task: `Complete`.

### LocalJournal, NativeWorker, OwnerWorkspace

`row[o]` is the row of operation o in `local_workspace_operations`; `AdmitRow` with
its partial unique index, `FinishRow` and `AttachRow` are all that changes one.
`disk` holds an object (identity and bytes) at each path and each vault slot,
`temp[o]` the reserved name of a worker, `worker[o]` its process with the command it
was given. `effect[o]` is history: what the operation took from the owner's files
and put there.

`PosixCheck` to `PosixVerify` are the system calls of one mutation of `worker.mjs`,
`PosixError` any of them failing, `PosixTimer` the kill by the transport;
`WindowsCommit` and `WindowsRollback` are the file transaction of the helper, which
goes on when its relay was killed (`LoseReply`). `OutsideWrites` is another program.

`stage[o]` is where the handler of o is: `Submit` (journal), `Observe` (first look,
screening, policy), `OwnerVerifies` / `OwnerRefuses` / `GrantExpires` (the challenge
and its grant), `Recheck` (second look), `Spend` (the grant is consumed, the recovery
record captured and attached, the dispatch queued), `Reveal`, `AdmitNative` (head of
the queue), `Settle` and `JournalFails` (the reply ends the row). `LeaseAsk`,
`LeaseGrant`, `LeaseRelease` are the repository leases in the same queue; `Close`,
`Closed`, `Crash`, `Restart` the runtime.

Listing, tree, status and diff are one read; masking, path syntax and what the
screen calls sensitive are abstracted to a set of contents.

### SearchCursors

The pages of a search form a chain named after the call that started it.
`call[k].state` is the walk (stack of directories with offsets, queued matches, the
file that was read in part with its version), `cursors[k]` the state left under the
cursor that call k returned, `call[k].seen` the listings that the page has read. `Start`
and `Resume` prune expired cursors first; `Resume` takes the cursor out in the same step;
`Emit`, `Rescan`, `List`, `Walk`, `Denied` are the turns of the page's loop; `EndPage`
keeps what is left or refuses the page. Between any two of them `Edit` changes a file,
`Change` creates or removes an entry of a directory and `ExpireChain` ends the minute of a
chain.

A path is the sequence of names that leads to it. A page lists a directory once (`List`;
its cache may drop the listing, and then it is read again), the next page reads it anew
and goes on at the offset that was kept. An entry that came or went before that offset
shifts it, and the code has nothing that would notice: entries are skipped or searched
twice, and the page does not say that it is incomplete. So `CompleteSearchIsExact` speaks
of the files in reach whose directories, from the root of the search down, had one listing
since the chain started (`Steady`), and `changed` records which did not. For those it says
that a search may rely on what did not move: whatever came and went elsewhere, they are
searched once, from one version each.

### LocalCommand

`pc[c]` is the await a call is at. `owner`, `held`, `fresh`, `beating` are lock file
with row, the lease object, `lease_until` and the heartbeat; the repository lock is
the mutex `LeaseMutex` states. `base` is the registered directory: HEAD and the files
that are edited. `seen`, `tree`, `row`, `run` are the HEAD the call resolved, what is
checked out, the `workspaces` row and the `command_runs` row; `child` is its process.

| Action | Code |
|---|---|
| `Call`, `Admit` | admission and the first clean check, before the task exists |
| `Acquire`, `Beat`, `BeatFails`, `Lapse` | the lease |
| `LookStatus`, `LookHead`, `LookAgain` | `cleanHead` and the comparison after the checkout |
| `SpawnAdd`, `GitAdds`, `AddSettles`, `OrphanEnds` | `git worktree add` in its supervised child, which a crash of the agent does not end |
| `Record`, `Remove`, `Prune` | `rev-parse`, the row, and the rollback when it is refused |
| `StartCommand`, `CommandExits`, `Kill`, `KilledCloses`, `Judge` | the isolated process: spawn, exit, deadline or lost authorization, close, verdict |
| `Change` | the owner edits, takes edits back, commits |
| `Close`, `Closed`, `Crash`, `Restart` | the runtime and the process |

A call that fails ends in its catch block (`Rejects`, and `Breaks` for a step that could
have succeeded): FAILED where the task may go there, then the release. The block may throw
too, and then the task keeps its status; so may the one of the command runner, and then
the run row stays RUNNING. A fault counts once, from the step it breaks to the block it
still breaks.

A status is computed on a copy that is made file by file while the owner goes on:
`calm[c]` collects the files that were unedited at some moment of the copying, and the
status is clean when that is every file. `pure[c]` is history: the files that were
unedited under the HEAD of their moment since the call prepares.

Assumed: HEAD of the registered directory only advances, and a commit commits whole
files; HEAD and the tracked files are each read in one step; isolated commands die
with the agent (`--die-with-parent`), trusted Git does not; the lock is not taken over
after a crash; `rev-parse` with the record, and the acquire with the entry of the
guard, run without anything between that another action could disturb; a process the
kernel cannot kill is not modelled.

## 3. Properties

RepoLease: `RowBackedByFile`, `ExclusiveLease`, `OnlyCreatorUnlinks`, the refinement
`MutexSpec`; proved besides, `HolderOwnsRow` and `OnlyHolderFrees`.

TaskRun: `WorkUnderLease` (a run between acquire and release works under the lock row
of its own task, also across crashes), `CompletedEvidence`,
`FreedOnlyAfterConfirmation`, `RecoveryIsSticky`; liveness `ShutdownCompletes` and, in
the run that refutes it, `IndependentRepos`.

Approvals: `Backed` (what an attempt has consumed is, gate by gate, a row of that
operation, and a running command has all of its own), `SpentOnce`, the refinement
`LedgerSpec`; `ApprovedCommandRuns` in the run that refutes it; proved besides,
`OneLive` and `ConsumedInTime`.

CodingStep: `NoOrphan` (rows, pending map and waiting runs agree as long as SQLite
refused no terminal transition), `AnswersInOrder` (a run gets past a question only by
an answer applied in full), `LateWriteIsLast` (a file written after the claim lapsed is
the last one and never part of a success); liveness `RequestSettles`.

Verification: `SealedProof` (a sealed plan has passed every check, and both reviews
were accepted for this snapshot by somebody who was given every file of it),
`CommandsSawSnapshot` (no command ran on what an earlier one had changed, even if it
was put back later), `DecidedOnce`; liveness `ExecutionSettles`. VerifiedPublishing:
`PublishedIsReviewed` (the pushed commit changes exactly the approved files, to what
both reviewers were given, on the verified HEAD) and, with `CommandPolicy`,
`PublishingIsCarriedOut` (the tables stop a publication at its commit only, and there only
when the message is too long: a file whose name the spawner would refuse never gets
through the reviews).

Delivery: the refinement `DeliversAsPromised`; `SuccessIsEarned` (of all that did not
change on GitHub during the poll, every matching run is acceptable and no rule is
without one, although the runs came in pages); `ObservedUnderItsOwn`; liveness
`ObservationEnds`.

OwnerWorkspace: `DeniedLeftNoTrace`, `AppliedIsExact` (the object that was observed is
the one that was taken, the bytes proposed are the ones put; section 8 has the one
exception), `NothingLost`,
`OwnerConsented` (the owner was shown exactly this operation with exactly these
images), `LeaseExcludesWriters`, the action property `EffectsAreFenced` (the disk
changes only under the operation's own unfinished row, alone on its volume); liveness
`CloseCompletes`. SearchCursors: `CursorsAreSpentOnce`, `CompleteSearchIsExact`.

LocalCommand: `CompletedOnCleanHead`, `ProcessesUnderLock`, `WorktreesAreKnown` and, with
`CommandPolicy`, `CallIsCarriedOut`; liveness `CallsEnd`.

Every property of a passing run has a mutant in `PROJECT.json`: a definition of the
model changed the way a plausible bug would change the code, under which TLC finds
the property violated. The mutated forms are the operators marked "Mutant".

## 4. Runs and bounds

| Run | Instance | Shows |
|---|---|---|
| `repo_lease` | 2 processes, 2 tasks, 2 repositories, 2 tokens | the safety of the lock and the refinement. Two tokens let a second acquire meet any leftover of the first, of the same or another process, on the same or another repository; the theorems cover the rest |
| `task_run` | 2 tasks of one repository, 4 tokens, 2 faults, limit 2 | whole runs that compete: one is refused, waits, is dispatched again; close() ends. Two faults allow a crash after a lost heartbeat or a failed release. Four tokens are never used up: a task acquires once per attempt that leaves WAITING_REPO_LOCK |
| `task_run_starve` | 2 tasks of two repositories, 1 fault, limit 1 | the violation of `IndependentRepos` described in section 7 |
| `approvals` | 4 commands over 2 operations (two gates, one shared, one refused after it paid, one denied), 5 rows, 2 setbacks, symmetric | the safety of approvals and the refinement. A request is made by a command that missed, so at most three rows are held and one other is live: a fifth is always free |
| `approvals_twice` | 1 command with the same operation twice, no setbacks | the violation described in section 7 |
| `coding_step` | 2 tasks, 2 files, 2 faults, 1 refused transition | every property of the rendezvous. Two files let the claim be lost between them; two faults allow a second agent or a failing file before a crash |
| `verified_publishing` | 2 files of 2 contents and 3 names, 2 messages, 2 commands, 2 writes, 1 edit, commit or amend, 2 submissions | verification and publication together, and the commands they issue. One of the names is taken by nothing, one of the messages is too long. Two commands let one disturb the other, two writes let a change be undone, two submissions let one be late. One step of another program lies between any two Git processes; a change and its restoration around one read need two, and are covered by the theorems, not by the run |
| `owner_workspace` | 2 operations of 7 requests each, 1 lease, 2 POSIX paths and a Windows one, 1 grant, 1 outside write, 1 fault | two mutations, or a mutation and a read, that race with each other, a lease, another program and one failure of each kind. Two operations suffice for a volume to be blocked by one and asked for by the other |
| `owner_create` | the same without faults and outside writes | the violation of `CreateConflictIsDenied` described in section 7 |
| `search` | 2 directories, 2 files of 2 versions, 3 calls of which 2 are under way at once (`MaxAtOnce`), 1 cursor, 3 matches per page, 2 queued, 2 entries of work, 1 edit, 1 directory whose listing changes (`MaxChanges`), 1 denial, symmetric | a match list longer than a page, a file read in parts, a depth of two; three calls let two present the cursor of a third. The entry that comes or goes is one before the files, one of them or the directory, so a kept offset shifts either way; the file below is exact although its own directory is listed again. The theorems have neither bound |
| `delivery` | 2 tasks of two repositories, 3 slots for runs of one check (two suites, two apps), pages of 2, 2 polls, 1 rerun, 1 change on GitHub, 1 crash | pull requests with the same numbers, a list with more than one page, a foreign app of the same name, a pending check that costs every poll |
| `local_command` | 2 calls for one repository, 2 files, 3 commits, 2 changes by the owner, 1 fault | a second call that waits and meets what the first left; a copy that is torn by an edit and its undo or by a commit; one fault of each kind |

A setback is a denial, an expiry, a crash or a failing write. Deadlock is checked in
`repo_lease`, `task_run`, `task_run_starve`, the approvals runs and
`verified_publishing`; the other systems may stop, when every call has ended and the
bounds are used up.

## 5. Fairness

Nothing is assumed anywhere of callers, controllers, owners, other programs, GitHub,
faults, crashes or restarts.

`FairSpec` of `TaskRun` assumes weak fairness of each step of a run, of quiescing,
start, tick and exit: every await of a run has a deadline (30 s for trusted Git,
`trusted-git-spawner.ts`; 60 s for isolated commands,
`linux-isolated-process-spawner.ts`; 30 s for GitHub requests, `github-services.ts`;
expiry timers for coding steps and reviews), the tick is an interval, and `close()`
runs to its end once its awaits settle.

`ApprovalFairSpec` assumes a caller that attempts the command again and an owner who
approves what is pending; neither is in the code, so `ApprovedCommandRuns` is a
statement about the protocol they take part in, and is refuted even so.

`CodingFairSpec` assumes that a turn, once begun, ends (it is synchronous code), that
the run goes on to its next question, that time passes and that a timer whose time
has come fires. `PubFairSpec` assumes that the awaits of an execution settle, one way
or the other (commands have a deadline, captures are Git processes with one), that
time passes and that a review's timer fires.

`FairSpec` of `OwnerWorkspace` assumes that the handler of an operation, its native
process, the queue and `close()` go on; `Native` is part of the handler because the
transports' timers end a worker that does not. `DeliverySpec` assumes `RunStep(t)`:
each request has its 30 s, and the delay between polls is a timer. `LocalSpec` assumes
`Handler(c)`, in which `Kill` is the deadline; `CommandExits` is not in it, so a
command need not end by itself.

## 6. Proofs

All theorems hold for any sets of processes, tasks, calls and repositories and any
bounds, from the ASSUMEs of the modules alone: null values are not members of their
sets, bounds are natural numbers, each task or call has a repository, requests have the
shape that their validation requires (`RequestsAreWellFormed`), GitHub lists each check
run at one place (`SlotsAreListed`), what leads to a file or directory are directories, a
directory has finitely many names and matching lines are lines of the file
(`FilesAreEntries`), and the names of task branches, commits, paths and
refspecs are what `createTaskBranchName`, Git and `parseGitPushRefspec` make them
(`NamesAreNotOptions`), and what `assertReviewSourcePath` takes `safePath` takes
(`OrdinaryIsSafe`, by comparison of the two patterns). TLC evaluates all of them. The state properties rest on one
inductive invariant per component, which TLC checked on an instance before it was
proved.

`RepoLeaseProofs`: `TypeCorrect`, `LeaseInvariant`, `RowsBacked`, `HoldersOwnRows`,
`LeasesExclusive`, the action properties `OnlyHoldersFree` and `OnlyCreatorsUnlink`,
and `ImplementsMutex` (`Spec => MutexSpec`). `HolderOwnsRow` is not inductive: a
release or an undo in progress could remove somebody else's row or file. `IInv` adds
`TokensIssued` (every token in use was issued, so a new one is fresh), `SectionOwns` (a
call in progress finds its own token in the file at every step, and no row, except a
release before its DELETE, which finds its own), `OneHolder` (a token is held by one
section or one lease object) and `FilesDistinct`. Two calls on one repository then
carry the same token and are the same call. The refinement maps `PrepareTask` to
`Grant`, `DeleteRow` to `Release` and everything else to `Abandon` (a stutter or a
lease object that disappears).

`TaskRunProofs`: `RunInvariant`, `AgentLeasesExclusive` (the invariants of the lock hold
in the composition), `TasksWorkUnderLease`, `CompletionEarned`,
`RowsFreedAfterConfirmation`, `RecoverySticks`. `WorkUnderLease` alone says nothing of
the steps that lead to it. `RunInv` adds to `IInv`: `AtStage` (the status a run has
given its task by each await, unless the loss of the lease changed it), `Behind` (the
durable results a run has behind it at each await, and that no row names its task once
it has released), `StageSection` (the lock call in progress is the one the run of its
task awaits) and `RowsBound` (a row names a task that is bound to its repository). The
steps of `RepoLease` are taken from the lemmas of `RepoLeaseProofs`.

`ApprovalsProofs`: `LiveRowsDistinct`, `RunsAreBacked`, `SingleUse`, `ConsumptionInTime`
and `ImplementsLedger` (`ApprovalSpec => LedgerSpec`) from `ApprovalInvariant`. `AInv` is
the conjunction of the types, `OneLive`, `Backed` and `SpentOnce`, which need each other:
a consumed row is new to every attempt because rows already consumed have status
CONSUMED (`Backed`) and this one was APPROVED. The refinement needs `OneLive`: consuming
the one approved row of an operation leaves no other live row of it.

`CodingStepProofs`: `CompleteAnswers`, `LateWrites`, `TerminalRowsStay` and `NoOrphans`.
`AnswersInOrder` is not inductive alone: `Located` adds that an entry is for the question
the run is at, that a run which is ready has not asked it yet, and that a turn belongs to
an entry, so the row an action changes is always the one at `next[t]`. `LateWriteIsLast`
needs `Lapsed`: after a late file the turn cannot pass another assertion, because neither
the row nor the lease nor the time comes back (`LapsedStays`), and once it has ended its run
never asks again. `NoOrphan` is
stated under `storeFaults = 0`; section 8 says what happens without.

`VerificationProofs`: `SealedEvidence`, `PendingAwaited`, `ReviewDecidedOnce`, and for
publication `ReviewedPublication`. `Located` adds which check the execution is at and that
the checks from there on are pending, so nothing is recorded twice or after the seal.
`Shown` adds that whatever was read, offered or accepted is the content of the snapshot,
which is where the comparison with the snapshot's blob is needed: HEAD and files may have
changed and come back between the awaits of a read. `RInv` adds that a check which has
not been reached has no review. `PInv` carries `Exact` from the inspection to the push:
commits are never changed, only added, and a sealed plan keeps its evidence;
`InspectExact` shows that parent and delta determine the whole tree.
`SealedCommandsSawSnapshot` needs `SawInv`: while nobody but the commands writes, a queued
command has the snapshot in front of it, a running one began on it, and one that ended
left what the next capture reads; the captures in `RecordCommand` and `BeginCommand`
carry that to every command before `check`.

`PublishingCommandsPass` and `CallCommandsPass` (in `LocalCommandProofs`) say where the
tables of `CommandPolicy` agree for all branches, commits, files, paths and messages, not
for the few of the runs. One lemma per kind of command (`ReadsPass` to `PushesPass`,
`AddsPass` to `ProgramsPass`) computes what the classifier, the preflight and the spawner
do with it. A push depends on the refspec being the one positional argument after the
remote; an addition on the first free argument being the one `WorktreeTargetFor` takes.
The commit is where the first theorem needs the history of the task: `ReviewsPass` and
`CommitsPass` hold of ordinary names only, and that the approved files have them is in
`Shown`: what was read, offered or accepted was readable, a sealed plan has an accepted
review of a snapshot that is not empty, and the names do not change. `LongMessageStops` is
the other direction: a long message is refused whatever the files are.

`DeliveryProofs`: `DeliveryInvariant`, `ImplementsPromise`
(`DeliverySpec => DeliversAsPromised`), `ObservedOnOwnPull`, `PagesSkipNothing`,
`VerdictsAreEarned`. `DeliveryInv` says that every
row names a pull request of its task's branch and repository and no task has two
(`RowsTrue`, which is where the conflict on repository and number, not number alone, is
needed), and what a run has recorded and heard at each of its requests (`RunAt`). A
record maps to `Record`, the verdict of the last poll to `Judge`, everything else to a
step of the status or a stutter. `PollInv` is the argument for the pages: what a poll has
seen is there and is as it was seen unless it changed since, and it has seen every run
that stands before the pages still to come, counted in the list as it is now. The list
only grows and places do not change, so a run can move to a later page, never to one that
was read; a page that is not full ends the list (`FullPage`, by counting: a page holds
all runs from its first position on, up to the page size). `VerdictsAreEarned` then
follows at the last page. The counting rests on `FirstOnes` and `CountsGrow`, proved from
the library's facts about cardinality.

`LocalCommandProofs`: `CallInvariant`, `LockedProcesses`, `CleanHeadExecuted`,
`WorktreesRecorded`. `LockedAt` says that a call has the lock from its acquire to its end,
that a process belongs to the await that waits for it, and that the Git child a crash left
behind keeps the lock it began under. `PreparedAt` is the argument for the torn copies:
HEAD only advances, so if it still is the commit that was resolved when the worktree is
compared, it has been that commit ever since, and each file that was copied unedited was
so under it. `KnownAt` follows worktree and row through the awaits to the end of a call.

`OwnerWorkspaceProofs`: `OwnerSafety`, `OwnerTypes`, `LeaseHolderIsAlone`,
`DenialIsHarmless`, `AppliedMeansExact`, `NothingIsLost`, `ConsentIsAsked`,
`JournalFencesDisk`, and for the search `CursorsServeOnce` and `CompleteSearches`. None of
the first six properties is inductive; together with what follows they are (`OwnerInv`), and it is the same invariant
for all of them. Per operation: `RowAt` (the row holds the request, and ends only with its
handler), `ProcessAt` (a process belongs to a row that still holds its volume, and a POSIX
process to a handler that waits for it; a denied row has no process that did anything),
`LookAt` (what was decided on is still acceptable), `ConsentAt` (a grant, a binding and a
dispatched command are for the same request and images; what a write will replace is in
the recovery store before it is dispatched), `WorkAt` (what the process has done at each
system call). Over operations: `OnePerVolume`, `HasTurn` (who runs is at the head of the
queue), `LeaseExcludesWriters` and `Noticed` (a POSIX rename moved what was expected,
unless another program wrote). Three arguments carry the proof:

- Decisions are stable. The handler decides on a recovery record of another operation and
  acts later; records are never rewritten (`Kept`), so what it decided stays decided
  (`Decided`) although everything else of that operation may move on.
- Processes have disjoint territories. A live process belongs to the one unfinished
  mutation of its volume and writes only to paths of that volume and to vault slots of
  operations there (`Home`, `Territory`), so two processes never disturb each other's
  `WorkAt`, whether their handlers live or not.
- Admission is a queue. A lease is granted and a native call started at its head only, so
  each sees the other's effect (`LeaseSteps`, `StartStep`).

`JournalFencesDisk` uses the invariant for the step: only a process that can still act
changes its effect (`OnlyTheLiveAct`), its row holds the volume (`ProcessAt`), and nobody
else's does (`OnePerVolume`). For the search, `SearchInv` says that a chain started by a
call is in one call or under one cursor, and that cursors are those of calls that are
done; the limit holds because the page's end counts again.

`CompleteSearches` adds to `SearchInv` what each walk is worth (`WalkOK`), whether a call
has it or a cursor, given which directories changed since the chain started (`changed`).
For a walk that has skipped nothing and a file in reach none of whose directories changed
(`InReach`), the file is `Ahead` of the stack, or not there, and nothing of it is reported
or queued; or it is being read and exactly the matches before the next line of its version
are; or those of one whole version are (`Accounted`). The offsets of the stack are read as
the sets of names they leave (`Waiting`): `AheadAt` compares a path with them, directory by
directory, so that no induction over the tree is needed, and `StackOK` says that a
directory that did not change is past the name that leads on from it. An entry that is
passed (`PastAnEntry`) moves from ahead exactly the file it is or what lies under it, a
directory that is entered (`IntoADirectory`) puts just that ahead again, and one that is
left (`OutOfADirectory`) had nothing more. In a directory that did change the offset may
mean anything, and nothing is claimed of what it leads to. `SeenOK` says that a listing
which a page has cached is the present one unless it changed, and `ChangedElsewhere` that
a change weakens every one of these facts to the directories that are left.
`NextOfAListing` reads an offset as a set of names, `NthEnumerates` shows that the queue is
the matching lines in order, whatever their number, and `ListingsExtend` that queueing them
continues what was reported.

Two attempts found the model or a statement wrong and were settled against the source:
`AppliedIsExact` did not hold for a POSIX rename around which another program writes
twice (section 8), which the run with one outside write could not show, and `Acceptable`
had let a directory pass where `snapshot()` reads a file. A third found that the
assumption about refspecs in `CommandPolicy` said less than it meant.

Left to TLC: the liveness properties `ShutdownCompletes`, `RequestSettles`,
`ExecutionSettles`, `CloseCompletes`, `ObservationEnds` and `CallsEnd`: fairness and
ENABLED are out of the prover's reach.

## 7. Findings

`task_run_starve`: `TaskRepository.listRunnable` limits each status before locks
are considered. When the oldest `perStatusLimit` waiting tasks belong to a
repository whose lock stays held, which is what every failed or crashed run leaves
on purpose, each tick lists the same tasks, all are refused and stay waiting, and a
task of a free repository behind them is never listed. The scheduler's own comment
(`task-scheduler.ts:54-57`) intends independence between repositories.

`approvals_twice`: `CommandRunner.run` wants one approval per risky operation of a
command and the operation hash does not cover the position, so `x && x` needs two
approvals of one hash; `request` never makes a second live row of a hash. The first
gate takes the only approval, the second misses, the attempt ends and what it took
is spent. No sequence of approvals lets the command run, although
`approval-composition.test.ts:133` promises the retry after an approval.

`owner_create`: a write that may only create meets an existing file. The POSIX worker
has made its temporary file by then and reports every later error as unknown
(`worker.mjs:305-314`, `491`), so the row stays UNRESOLVED, the transport is
quarantined and the volume is blocked; `owner-workspace-core.test.ts:544-549` expects
of the same call, over a backend that answers at once, that it is denied. The Windows
helper does deny it.

## 8. Known limits of the code that the models include

Five behaviours are in the models, and in the statements of the properties, without a
run of their own:

- `CodingStep.SecondAgent`: the constructor of `ExternalCodingCapability` interrupts
  every live row, whatever its `run_id` (`external-coding-capability.ts:55-56`), and
  `startAgent` builds it before the MCP server binds its port. A second agent on the
  same state directory ends the step of a running one, which
  `docs/operations/external-coding-capability.md:15` calls stable until it is consumed,
  failed or expires. The properties hold all the same: the step ends, its run rejects.
- `CodingStep.StopThrows`: `stop()` removes the entry and its timer, then writes the
  terminal state, then rejects the run (`external-coding-capability.ts:219`). When the
  write throws, the run waits without an entry or a timer. `NoOrphan` and
  `RequestSettles` are stated for executions in which no such write was refused.
- `NativeWorker.PosixRename`: the worker compares the object before and after a rename,
  and `rename` itself compares nothing. A program that changes the file in between and
  puts the old contents back after the rename goes unnoticed: what was moved is not what
  was compared, and the row says APPLIED. `AppliedIsExact` allows it after a second
  outside write and in no other case. `write` is not exposed: it exchanges and looks at
  what it took.
- `VerifiedPublishing.CommitAdmitted`: the commit message is `task <id>: <goal>`
  (`task-runner-composition.ts:502`), `task_create` bounds no goal
  (`packages/mcp/src/tools/task-tools.ts:10`) and the trusted spawner refuses a message of
  more than 4096 characters (`trusted-git-spawner.ts:121`). A task with such a goal is
  coded, verified and reviewed, then its publication rejects at the commit, with the files
  already added to the index. Neither paths nor any later command stop it.

- `SearchCursors.Walk`: a cursor keeps an offset into a listing that the next page reads
  again (`owner-workspace-core.ts:391-409`). With an entry created or removed in between,
  a search skips or repeats files of that directory and still answers with
  `incomplete: false`. TLC finds it at once when `Steady` is left out of
  `CompleteSearchIsExact`. The code calls multi-page searches observations and not
  transactions (`owner-workspace-core.ts:135`), so no promise of its own is broken.

## 9. Not modelled

- Database migrations: one synchronous transaction per migration at startup, before
  anything else runs.
- The verification planner and the change classifier: pure functions from paths, by
  regular expressions, to the names of commands, which are a constant of `Verification`.
- The parser of shell text, the walk of symbolic links in `worktree-path.ts`, the grant
  of direct pushes to main, and pushes of HEAD: the agent's own commands use none of
  them. `DiffService`, `CodeSearch`, `BranchService`, `GitService`, `local-fs.ts` and
  `runRepairCycle` have no caller in the agent.
- The sandbox itself (namespaces, mounts, pins, runtime manifests), the framing of the
  native transports, Windows path mapping, Git configuration checks: they decide whether
  a step is refused, and every such step may be refused in the models.
- In `SearchCursors`, a name that changes its kind, from a file to a directory or back, and
  a path that leaves the tree by a link.
- The MCP server, secrets, logging, repository lookup and registration: parsing,
  configuration and I/O without state that races with the rest.

What could be added: a composition of `LocalCommand` with `RepoLease` in place of the
mutex, and the planner against a reference definition.
