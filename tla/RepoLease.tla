----------------------------- MODULE RepoLease -----------------------------
(***************************************************************************)
(* Repository locking: RepoLockService, LeaseHeartbeat, LockRepository and *)
(* the heldLeases map of the agent.                                        *)
(*                                                                         *)
(* A lock is two durable things made in this order: an O_EXCL lock file    *)
(* holding the lease token, and a repo_locks row inserted in the SQLite    *)
(* transaction that moves the task to PREPARING.  Release undoes them in   *)
(* the order row, file.  Several processes may share the state directory.  *)
(*                                                                         *)
(* acquire and release are async functions without an await: inside one    *)
(* process they run to the end before any other callback, so section[p]    *)
(* holds the call in progress and every other action of p waits for it.    *)
(* Another process, or a crash, can come between its steps.                *)
(***************************************************************************)
EXTENDS Integers, TaskStatus

CONSTANTS Procs,      \* agent processes sharing one state directory
          Tasks,
          Repos,
          NoTask, NoRepo,
          MaxTokens   \* bound on the number of acquire calls that open a file

ASSUME ConstAssumption ==
  /\ NoTask \notin Tasks
  /\ NoRepo \notin Repos
  /\ MaxTokens \in Nat

VARIABLES
  status,    \* tasks.status
  repoId,    \* tasks.repo_id, NoRepo while NULL
  lockFile,  \* token in <repoId>.lock, Absent or Torn
  lockRow,   \* the repo_locks row, NoRow when absent
  held,      \* heldLeases: the lease object each process keeps per task
  section,   \* the acquire or release call a process is executing
  running,   \* the process exists
  tokens     \* tokens issued so far (a fresh UUID is the next number)

leaseVars == <<status, repoId, lockFile, lockRow, held, section, running, tokens>>

Absent == 0
Torn   == -1         \* the file was created, its metadata never written
Tokens == Nat \ {0}

NoRow   == [token |-> 0, task |-> NoTask, live |-> FALSE]
NoLease == [token |-> 0, repo |-> NoRepo, timer |-> FALSE]
Idle    == [op |-> "idle", task |-> NoTask, repo |-> NoRepo, token |-> 0]

(* live: lease_until is still in the future.  timer: the heartbeat interval *)
(* of the lease object is armed.                                            *)
Rows     == [token : Tokens, task : Tasks, live : BOOLEAN] \cup {NoRow}
Leases   == [token : Tokens, repo : Repos, timer : BOOLEAN] \cup {NoLease}
Ops      == {"acquire", "undoConflict", "undoError", "releaseRow", "releaseFile"}
Sections == [op : Ops, task : Tasks, repo : Repos, token : Tokens] \cup {Idle}

TypeOK ==
  /\ status \in [Tasks -> Statuses]
  /\ repoId \in [Tasks -> Repos \cup {NoRepo}]
  /\ lockFile \in [Repos -> Tokens \cup {Absent, Torn}]
  /\ lockRow \in [Repos -> Rows]
  /\ held \in [Procs -> [Tasks -> Leases]]
  /\ section \in [Procs -> Sections]
  /\ running \in [Procs -> BOOLEAN]
  /\ tokens \in Nat

Init ==
  /\ status = [t \in Tasks |-> "QUEUED"]
  /\ repoId = [t \in Tasks |-> NoRepo]
  /\ lockFile = [r \in Repos |-> Absent]
  /\ lockRow = [r \in Repos |-> NoRow]
  /\ held = [p \in Procs |-> [t \in Tasks |-> NoLease]]
  /\ section = [p \in Procs |-> Idle]
  /\ running = [p \in Procs |-> TRUE]
  /\ tokens = 0

(* The event loop of p is free to start another callback.                  *)
Free(p) == running[p] /\ section[p] = Idle

-----------------------------------------------------------------------------
(* The tasks table.                                                        *)

(* TaskRepository.bindRepository: repo_id is written only while it is NULL. *)
BindRepository(t, r) ==
  /\ repoId[t] = NoRepo
  /\ repoId' = [repoId EXCEPT ![t] = r]

(* TaskRepository.transition, by a caller that respects the status graph.   *)
TransitionTask(t, to) ==
  /\ CanTransition(status[t], to)
  /\ status' = [status EXCEPT ![t] = to]

-----------------------------------------------------------------------------
(* RepoLockService.acquire                                                 *)

(* Mutant: flag 'w' instead of 'wx', an existing file is overwritten.       *)
OpenLockFileOverwrites(p, t, r) ==
  /\ Free(p)
  /\ tokens < MaxTokens
  /\ tokens' = tokens + 1
  /\ lockFile' = [lockFile EXCEPT ![r] = tokens + 1]
  /\ section' = [section EXCEPT ![p] =
                   [op |-> "acquire", task |-> t, repo |-> r, token |-> tokens + 1]]
  /\ UNCHANGED <<status, repoId, lockRow, held, running>>

(* openSync(lockPath, 'wx') and writeFileSync both succeed.                 *)
OpenLockFile(p, t, r) ==
  /\ Free(p)
  /\ lockFile[r] = Absent
  /\ tokens < MaxTokens
  /\ tokens' = tokens + 1
  /\ lockFile' = [lockFile EXCEPT ![r] = tokens + 1]
  /\ section' = [section EXCEPT ![p] =
                   [op |-> "acquire", task |-> t, repo |-> r, token |-> tokens + 1]]
  /\ UNCHANGED <<status, repoId, lockRow, held, running>>

(* The file is created and writing its metadata throws: acquire rejects and *)
(* nothing removes the file.                                                *)
WriteLockFileFails(p, r) ==
  /\ Free(p)
  /\ lockFile[r] = Absent
  /\ tokens < MaxTokens
  /\ tokens' = tokens + 1
  /\ lockFile' = [lockFile EXCEPT ![r] = Torn]
  /\ UNCHANGED <<status, repoId, lockRow, held, section, running>>

(* The guards of LockRepository.acquireAndPrepare.                          *)
RowConflict(s) == lockRow[s.repo] # NoRow

WaitingFor(s) == status[s.task] = "WAITING_REPO_LOCK" /\ repoId[s.task] = s.repo

(* The transaction commits: the row exists, the task is PREPARING, the      *)
(* heartbeat is armed and trackedLocks remembers the lease.                 *)
PrepareTask(p) ==
  LET s == section[p] IN
  /\ running[p]
  /\ s.op = "acquire"
  /\ ~RowConflict(s)
  /\ WaitingFor(s)
  /\ lockRow' = [lockRow EXCEPT ![s.repo] =
                   [token |-> s.token, task |-> s.task, live |-> TRUE]]
  /\ status' = [status EXCEPT ![s.task] = "PREPARING"]
  /\ held' = [held EXCEPT ![p][s.task] =
                [token |-> s.token, repo |-> s.repo, timer |-> TRUE]]
  /\ section' = [section EXCEPT ![p] = Idle]
  /\ UNCHANGED <<repoId, lockFile, running, tokens>>

(* The transaction rolls back: a constraint violation becomes               *)
(* RepoLockedError, anything else (the task is not waiting, SQLite fails)   *)
(* is rethrown.  Either way acquire goes on to remove its file.             *)
PrepareFails(p) ==
  LET s == section[p] IN
  /\ running[p]
  /\ s.op = "acquire"
  /\ \/ RowConflict(s) /\ section' = [section EXCEPT ![p].op = "undoConflict"]
     \/ section' = [section EXCEPT ![p].op = "undoError"]
  /\ UNCHANGED <<status, repoId, lockFile, lockRow, held, running, tokens>>

UndoLockFile(p) ==
  /\ running[p]
  /\ section[p].op \in {"undoConflict", "undoError"}
  /\ lockFile' = [lockFile EXCEPT ![section[p].repo] = Absent]
  /\ section' = [section EXCEPT ![p] = Idle]
  /\ UNCHANGED <<status, repoId, lockRow, held, running, tokens>>

(* The unlink throws: acquire rejects and its file stays, owned by nobody.  *)
UndoThrows(p) ==
  /\ running[p]
  /\ section[p].op \in {"undoConflict", "undoError"}
  /\ section' = [section EXCEPT ![p] = Idle]
  /\ UNCHANGED <<status, repoId, lockFile, lockRow, held, running, tokens>>

-----------------------------------------------------------------------------
(* Heartbeat.  A beat is synchronous, so it is one step.                    *)

(* LockRepository.heartbeat found its row: the lease is pushed forward      *)
(* without looking whether it had expired.                                  *)
Beat(p, t) ==
  LET r == held[p][t].repo IN
  /\ Free(p)
  /\ held[p][t].timer
  /\ lockRow[r].token = held[p][t].token
  /\ lockRow' = [lockRow EXCEPT ![r].live = TRUE]
  /\ UNCHANGED <<status, repoId, lockFile, held, section, running, tokens>>

(* Mutant: a lost heartbeat also gives the row back.                        *)
BeatFailsFreesRow(p, t) ==
  /\ Free(p)
  /\ held[p][t].timer
  /\ held' = [held EXCEPT ![p][t].timer = FALSE]
  /\ lockRow' = [lockRow EXCEPT ![held[p][t].repo] = NoRow]
  /\ UNCHANGED <<status, repoId, lockFile, section, running, tokens>>

(* The row is no longer ours, or SQLite fails.  The task is moved toward    *)
(* recovery (unless that write fails too) and the interval stops for good.  *)
BeatFails(p, t) ==
  /\ Free(p)
  /\ held[p][t].timer
  /\ held' = [held EXCEPT ![p][t].timer = FALSE]
  /\ \/ /\ CanMoveToRecovery(status[t])
        /\ status' = [status EXCEPT ![t] = "NEEDS_RECOVERY"]
     \/ UNCHANGED status
  /\ UNCHANGED <<repoId, lockFile, lockRow, section, running, tokens>>

(* Mutant: an expired lease is taken down for the next contender.           *)
LeaseExpiresFrees(r) ==
  /\ lockRow[r].live
  /\ lockRow' = [lockRow EXCEPT ![r] = NoRow]
  /\ lockFile' = [lockFile EXCEPT ![r] = Absent]
  /\ UNCHANGED <<status, repoId, held, section, running, tokens>>

(* lease_until passes: the interval is stopped, or the machine was          *)
(* suspended and the beat is late.                                          *)
LeaseExpires(r) ==
  /\ lockRow[r].live
  /\ lockRow' = [lockRow EXCEPT ![r].live = FALSE]
  /\ UNCHANGED <<status, repoId, lockFile, held, section, running, tokens>>

-----------------------------------------------------------------------------
(* The tracked release: forget the lease, stop its timer, delete the row by *)
(* token, then remove the file if it still carries the token.  The released *)
(* flag is set first, so a release that throws is never retried.            *)

(* Mutant: the file is unlinked first and the DELETE never follows.         *)
StartReleaseFileFirst(p, t) ==
  /\ Free(p)
  /\ held[p][t] # NoLease
  /\ held' = [held EXCEPT ![p][t] = NoLease]
  /\ section' = [section EXCEPT ![p] =
                   [op |-> "releaseFile", task |-> t, repo |-> held[p][t].repo,
                    token |-> held[p][t].token]]
  /\ UNCHANGED <<status, repoId, lockFile, lockRow, running, tokens>>

StartRelease(p, t) ==
  /\ Free(p)
  /\ held[p][t] # NoLease
  /\ held' = [held EXCEPT ![p][t] = NoLease]
  /\ section' = [section EXCEPT ![p] =
                   [op |-> "releaseRow", task |-> t, repo |-> held[p][t].repo,
                    token |-> held[p][t].token]]
  /\ UNCHANGED <<status, repoId, lockFile, lockRow, running, tokens>>

DeleteRow(p) ==
  LET s == section[p] IN
  /\ running[p]
  /\ s.op = "releaseRow"
  /\ lockRow' = [lockRow EXCEPT ![s.repo] = IF @.token = s.token THEN NoRow ELSE @]
  /\ section' = [section EXCEPT ![p].op = "releaseFile"]
  /\ UNCHANGED <<status, repoId, lockFile, held, running, tokens>>

RemoveLockFile(p) ==
  LET s == section[p] IN
  /\ running[p]
  /\ s.op = "releaseFile"
  /\ lockFile' = [lockFile EXCEPT ![s.repo] = IF @ = s.token THEN Absent ELSE @]
  /\ section' = [section EXCEPT ![p] = Idle]
  /\ UNCHANGED <<status, repoId, lockRow, held, running, tokens>>

(* The DELETE or the unlink throws: release rejects with the rest undone.   *)
ReleaseThrows(p) ==
  /\ running[p]
  /\ section[p].op \in {"releaseRow", "releaseFile"}
  /\ section' = [section EXCEPT ![p] = Idle]
  /\ UNCHANGED <<status, repoId, lockFile, lockRow, held, running, tokens>>

-----------------------------------------------------------------------------
(* Process lifetime.                                                       *)

(* RepoLockLease.quiesce: the interval stops, row and file stay.            *)
Quiesce(p, t) ==
  /\ Free(p)
  /\ held[p][t].timer
  /\ held' = [held EXCEPT ![p][t].timer = FALSE]
  /\ UNCHANGED <<status, repoId, lockFile, lockRow, section, running, tokens>>

(* The process ends, between any two steps: its memory is gone.             *)
Crash(p) ==
  /\ running[p]
  /\ running' = [running EXCEPT ![p] = FALSE]
  /\ held' = [held EXCEPT ![p] = [t \in Tasks |-> NoLease]]
  /\ section' = [section EXCEPT ![p] = Idle]
  /\ UNCHANGED <<status, repoId, lockFile, lockRow, tokens>>

(* Mutant: startup sweeps the locks it finds.                               *)
RestartSweeps(p) ==
  /\ ~running[p]
  /\ running' = [running EXCEPT ![p] = TRUE]
  /\ lockRow' = [r \in Repos |-> NoRow]
  /\ lockFile' = [r \in Repos |-> Absent]
  /\ UNCHANGED <<status, repoId, held, section, tokens>>

(* Startup opens the database and migrates it; it examines no lock.         *)
Restart(p) ==
  /\ ~running[p]
  /\ running' = [running EXCEPT ![p] = TRUE]
  /\ UNCHANGED <<status, repoId, lockFile, lockRow, held, section, tokens>>

-----------------------------------------------------------------------------
(* The lock service on its own: any caller may bind and move tasks, and may *)
(* call acquire and release at any time.                                    *)

Caller ==
  /\ \/ /\ \E t \in Tasks, r \in Repos : BindRepository(t, r)
        /\ UNCHANGED status
     \/ /\ \E t \in Tasks, to \in Statuses : TransitionTask(t, to)
        /\ UNCHANGED repoId
  /\ UNCHANGED <<lockFile, lockRow, held, section, running, tokens>>

Service ==
  \/ \E p \in Procs, t \in Tasks :
       \/ \E r \in Repos : OpenLockFile(p, t, r)
       \/ Beat(p, t)
       \/ BeatFails(p, t)
       \/ StartRelease(p, t)
       \/ Quiesce(p, t)
  \/ \E p \in Procs :
       \/ \E r \in Repos : WriteLockFileFails(p, r)
       \/ PrepareTask(p)
       \/ PrepareFails(p)
       \/ UndoLockFile(p)
       \/ UndoThrows(p)
       \/ DeleteRow(p)
       \/ RemoveLockFile(p)
       \/ ReleaseThrows(p)
       \/ Crash(p)
       \/ Restart(p)
  \/ \E r \in Repos : LeaseExpires(r)

Next == Caller \/ Service

Spec == Init /\ [][Next]_leaseVars

-----------------------------------------------------------------------------
(* Correctness.                                                            *)

(* A repo_locks row is always backed by the lock file of the same token:    *)
(* the file is made before the row and removed after it, also when a crash  *)
(* or a failed step ends a call in the middle.  So EEXIST alone already     *)
(* excludes every contender of an owned repository.                         *)
RowBackedByFile ==
  \A r \in Repos : lockRow[r] # NoRow => lockFile[r] = lockRow[r].token

(* Whatever lease object a process keeps, its row and its file are its own: *)
(* no two lease objects, of whichever processes, cover one repository.      *)
HolderOwnsRow ==
  \A p \in Procs, t \in Tasks : held[p][t] # NoLease =>
    /\ lockRow[held[p][t].repo].token = held[p][t].token
    /\ lockRow[held[p][t].repo].task = t
    /\ repoId[t] = held[p][t].repo

ExclusiveLease ==
  \A p, q \in Procs : \A t, u \in Tasks :
    /\ held[p][t] # NoLease
    /\ held[q][u] # NoLease
    /\ held[p][t].repo = held[q][u].repo
    => p = q /\ t = u

(* The lease object named by token k still exists in process p.             *)
Holds(p, k) ==
  \/ \E t \in Tasks : held[p][t].token = k
  \/ section[p].op = "releaseRow" /\ section[p].token = k

(* A row only disappears by the DELETE of the call that owns its token, and *)
(* it is never replaced by another owner's row in one step: a lease nobody  *)
(* can release any more (crash, throwing release) blocks its repository     *)
(* for good, and expiry of the lease lets nobody in.                        *)
FreedByHolder ==
  \A r \in Repos :
    lockRow[r] # NoRow /\ lockRow'[r].token # lockRow[r].token
    => /\ lockRow'[r] = NoRow
       /\ \E p \in Procs : section[p].op = "releaseRow"
                           /\ section[p].token = lockRow[r].token

OnlyHolderFrees == [][FreedByHolder]_leaseVars

(* A lock file is removed only by the process whose call created its token. *)
(* In particular the unconditional unlink of the failing acquire never      *)
(* removes a file another process created.                                  *)
UnlinkedByCreator ==
  \A r \in Repos :
    lockFile[r] # Absent /\ lockFile'[r] # lockFile[r]
    => \E p \in Procs : section[p] # Idle /\ section[p].token = lockFile[r]

OnlyCreatorUnlinks == [][UnlinkedByCreator]_leaseVars

-----------------------------------------------------------------------------
(* The inductive strengthening used by the proofs.                         *)

(* Every token in use was issued, so a new one is fresh.                    *)
TokensIssued ==
  /\ \A r \in Repos : lockFile[r] <= tokens /\ lockRow[r].token <= tokens
  /\ \A p \in Procs : section[p].token <= tokens
  /\ \A p \in Procs, t \in Tasks : held[p][t].token <= tokens

(* What an acquire or release in progress may rely on.  The file is its own *)
(* at every step; the row is absent before PrepareTask and after DeleteRow, *)
(* and its own in between.                                                  *)
SectionOwns ==
  \A p \in Procs : section[p] # Idle =>
    /\ lockFile[section[p].repo] = section[p].token
    /\ IF section[p].op = "releaseRow"
       THEN lockRow[section[p].repo].token = section[p].token
       ELSE lockRow[section[p].repo] = NoRow

(* One lease object per token.                                              *)
OneHolder ==
  /\ \A p, q \in Procs : section[p] # Idle /\ section[p].token = section[q].token => p = q
  /\ \A p, q \in Procs, t \in Tasks : section[p] # Idle => section[p].token # held[q][t].token
  /\ \A p, q \in Procs, t, u \in Tasks :
       held[p][t] # NoLease /\ held[p][t].token = held[q][u].token => p = q /\ t = u

(* One file, hence one repository, per token.                               *)
FilesDistinct ==
  \A q, r \in Repos : lockFile[q] \in Tokens /\ lockFile[q] = lockFile[r] => q = r

IInv ==
  /\ TypeOK
  /\ TokensIssued
  /\ RowBackedByFile
  /\ HolderOwnsRow
  /\ SectionOwns
  /\ OneHolder
  /\ FilesDistinct

-----------------------------------------------------------------------------
(* The detailed lock implements the abstract one.                          *)

Mutex == INSTANCE LeaseMutex WITH
           owner <- [r \in Repos |-> lockRow[r].token],
           live  <- { k \in 1..tokens : \E p \in Procs : Holds(p, k) }

MutexSpec == Mutex!Spec

=============================================================================
