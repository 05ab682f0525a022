---------------------------- MODULE LocalCommand ----------------------------
(***************************************************************************)
(* Local commands: lint, test, build or dev of a registered repository,    *)
(* run in a new worktree of its committed HEAD (LocalCommandDispatcher,    *)
(* local-developer-runtime.ts, WorktreeService, CommandRunner and the      *)
(* isolated spawner).                                                      *)
(*                                                                         *)
(* A call is one task.  Between two of its actions it awaits: a read of    *)
(* Git, a child process, the capture of an output.  Meanwhile the owner    *)
(* commits or edits, the lease of the call lapses, other calls run, the    *)
(* agent closes or crashes.  The repository lock is the mutex that         *)
(* LeaseMutex states: a lock that was not released is never taken over.    *)
(***************************************************************************)
EXTENDS TaskStatus, CommandPolicy, Naturals, FiniteSets

CONSTANTS
  Calls,
  Repos,
  RepoOf,      \* call: its repository
  Files,       \* the tracked files of a repository
  MaxHead,     \* bound: commits of a repository
  MaxEdits,    \* bound: edits and commits by the owner
  MaxFaults,   \* bound: failures of any kind, lapses and crashes
  None

ASSUME CallsHaveRepositories ==
  RepoOf \in [Calls -> Repos] /\ None \notin Calls \cup Statuses

VARIABLES
  pc,       \* call: the await it is at
  status,   \* call: tasks.status, None before the task exists
  owner,    \* repository: the call whose lock file and row it has
  held,     \* heldLeases
  fresh,    \* calls whose lease_until is in the future
  beating,  \* calls whose heartbeat is armed
  base,     \* repository: HEAD of the registered directory, the edited files
  calm,     \* call: files that were unedited since the last await of it began
  seen,     \* call: the HEAD it resolved
  tree,     \* call: the commit checked out in its worktree directory
  row,      \* call: the commit in its workspaces row
  child,    \* call: its process, or the exit code it left
  run,      \* call: status of the command_runs row of its command
  phase,    \* of the agent: "up", "closing", "closed", "down"
  edits, faults,
  pure,     \* history, call: <<HEAD, file>>, file unedited under that HEAD,
            \*   the last one its preparation saw
  ran,      \* history, call: the commit its command ran on
  spoiled   \* history: calls with a failed Git command, or ended by a crash

taskVars == <<pc, status>>
leaseVars == <<owner, held, fresh, beating>>
treeVars == <<seen, tree, row>>
runVars == <<child, run, ran>>
worldVars == <<base, phase, edits, calm, pure>>
localVars == <<taskVars, leaseVars, treeVars, runVars, worldVars, faults, spoiled>>

LocalInit ==
  /\ pc = [c \in Calls |-> "idle"]
  /\ status = [c \in Calls |-> None]
  /\ owner = [r \in Repos |-> None]
  /\ held = {} /\ fresh = {} /\ beating = {}
  /\ base = [r \in Repos |-> [head |-> 1, edited |-> {}]]
  /\ seen = [c \in Calls |-> None]
  /\ tree = [c \in Calls |-> None]
  /\ row = [c \in Calls |-> None]
  /\ child = [c \in Calls |-> "none"]
  /\ run = [c \in Calls |-> None]
  /\ phase = "up" /\ edits = 0 /\ faults = 0
  /\ calm = [c \in Calls |-> {}]
  /\ pure = [c \in Calls |-> {}]
  /\ ran = [c \in Calls |-> None]
  /\ spoiled = {}

Repo(c) == base[RepoOf[c]]
Unedited(r) == Files \ base[r].edited
Alive == phase \in {"up", "closing"}
Ended(c) == pc[c] \in {"done", "gone"}
Open(c) == pc[c] # "idle" /\ ~Ended(c)
Looks == {"look", "status", "status2"}
Prepares == {"status", "head", "map", "adding", "parse", "status2", "again"}
Processes == {"git", "command", "dying"}
At(c, l) == Alive /\ pc[c] = l
Goto(c, l) == pc' = [pc EXCEPT ![c] = l]
Fault == faults < MaxFaults /\ faults' = faults + 1
Spoil(c) == spoiled' = spoiled \cup {c}

(* From one await to the next.                                              *)
Goes(c, from, to) ==
  At(c, from) /\ Goto(c, to) /\ UNCHANGED <<status, leaseVars, faults>>

(* ownedExecutionLease: a lease of this process that has not lapsed.        *)
Owns(c) == c \in held /\ owner[RepoOf[c]] = c /\ c \in fresh

(* What an application Git command and an isolated command ask for.         *)
GitAllowed(c) == Owns(c) /\ status[c] \in Working
CommandAllowed(c) == Owns(c) /\ status[c] = "RUNNING" /\ row[c] # None

-----------------------------------------------------------------------------
(* How a call ends: its last synchronous stretch moves the task, forgets    *)
(* the lease and releases it.  A release that throws leaves the lock.       *)

Ends(c, s) ==
  /\ Goto(c, "done") /\ status' = [status EXCEPT ![c] = s]
  /\ held' = held \ {c} /\ beating' = beating \ {c} /\ fresh' = fresh \ {c}

Frees(c) == owner' = [r \in Repos |-> IF owner[r] = c THEN None ELSE owner[r]]

Concludes(c, s) ==
  /\ Ends(c, s)
  /\ \/ Frees(c) /\ UNCHANGED faults
     \/ c \in held /\ UNCHANGED owner /\ Fault

(* The catch block: FAILED from wherever the task may go there, unless the  *)
(* block throws itself.                                                     *)
Failed(c) == IF CanTransition(status[c], "FAILED") THEN "FAILED" ELSE status[c]
Rejects(c) ==
  \/ Concludes(c, Failed(c))
  \/ Ends(c, status[c]) /\ Frees(c) /\ Fault

(* The same for a step that could have succeeded; the fault may last        *)
(* through the catch block.                                                 *)
Breaks(c) == (\E s \in {Failed(c), status[c]} : Ends(c, s)) /\ Frees(c) /\ Fault

-----------------------------------------------------------------------------
(* Reading the registered directory.  A status is computed on a copy that   *)
(* is made file by file while the owner goes on: it is clean when each file *)
(* was unedited at the moment it was copied.  HEAD is read later.           *)

(* A copy that is made from now on.                                         *)
Copies(c) == calm' = [calm EXCEPT ![c] = Unedited(RepoOf[c])]
Clean(c) == calm[c] = Files
Looked(c) == calm' = [calm EXCEPT ![c] = {}]

(* A call is admitted while the runtime is open, and looks before its task  *)
(* exists.                                                                  *)
Call(c) ==
  /\ pc[c] = "idle" /\ phase = "up"
  /\ Goto(c, "look") /\ Copies(c)
  /\ UNCHANGED <<status, leaseVars, treeVars, runVars, base, phase, edits, pure, faults, spoiled>>

(* A directory that is not clean refuses it, like a copy that fails.        *)
Admit(c) ==
  /\ At(c, "look") /\ Looked(c)
  /\ \/ Clean(c) /\ Goto(c, "acquire")
        /\ status' = [status EXCEPT ![c] = "WAITING_REPO_LOCK"]
     \/ Goto(c, "done") /\ UNCHANGED status
  /\ UNCHANGED <<leaseVars, treeVars, runVars, base, phase, edits, pure, faults, spoiled>>

LookStatus(c, from, to) ==
  /\ \/ Clean(c) /\ Goes(c, from, to)
     \/ At(c, from) /\ Rejects(c)
  /\ Looked(c)
  /\ UNCHANGED <<treeVars, runVars, base, phase, edits, pure, spoiled>>

(* HEAD, from which the worktree will be made.                              *)
LookHead(c) ==
  /\ Goes(c, "head", "map")
  /\ seen' = [seen EXCEPT ![c] = Repo(c).head]
  /\ UNCHANGED <<tree, row, runVars, worldVars, spoiled>>

(* Mutant: HEAD is not compared with what was checked out.                  *)
LookAgainTrusting(c) ==
  /\ Goes(c, "again", "leave")
  /\ UNCHANGED <<treeVars, runVars, worldVars, spoiled>>

(* HEAD must still be the commit that was checked out.                      *)
LookAgain(c) ==
  /\ IF row[c] = seen[c] /\ Repo(c).head = seen[c]
     THEN Goes(c, "again", "leave") ELSE At(c, "again") /\ Rejects(c)
  /\ UNCHANGED <<treeVars, runVars, worldVars, spoiled>>

-----------------------------------------------------------------------------
(* The lease.  Its admission, like the guard around the preparation which   *)
(* follows in the same stretch, is refused as soon as the runtime closes.   *)

Acquire(c) ==
  LET r == RepoOf[c] IN
  /\ At(c, "acquire")
  /\ IF phase = "up" /\ owner[r] = None
     THEN \/ /\ owner' = [owner EXCEPT ![r] = c]
             /\ held' = held \cup {c} /\ fresh' = fresh \cup {c}
             /\ beating' = beating \cup {c}
             /\ status' = [status EXCEPT ![c] = "PREPARING"]
             /\ Goto(c, "status") /\ Copies(c) /\ UNCHANGED faults
             /\ pure' = [pure EXCEPT ![c] = {Repo(c).head} \X Unedited(r)]
          \/ Breaks(c) /\ UNCHANGED <<calm, pure>>
     ELSE Rejects(c) /\ UNCHANGED <<calm, pure>>
  /\ UNCHANGED <<treeVars, runVars, base, phase, edits, spoiled>>

(* A beat pushes the lease forward, even when it had lapsed.                *)
Beat(c) ==
  /\ Alive /\ c \in beating /\ c \notin fresh
  /\ fresh' = fresh \cup {c}
  /\ UNCHANGED <<taskVars, owner, held, beating, treeVars, runVars, worldVars, faults, spoiled>>

(* A beat fails: the task moves to recovery, the heartbeat stops.           *)
BeatFails(c) ==
  /\ Alive /\ c \in beating /\ Fault
  /\ beating' = beating \ {c}
  /\ status' = [status EXCEPT ![c] = IF CanMoveToRecovery(@) THEN "NEEDS_RECOVERY" ELSE @]
  /\ UNCHANGED <<pc, owner, held, fresh, treeVars, runVars, worldVars, spoiled>>

Lapse(c) ==
  /\ c \in fresh /\ Fault
  /\ fresh' = fresh \ {c}
  /\ UNCHANGED <<taskVars, owner, held, beating, treeVars, runVars, worldVars, spoiled>>

-----------------------------------------------------------------------------
(* WorktreeService.create.  Application Git runs in a supervised child.     *)

(* The path is mapped, checked before and after its parent is made, and     *)
(* must be absent; then git worktree add starts.                            *)
SpawnAdd(c) ==
  /\ IF GitAllowed(c) /\ tree[c] = None
     THEN \/ Goes(c, "map", "adding") /\ child' = [child EXCEPT ![c] = "git"]
          \/ At(c, "map") /\ Breaks(c) /\ UNCHANGED child
     ELSE At(c, "map") /\ Rejects(c) /\ UNCHANGED child
  /\ UNCHANGED <<treeVars, run, ran, worldVars, spoiled>>

(* Git checks the worktree out.  This child outlives a crash of the agent.  *)
GitAdds(c) ==
  /\ child[c] = "git" /\ tree[c] = None
  /\ tree' = [tree EXCEPT ![c] = seen[c]]
  /\ UNCHANGED <<taskVars, leaseVars, seen, row, runVars, worldVars, faults, spoiled>>

(* The supervisor settles when no process is left: with success, or with a  *)
(* failure or a timeout after which the worktree may exist.                 *)
AddSettles(c) ==
  /\ child[c] = "git" /\ child' = [child EXCEPT ![c] = "none"]
  /\ \/ tree[c] # None /\ Goes(c, "adding", "parse") /\ UNCHANGED spoiled
     \/ At(c, "adding") /\ Rejects(c) /\ Spoil(c)
  /\ UNCHANGED <<treeVars, run, ran, worldVars>>

(* The orphan of a crashed agent ends.                                      *)
OrphanEnds(c) ==
  /\ child[c] = "git" /\ pc[c] = "gone"
  /\ child' = [child EXCEPT ![c] = "none"]
  /\ UNCHANGED <<taskVars, leaseVars, treeVars, run, ran, worldVars, faults, spoiled>>

(* Mutant: a worktree that cannot be recorded is left where it is.          *)
RecordOrForget(c) ==
  /\ At(c, "parse")
  /\ IF GitAllowed(c)
     THEN \/ Goes(c, "parse", "status2") /\ row' = [row EXCEPT ![c] = tree[c]]
             /\ Copies(c) /\ UNCHANGED spoiled
          \/ Breaks(c) /\ UNCHANGED <<row, calm, spoiled>>
     ELSE Rejects(c) /\ Spoil(c) /\ UNCHANGED <<row, calm>>
  /\ UNCHANGED <<seen, tree, runVars, base, phase, edits, pure>>

(* git rev-parse in the new worktree, and its row.  A failure of rev-parse  *)
(* rolls nothing back, a failure to record does.                            *)
Record(c) ==
  /\ At(c, "parse")
  /\ IF GitAllowed(c)
     THEN \/ Goes(c, "parse", "status2") /\ row' = [row EXCEPT ![c] = tree[c]]
             /\ Copies(c) /\ UNCHANGED spoiled
          \/ Breaks(c) /\ Spoil(c) /\ UNCHANGED <<row, calm>>
          \/ Fault /\ Goto(c, "remove") /\ UNCHANGED <<status, leaseVars, row, calm, spoiled>>
     ELSE Rejects(c) /\ Spoil(c) /\ UNCHANGED <<row, calm>>
  /\ UNCHANGED <<seen, tree, runVars, base, phase, edits, pure>>

(* The rollback: git worktree remove, whose failure is swallowed, ...       *)
Remove(c) ==
  /\ At(c, "remove") /\ Goto(c, "prune")
  /\ \/ GitAllowed(c) /\ tree' = [tree EXCEPT ![c] = None] /\ UNCHANGED <<faults, spoiled>>
     \/ GitAllowed(c) /\ Fault /\ Spoil(c) /\ UNCHANGED tree
     \/ ~GitAllowed(c) /\ Spoil(c) /\ UNCHANGED <<tree, faults>>
  /\ UNCHANGED <<status, leaseVars, seen, row, runVars, worldVars>>

(* ... and git worktree prune; the error of the record is thrown at last.   *)
Prune(c) ==
  /\ At(c, "prune") /\ Rejects(c)
  /\ UNCHANGED <<treeVars, runVars, worldVars, spoiled>>

-----------------------------------------------------------------------------
(* The command, in the isolated namespace of its worktree.  Its run row is  *)
(* finished once.                                                           *)

RunStarts(c) == run' = [run EXCEPT ![c] = "RUNNING"]
RunEnds(c, s) == run[c] = "RUNNING" /\ run' = [run EXCEPT ![c] = s]

(* The guard is left, the row found, the task started and the child made,   *)
(* in one stretch: what it was allowed at the start holds to the spawn.     *)
StartCommand(c) ==
  /\ At(c, "leave")
  /\ IF Owns(c) /\ status[c] = "PREPARING" /\ row[c] # None
     THEN /\ Goto(c, "executing") /\ status' = [status EXCEPT ![c] = "RUNNING"]
          /\ child' = [child EXCEPT ![c] = "command"]
          /\ RunStarts(c)
          /\ ran' = [ran EXCEPT ![c] = tree[c]]
          /\ UNCHANGED <<leaseVars, faults>>
     ELSE Rejects(c) /\ UNCHANGED runVars
  /\ UNCHANGED <<treeVars, worldVars, spoiled>>

CommandExits(c) ==
  /\ At(c, "executing") /\ child[c] = "command"
  /\ \E code \in {"zero", "nonzero"} : child' = [child EXCEPT ![c] = code]
  /\ Goto(c, "capture")
  /\ UNCHANGED <<status, leaseVars, treeVars, run, ran, worldVars, faults, spoiled>>

(* Mutant: only a lost authorization ends a command.                        *)
KillUnauthorized(c) ==
  /\ At(c, "executing") /\ child[c] = "command" /\ ~CommandAllowed(c)
  /\ child' = [child EXCEPT ![c] = "dying"]
  /\ UNCHANGED <<taskVars, leaseVars, treeVars, run, ran, worldVars, faults, spoiled>>

(* Mutant: the spawner settles when it has sent the signal.                 *)
KillAndSettle(c) ==
  /\ At(c, "executing") /\ child[c] = "command"
  /\ child' = [child EXCEPT ![c] = "dying"]
  /\ RunEnds(c, "FAILED") /\ Rejects(c)
  /\ UNCHANGED <<treeVars, ran, worldVars, spoiled>>

(* The deadline, the output limit, or a poll that finds the authorization   *)
(* gone: the whole PID namespace gets SIGKILL.                              *)
Kill(c) ==
  /\ At(c, "executing") /\ child[c] = "command"
  /\ child' = [child EXCEPT ![c] = "dying"]
  /\ UNCHANGED <<taskVars, leaseVars, treeVars, run, ran, worldVars, faults, spoiled>>

KilledCloses(c) ==
  /\ At(c, "executing") /\ child[c] = "dying"
  /\ child' = [child EXCEPT ![c] = "none"]
  /\ \/ RunEnds(c, "FAILED") /\ Rejects(c)
     \/ UNCHANGED run /\ Breaks(c)
  /\ UNCHANGED <<treeVars, ran, worldVars, spoiled>>

(* The output is written, the run row finished, and the result is checked   *)
(* against what is stored: only then may the task complete.  A row that     *)
(* could not be finished may stay as it is.                                 *)
Judge(c) ==
  /\ At(c, "capture")
  /\ child' = [child EXCEPT ![c] = "none"]
  /\ \/ /\ RunEnds(c, IF child[c] = "zero" THEN "SUCCEEDED" ELSE "FAILED")
        /\ \/ IF Owns(c) /\ status[c] = "RUNNING" /\ child[c] = "zero"
              THEN Concludes(c, "COMPLETED") ELSE Rejects(c)
           \/ Breaks(c)
     \/ (RunEnds(c, "FAILED") \/ UNCHANGED run) /\ Breaks(c)
  /\ UNCHANGED <<treeVars, ran, worldVars, spoiled>>

-----------------------------------------------------------------------------
(* The owner's own work in the directory: edits, edits taken back, and      *)
(* commits, which may leave edited files.  HEAD never returns to an older   *)
(* commit.                                                                  *)
Change(r) ==
  /\ edits < MaxEdits /\ edits' = edits + 1
  /\ \/ base[r].head < MaxHead
        /\ \E left \in SUBSET Files :
             base' = [base EXCEPT ![r] = [head |-> @.head + 1, edited |-> left]]
     \/ \E f \in base[r].edited : base' = [base EXCEPT ![r].edited = @ \ {f}]
     \/ \E f \in Unedited(r) : base' = [base EXCEPT ![r].edited = @ \cup {f}]
  /\ LET now == Files \ base'[r].edited
         mine == {c \in Calls : RepoOf[c] = r}
     IN /\ calm' = [c \in Calls |->
             IF c \in mine /\ pc[c] \in Looks THEN calm[c] \cup now ELSE calm[c]]
        /\ pure' = [c \in Calls |->
             IF c \in mine /\ pc[c] \in Prepares
             THEN {p \in pure[c] : p[1] = base'[r].head} \cup ({base'[r].head} \X now)
             ELSE pure[c]]
  /\ UNCHANGED <<taskVars, leaseVars, treeVars, runVars, phase, faults, spoiled>>

Close ==
  /\ phase = "up" /\ phase' = "closing"
  /\ UNCHANGED <<taskVars, leaseVars, treeVars, runVars, base, edits, calm, pure, faults, spoiled>>

(* The calls that were admitted are awaited, then the database is closed.   *)
Closed ==
  /\ phase = "closing" /\ \A c \in Calls : ~Open(c)
  /\ phase' = "closed"
  /\ UNCHANGED <<taskVars, leaseVars, treeVars, runVars, base, edits, calm, pure, faults, spoiled>>

(* Isolated commands die with the agent, application Git does not.          *)
Crash ==
  LET open == {c \in Calls : Open(c)} IN
  /\ Alive /\ Fault /\ phase' = "down"
  /\ pc' = [c \in Calls |-> IF c \in open THEN "gone" ELSE pc[c]]
  /\ child' = [c \in Calls |-> IF child[c] = "git" THEN "git" ELSE "none"]
  /\ calm' = [c \in Calls |-> {}]
  /\ held' = {} /\ beating' = {} /\ spoiled' = spoiled \cup open
  /\ UNCHANGED <<status, owner, fresh, treeVars, run, ran, base, edits, pure>>

(* The agent starts again and takes nothing over.                           *)
Restart ==
  /\ phase \in {"down", "closed"} /\ phase' = "up"
  /\ UNCHANGED <<taskVars, leaseVars, treeVars, runVars, base, edits, calm, pure, faults, spoiled>>

-----------------------------------------------------------------------------

Handler(c) ==
  \/ Admit(c) \/ Acquire(c)
  \/ LookStatus(c, "status", "head") \/ LookHead(c)
  \/ SpawnAdd(c) \/ AddSettles(c) \/ Record(c) \/ Remove(c) \/ Prune(c)
  \/ LookStatus(c, "status2", "again") \/ LookAgain(c)
  \/ StartCommand(c) \/ Kill(c) \/ KilledCloses(c) \/ Judge(c)

Others ==
  \/ \E c \in Calls : \/ Call(c) \/ GitAdds(c) \/ OrphanEnds(c) \/ CommandExits(c)
                      \/ Beat(c) \/ BeatFails(c) \/ Lapse(c)
  \/ \E r \in Repos : Change(r)
  \/ Close \/ Closed \/ Crash \/ Restart

LocalNext == Others \/ \E c \in Calls : Handler(c)

(* Timers, children that were killed and promises make progress; a command  *)
(* need not end by itself.                                                  *)
LocalSpec ==
  /\ LocalInit /\ [][LocalNext]_localVars
  /\ \A c \in Calls : WF_localVars(Handler(c))

-----------------------------------------------------------------------------

(* Whatever command a call is at, those of its rollback too, the policy     *)
(* allows it without an owner, the preflight checks the directory that Git  *)
(* takes, and the trusted spawner admits it: a worktree that could not be   *)
(* recorded is never kept because its removal was refused.                  *)
CallIsCarriedOut ==
  \A c \in Calls :
    /\ pc[c] = "map" => Allowed(Op("wslpath", <<"-w", Worktree>>))
    /\ pc[c] = "adding" => \A s \in Shas : AddCommands(s) \subseteq InBase
    /\ pc[c] = "parse" => HeadCommands \subseteq InWorktree
    /\ pc[c] = "remove" => RemoveCommands \subseteq InBase
    /\ pc[c] = "prune" => PruneCommands \subseteq InBase
    /\ pc[c] = "leave" => Allowed(Op("pnpm", <<"run", "test">>))

(* A command that completed succeeded on a commit that was the HEAD of its  *)
(* directory while, under its lease, each of the files was found unedited,  *)
(* and the workspace row names that commit: although the files and HEAD are *)
(* read one by one while the owner edits and commits.                       *)
CompletedOnCleanHead ==
  \A c \in Calls : status[c] = "COMPLETED" =>
    run[c] = "SUCCEEDED" /\ row[c] = ran[c] /\ {ran[c]} \X Files \subseteq pure[c]

(* No process works for a call without the lock of its repository: not      *)
(* after a lapse, a failed release, a kill that takes its time, nor as the  *)
(* orphan of a crash.                                                       *)
ProcessesUnderLock ==
  \A c \in Calls : child[c] \in Processes => owner[RepoOf[c]] = c

(* A worktree is left without its row only by a call one of whose Git       *)
(* commands failed or was refused, or that the agent did not survive.       *)
WorktreesAreKnown ==
  \A c \in Calls : Ended(c) /\ tree[c] # None /\ row[c] = None => c \in spoiled

(* Every call ends, also when its command never would.                      *)
CallsEnd == \A c \in Calls : pc[c] = "executing" ~> Ended(c)

-----------------------------------------------------------------------------
(* The inductive strengthening used by the proofs.                         *)

Leased == Prepares \cup {"remove", "prune", "leave", "executing", "capture"}

LockTyped ==
  /\ pc \in [Calls -> Leased \cup {"idle", "look", "acquire", "done", "gone"}]
  /\ child \in [Calls -> Processes \cup {"none", "zero", "nonzero"}]
  /\ owner \in [Repos -> Calls \cup {None}]

(* A call has the lock from its acquire to its end, and a process only      *)
(* while it awaits it; the Git child of a crash keeps the lock it began     *)
(* under.                                                                   *)
LockedAt(c) ==
  /\ pc[c] \in Leased \/ child[c] = "git" => owner[RepoOf[c]] = c
  /\ child[c] = "git" => pc[c] \in {"adding", "gone"}
  /\ child[c] \in {"command", "dying"} => pc[c] = "executing"

LockInv == LockTyped /\ \A c \in Calls : LockedAt(c)

(* The rest of a call's state, and what the owner's directory is.           *)
CallTyped ==
  /\ status \in [Calls -> Statuses \cup {None}]
  /\ base \in [Repos -> [head : Nat, edited : SUBSET Files]]
  /\ seen \in [Calls -> Nat \cup {None}]
  /\ tree \in [Calls -> Nat \cup {None}]
  /\ row \in [Calls -> Nat \cup {None}]
  /\ ran \in [Calls -> Nat \cup {None}]
  /\ run \in [Calls -> {"RUNNING", "SUCCEEDED", "FAILED", None}]
  /\ calm \in [Calls -> SUBSET Files]
  /\ pure \in [Calls -> SUBSET (Nat \X Files)]

(* HEAD only advances: if it still is the commit that was resolved, every   *)
(* file that was copied unedited meanwhile was so under that commit.        *)
PreparedAt(c) ==
  LET h == Repo(c).head IN
  /\ pc[c] \in Prepares => {h} \X Unedited(RepoOf[c]) \subseteq pure[c]
  /\ pc[c] \in {"map", "adding", "parse", "status2", "again"} =>
       seen[c] \in Nat /\ seen[c] <= h
  /\ pc[c] = "status2" /\ h = seen[c] => {h} \X calm[c] \subseteq pure[c]
  /\ pc[c] = "again" /\ h = seen[c] => {h} \X Files \subseteq pure[c]
  /\ pc[c] \in {"leave", "executing", "capture"} => {row[c]} \X Files \subseteq pure[c]

(* Where a worktree and its row are at each await, and which calls ended    *)
(* without knowing.                                                         *)
KnownAt(c) ==
  /\ pc[c] \in {"idle", "look", "acquire", "status", "head", "map"} => tree[c] = None
  /\ pc[c] = "parse" => tree[c] # None
  /\ pc[c] \in {"status2", "again", "leave", "executing", "capture"} =>
       row[c] # None /\ row[c] = tree[c]
  /\ pc[c] \in {"executing", "capture"} => ran[c] = tree[c]
  /\ pc[c] \in {"prune", "done"} => tree[c] = None \/ row[c] # None \/ c \in spoiled
  /\ pc[c] = "gone" => c \in spoiled
  /\ status[c] = "COMPLETED" =>
       /\ pc[c] = "done" /\ run[c] = "SUCCEEDED" /\ row[c] = ran[c]
       /\ {ran[c]} \X Files \subseteq pure[c]

CallInv ==
  /\ LockInv
  /\ CallTyped
  /\ \A c \in Calls : PreparedAt(c) /\ KnownAt(c)

=============================================================================
