--------------------------- MODULE CommandPolicy ---------------------------
(***************************************************************************)
(* What stands between a command and its process: the classifier           *)
(* (packages/policy/src/risk-classifier.ts), the worktree preflight of     *)
(* CommandRunner (packages/shell/src/command-runner.ts), the admission of  *)
(* the trusted Git spawner (apps/agent/src/trusted-git-spawner.ts), and    *)
(* the commands that the agent's own adapters issue.  Four tables in four  *)
(* files that must agree: a command of an adapter that one of them does    *)
(* not know stops a task half way, and an allowed one that the preflight   *)
(* does not know goes unchecked.                                           *)
(*                                                                         *)
(* An argument is a token.  The fixed flags of a Git read are one token;   *)
(* refs/heads/b and b are one; paths, ids and messages are members of      *)
(* small sets.  A command of several files is taken as one for each.       *)
(***************************************************************************)
EXTENDS Sequences, FiniteSets, Naturals

CONSTANTS
  Branches,     \* branch names
  TaskBranches, \* those createTaskBranchName makes: fix/.., feat/.., chore/..
  Shas,         \* full commit ids
  RepoFiles,    \* repository paths
  SafePaths,    \* those safePath takes: short, without patterns, dots or .git
  Messages,     \* commit messages: "task <id>: <goal>", of any length
  ShortMessages,\* those of at most 4096 characters, none of them NUL
  Dirs,         \* absolute paths
  Base,         \* the base clone of the task's repository
  Worktree,     \* <home>/.gram-agent/worktrees/<repository>/<task>
  Upstream,     \* origin/<default branch>
  Parsed        \* parseGitPushRefspec, for the tokens that are refspecs:
                \* [source, destination, force, delete, any]

Protected == { "main", "master" }

(* The arguments that start with '-'.                                       *)
Options == { "-b", "-d", "-f", "-m", "-r", "-w", "--", "--all", "--delete", "--force",
             "--hard", "--mirror", "--only", "--prune", "--verify", "--read" }

(* Task branches are not protected; names and refspecs do not start with a  *)
(* dash, and paths are absolute; a refspec with a source does not delete,   *)
(* and a wildcard is not the name of a branch.                              *)
ASSUME NamesAreNotOptions ==
  /\ TaskBranches \subseteq Branches \ Protected
  /\ (TaskBranches \cup Shas \cup DOMAIN Parsed \cup {Upstream, Worktree}) \cap (Options \cup {""}) = {}
  /\ Worktree \in Dirs
  /\ \A r \in DOMAIN Parsed :
       /\ Parsed[r].source \in Shas => ~Parsed[r].delete
       /\ Parsed[r].destination \in TaskBranches => ~Parsed[r].any

Has(args, t) == \E i \in DOMAIN args : args[i] = t
Op(exe, args) == [exe |-> exe, args |-> args, root |-> FALSE, unresolved |-> FALSE]

-----------------------------------------------------------------------------
(* classifyRisk.  A context: is there a task id, and was a push to a        *)
(* protected branch granted, which no caller of the agent says.             *)
TaskContext == [task |-> TRUE, granted |-> FALSE]

(* The positional arguments after "push" and the remote.                    *)
Refspecs(args) ==
  LET words == { i \in DOMAIN args : args[i] \notin Options }
      Read(t) == IF t \in DOMAIN Parsed THEN Parsed[t]
                 ELSE [source |-> t, destination |-> t, force |-> FALSE,
                       delete |-> FALSE, any |-> FALSE]
  IN  { Read(args[i]) : i \in { k \in words : \E j, l \in words : j < l /\ l < k } }

ClassifyPush(args, context) ==
  LET specs   == Refspecs(args)
      named   == { s \in specs : s.destination \in Protected }
      force   == Has(args, "-f") \/ Has(args, "--force")
      delete  == Has(args, "-d") \/ Has(args, "--delete")
      Harms(s) == force \/ delete \/ s.force \/ s.delete
  IN  CASE Has(args, "--mirror") \/ (Has(args, "--all") /\ force) -> "DENY"
        [] Has(args, "--all") \/ specs = {} -> "NEEDS_APPROVAL"
        [] (\E s \in specs : s.any) /\ (\E s \in specs : Harms(s)) -> "DENY"
        [] \E s \in specs : s.any -> "NEEDS_APPROVAL"
        [] \E s \in named : Harms(s) -> "DENY"
        [] named # {} /\ ~context.granted -> "NEEDS_APPROVAL"
        [] delete \/ \E s \in specs : s.delete -> "NEEDS_APPROVAL"
        [] OTHER -> "ALLOW"

(* The three shapes of a task's worktree; "" is the empty argument.         *)
WorktreeLifecycle(args) ==
  \/ /\ Len(args) = 6 /\ args[2] = "add" /\ args[3] = "-b"
     /\ \A i \in 4..6 : args[i] # "" /\ args[i] \notin Options
  \/ /\ Len(args) = 4 /\ args[2] = "remove" /\ args[3] = "--force"
     /\ args[4] # "" /\ args[4] \notin Options
  \/ Len(args) = 2 /\ args[2] = "prune"

GitReads == { "status", "diff", "log", "blame", "fetch", "pull", "branch", "show",
              "rev-parse", "ls-remote" }
GitEdits == { "add", "commit", "checkout", "switch" }

ClassifyGit(args, context) ==
  LET subcommand == IF args = <<>> THEN "" ELSE Head(args)
  IN  CASE subcommand = "reset" /\ Has(args, "--hard")  -> "NEEDS_APPROVAL"
        [] subcommand = "clean" /\ (Has(args, "-f") \/ Has(args, "--force")) -> "NEEDS_APPROVAL"
        [] subcommand = "push" -> ClassifyPush(args, context)
        [] subcommand = "worktree" /\ context.task /\ WorktreeLifecycle(args) -> "ALLOW"
        [] subcommand \in GitReads \cup GitEdits -> "ALLOW"
        [] OTHER -> "NEEDS_APPROVAL"

ClassifyPackageManager(args) ==
  IF args = <<>> THEN "ALLOW"
  ELSE IF Head(args) \in { "install", "i", "test", "build", "lint", "typecheck", "check",
                           "run", "exec", "dlx" }
       THEN "ALLOW" ELSE "NEEDS_APPROVAL"

(* rm and rmdir.                                                            *)
ClassifyRemoval(op) ==
  LET recursive == Has(op.args, "-r")
  IN  CASE recursive /\ op.root -> "DENY"
        [] recursive \/ op.unresolved -> "NEEDS_APPROVAL"
        [] OTHER -> "ALLOW"

ClassifyRisk(op, context) ==
  CASE op.exe \in { "mkfs", "wipefs" } -> "DENY"
    [] op.exe \in { "rm", "rmdir" } -> ClassifyRemoval(op)
    [] op.exe = "git" -> ClassifyGit(op.args, context)
    [] op.exe \in { "pnpm", "npm", "yarn" } -> ClassifyPackageManager(op.args)
    [] op.exe \in { "apt", "apt-get" } ->
         IF op.args # <<>> /\ Head(op.args) = "install" THEN "ALLOW" ELSE "NEEDS_APPROVAL"
    [] op.exe = "wslpath" ->
         IF Len(op.args) = 2 /\ op.args[1] = "-w" /\ op.args[2] \in Dirs
         THEN "ALLOW" ELSE "NEEDS_APPROVAL"
    [] op.exe \in { "echo", "printf", "cat", "grep", "rg", "find", "ls", "pwd", "which", "node",
                    "npx", "python", "python3", "pytest", "java", "gradle", "mvn" } -> "ALLOW"
    [] OTHER -> "NEEDS_APPROVAL"

-----------------------------------------------------------------------------
(* The preflight of CommandRunner.run.                                      *)

NoTarget == ""

(* Mutant: only the creation of a worktree has a target.                    *)
WorktreeTargetForAdd(args) ==
  IF Len(args) = 6 /\ args[1] = "worktree" /\ args[2] = "add" /\ args[3] = "-b"
  THEN args[5] ELSE NoTarget

(* worktreeTargetFor.                                                       *)
WorktreeTargetFor(args) ==
  IF args = <<>> \/ Head(args) # "worktree" THEN NoTarget
  ELSE IF Len(args) = 6 /\ args[2] = "add" /\ args[3] = "-b" /\ \A i \in 4..6 : args[i] # ""
       THEN args[5]
  ELSE IF Len(args) = 4 /\ args[2] = "remove" /\ args[3] = "--force"
       THEN args[4]
  ELSE NoTarget

(* assertTaskWorktreeTarget: exactly the directory of this task.            *)
OwnTarget(target) == target = Worktree

Preflight(op, context) ==
  \/ ClassifyRisk(op, context) # "ALLOW" \/ op.exe # "git"
  \/ WorktreeTargetFor(op.args) = NoTarget
  \/ OwnTarget(WorktreeTargetFor(op.args))

-----------------------------------------------------------------------------
(* The trusted Git spawner.                                                 *)

(* validateArgs: the argument lists it lets pass in a working directory.    *)
Admitted(cwd) ==
  LET Pushed == { r \in DOMAIN Parsed :
                    /\ Parsed[r].source \in Shas /\ Parsed[r].destination \in Branches
                    /\ ~Parsed[r].force /\ ~Parsed[r].any }
  IN  { <<"rev-parse", "HEAD">>, <<"rev-parse", "--show-toplevel">>,
        <<"rev-parse", "--abbrev-ref", "HEAD">>, <<"branch", "--read">>,
        <<"status", "--read">>, <<"status", "--read", "--untracked-files=all">>,
        <<"diff", "--">>, <<"fetch", "origin">>, <<"fetch", "--prune", "origin">> }
      \cup { <<"show", s>> : s \in Shas } \cup { <<"diff", s, "--">> : s \in Shas }
      \cup { <<"rev-parse", "--verify", s, f>> : s \in Shas, f \in SafePaths }
      \cup { <<"show", "--read", s, "--">> : s \in Shas }
      \cup { <<"diff", "--read", s, "--", f>> : s \in Shas \cup {"HEAD"}, f \in SafePaths }
      \cup { <<"diff", "--read", s, u, "--">> : s, u \in Shas }
      \cup { <<"add", "--", f>> : f \in SafePaths }
      \cup { <<"commit", "--only", "-m", m, "--", f>> :
               m \in ShortMessages, f \in SafePaths }
      \cup { <<"push", "origin", r>> : r \in Pushed }
      \cup { <<"ls-remote", "origin", b>> : b \in Branches }
      \cup (IF cwd # Base THEN {}
            ELSE { <<"worktree", "add", "-b", b, Worktree, base>> :
                     b \in Branches, base \in Shas \cup {Upstream} }
                 \cup { <<"worktree", "remove", "--force", Worktree>>, <<"worktree", "prune">> })

-----------------------------------------------------------------------------
(* The commands of the agent's own adapters.                                *)

(* In the base clone: the worktree port, its rollback included.             *)
AddCommands(base) == { <<"worktree", "add", "-b", b, Worktree, base>> : b \in TaskBranches }
RemoveCommands == { <<"worktree", "remove", "--force", Worktree>> }
PruneCommands == { <<"worktree", "prune">> }

(* In the worktree: its head, ...                                           *)
HeadCommands == { <<"rev-parse", "HEAD">> }

(* ... what a snapshot and the inspection of a commit read, ...             *)
SnapshotCommands ==
  HeadCommands
  \cup { <<"rev-parse", "--show-toplevel">>, <<"status", "--read", "--untracked-files=all">> }
  \cup { <<"show", "--read", s, "--">> : s \in Shas }
  \cup { <<"diff", "--read", s, u, "--">> : s, u \in Shas }

(* ... the source that a reviewer is shown, ...                             *)
ReviewCommands(f) ==
  UNION { { <<"show", s>>, <<"rev-parse", "--verify", s, f>>, <<"diff", "--read", s, "--", f>> } :
            s \in Shas }

(* ... the commit of explicit paths, ...                                    *)
CommitCommands(f, m) ==
  { <<"diff", "--read", "HEAD", "--", f>>, <<"add", "--", f>>,
    <<"commit", "--only", "-m", m, "--", f>> }

(* ... the push of a named commit and its confirmation.                     *)
PushCommands ==
  { <<"push", "origin", r>> : r \in { t \in DOMAIN Parsed :
      /\ Parsed[t].source \in Shas /\ Parsed[t].destination \in TaskBranches
      /\ ~Parsed[t].force } }
ConfirmCommands == { <<"ls-remote", "origin", b>> : b \in TaskBranches }

-----------------------------------------------------------------------------
(* A Git command is carried out: the classifier allows it without an owner, *)
(* the preflight reads the directory that Git takes (the first argument     *)
(* that is neither an option nor the value of -b), and the spawner admits   *)
(* it.                                                                      *)
GitTarget(args) ==
  LET Free == { i \in 3..Len(args) : args[i] \notin Options /\ args[i-1] # "-b" }
  IN  IF Head(args) # "worktree" \/ Free = {} THEN NoTarget
      ELSE args[CHOOSE i \in Free : \A j \in Free : i <= j]

CarriedOut(cwd, args) ==
  /\ ClassifyRisk(Op("git", args), TaskContext) = "ALLOW"
  /\ Preflight(Op("git", args), TaskContext)
  /\ WorktreeTargetFor(args) = GitTarget(args)
  /\ args \in Admitted(cwd)

OwnCommands ==
  AddCommands(Upstream) \cup (UNION { AddCommands(s) : s \in Shas })
  \cup RemoveCommands \cup PruneCommands \cup SnapshotCommands
  \cup PushCommands \cup ConfirmCommands
  \cup (UNION { ReviewCommands(f) : f \in RepoFiles })
  \cup (UNION { CommitCommands(f, m) : f \in RepoFiles, m \in Messages })

CarriedOutIn(cwd) == { args \in OwnCommands : CarriedOut(cwd, args) }

(* ... and a program that is not Git only needs the classifier.             *)
Allowed(op) == ClassifyRisk(op, TaskContext) = "ALLOW"

InBase == CarriedOutIn(Base)
InWorktree == CarriedOutIn(Worktree)

=============================================================================
