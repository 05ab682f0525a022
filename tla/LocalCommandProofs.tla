------------------------ MODULE LocalCommandProofs ------------------------
(***************************************************************************)
(* Proofs about local commands, for any number of calls, repositories,     *)
(* edits and faults: no process works for a call without the lock of its   *)
(* repository, a command completes on a clean HEAD only, worktrees are not *)
(* forgotten, and every command of a call is carried out.                  *)
(***************************************************************************)
EXTENDS LocalCommand, TLAPS

Stages == Leased \cup {"idle", "look", "acquire", "done", "gone"}

LEMMA GotoMoves ==
  ASSUME LockInv, NEW c \in Calls, NEW l \in Stages, Goto(c, l)
  PROVE  /\ pc' \in [Calls -> Stages] /\ pc'[c] = l
         /\ \A d \in Calls : d # c => pc'[d] = pc[d]
BY DEF Goto, LockInv, LockTyped, Stages

LEMMA ChildMoves ==
  ASSUME LockInv, NEW c \in Calls, NEW x \in Processes \cup {"none", "zero", "nonzero"},
         child' = [child EXCEPT ![c] = x]
  PROVE  /\ child' \in [Calls -> Processes \cup {"none", "zero", "nonzero"}] /\ child'[c] = x
         /\ \A d \in Calls : d # c => child'[d] = child[d]
BY DEF LockInv, LockTyped

-----------------------------------------------------------------------------
(* The kinds of steps.                                                     *)

(* A call goes on under its lock, or where it needs none.                   *)
LEMMA GoOnInv ==
  ASSUME LockInv, NEW c \in Calls, UNCHANGED owner,
         pc' \in [Calls -> Stages],
         child' \in [Calls -> Processes \cup {"none", "zero", "nonzero"}],
         \A d \in Calls : d # c => pc'[d] = pc[d] /\ child'[d] = child[d],
         LockedAt(c)'
  PROVE  LockInv'
BY DEF LockInv, LockTyped, LockedAt, Stages

(* A call ends.  Giving its lock back takes it from nobody else, and no     *)
(* process of its own is left.                                              *)
LEMMA EndInv ==
  ASSUME LockInv, NEW c \in Calls, NEW s, Ends(c, s), UNCHANGED owner \/ Frees(c),
         child' \in [Calls -> Processes \cup {"none", "zero", "nonzero"}],
         \A d \in Calls : d # c => child'[d] = child[d],
         child'[c] \notin Processes
  PROVE  LockInv'
<1>1. /\ pc' \in [Calls -> Stages] /\ pc'[c] = "done"
      /\ \A d \in Calls : d # c => pc'[d] = pc[d]
  BY GotoMoves DEF Ends, Stages
<1>2. owner' \in [Repos -> Calls \cup {None}]
  BY DEF LockInv, LockTyped, Frees
<1>3. \A d \in Calls : d # c => (owner[RepoOf[d]] = d => owner'[RepoOf[d]] = d)
  BY CallsHaveRepositories DEF Frees
<1>4. LockedAt(c)'
  BY <1>1 DEF LockedAt, Leased, Prepares, Processes
<1>5. ASSUME NEW d \in Calls, d # c PROVE LockedAt(d)'
  BY <1>1, <1>3, <1>5 DEF LockInv, LockedAt
<1>. QED
  BY <1>1, <1>2, <1>4, <1>5 DEF LockInv, LockTyped, Stages

(* A call without a process of its own that rejects or breaks.              *)
LEMMA RejectInv ==
  ASSUME LockInv, NEW c \in Calls, Rejects(c) \/ Breaks(c),
         child'[c] \notin Processes,
         UNCHANGED child \/ child' = [child EXCEPT ![c] = "none"]
  PROVE  LockInv'
<1>1. PICK s \in {Failed(c), status[c]} : Ends(c, s) /\ (UNCHANGED owner \/ Frees(c))
  BY DEF Rejects, Breaks, Concludes
<1>2. /\ child' \in [Calls -> Processes \cup {"none", "zero", "nonzero"}]
      /\ \A d \in Calls : d # c => child'[d] = child[d]
  BY DEF LockInv, LockTyped
<1>. QED
  BY <1>1, <1>2, EndInv

(* A step that leaves the calls, the locks and the processes alone.         *)
LEMMA AsideInv ==
  ASSUME LockInv, UNCHANGED <<pc, owner, child>>
  PROVE  LockInv'
BY DEF LockInv, LockTyped, LockedAt

(* A call that is at none of the awaits of a process has none.              *)
LEMMA NoProcess ==
  ASSUME LockInv, NEW c \in Calls, pc[c] \notin {"adding", "gone", "executing"}
  PROVE  child[c] \notin Processes
BY DEF LockInv, LockedAt, Processes

(* A call that goes on to a stage without processes.                        *)
LEMMA GoesInv ==
  ASSUME LockInv, NEW c \in Calls, NEW l \in Leased \ {"adding", "executing"},
         pc[c] \in Leased \ {"adding", "executing"}, Goto(c, l), UNCHANGED <<owner, child>>
  PROVE  LockInv'
<1>1. /\ pc' \in [Calls -> Stages] /\ pc'[c] = l
      /\ \A d \in Calls : d # c => pc'[d] = pc[d]
  BY GotoMoves DEF Stages
<1>2. LockedAt(c)'
  BY <1>1 DEF LockInv, LockedAt, Leased, Prepares
<1>. QED
  BY <1>1, <1>2, GoOnInv DEF LockInv, LockTyped

-----------------------------------------------------------------------------
(* The steps of a call.                                                    *)

LEMMA HandlerInv ==
  ASSUME LockInv, NEW c \in Calls, Handler(c)
  PROVE  LockInv'
<1> USE DEF At, Goes
<1>1. CASE Admit(c)
  <2>1. pc[c] = "look" /\ UNCHANGED <<owner, child>>
    BY <1>1 DEF Admit, leaseVars, runVars
  <2>2. PICK l \in {"acquire", "done"} : Goto(c, l)
    BY <1>1 DEF Admit
  <2>3. /\ pc' \in [Calls -> Stages] /\ pc'[c] = l
        /\ \A d \in Calls : d # c => pc'[d] = pc[d]
    BY <2>2, GotoMoves DEF Stages
  <2>4. LockedAt(c)'
    BY <2>1, <2>3 DEF LockInv, LockedAt, Leased, Prepares
  <2>. QED
    BY <2>1, <2>3, <2>4, GoOnInv DEF LockInv, LockTyped
<1>2. CASE Acquire(c)
  <2>1. pc[c] = "acquire" /\ UNCHANGED child
    BY <1>2 DEF Acquire, runVars
  <2>2. child[c] \notin Processes
    BY <2>1, NoProcess
  <2>3. CASE Rejects(c) \/ Breaks(c)
    BY <2>1, <2>2, <2>3, RejectInv
  <2>4. CASE ~(Rejects(c) \/ Breaks(c))
    <3>1. /\ owner[RepoOf[c]] = None /\ owner' = [owner EXCEPT ![RepoOf[c]] = c]
          /\ Goto(c, "status")
      BY <1>2, <2>4 DEF Acquire
    <3>2. /\ pc' \in [Calls -> Stages] /\ pc'[c] = "status"
          /\ \A d \in Calls : d # c => pc'[d] = pc[d]
      BY <3>1, GotoMoves DEF Stages, Leased, Prepares
    <3>3. RepoOf[c] \in Repos /\ owner' \in [Repos -> Calls \cup {None}]
      BY <3>1, CallsHaveRepositories DEF LockInv, LockTyped
    <3>4. owner'[RepoOf[c]] = c /\ \A r \in Repos : r # RepoOf[c] => owner'[r] = owner[r]
      BY <3>1, <3>3 DEF LockInv, LockTyped
    <3>5. \A d \in Calls : d # c => (owner[RepoOf[d]] = d => owner'[RepoOf[d]] = d)
      BY <3>1, <3>4, CallsHaveRepositories
    <3>6. LockedAt(c)'
      BY <2>1, <2>2, <3>2, <3>4 DEF LockedAt, Processes
    <3>7. ASSUME NEW d \in Calls, d # c PROVE LockedAt(d)'
      BY <2>1, <3>2, <3>5, <3>7 DEF LockInv, LockedAt
    <3>. QED
      BY <2>1, <3>2, <3>3, <3>6, <3>7 DEF LockInv, LockTyped, Stages
  <2>. QED
    BY <2>3, <2>4
<1>3. CASE LookStatus(c, "status", "head") \/ LookHead(c) \/ LookStatus(c, "status2", "again")
           \/ LookAgain(c) \/ Prune(c)
  <2>1. /\ pc[c] \in {"status", "head", "status2", "again", "prune"} /\ UNCHANGED child
        /\ \/ Rejects(c)
           \/ \E l \in {"head", "map", "again", "leave"} : Goto(c, l) /\ UNCHANGED owner
    BY <1>3 DEF LookStatus, LookHead, LookAgain, Prune, leaseVars, runVars
  <2>2. child[c] \notin Processes
    BY <2>1, NoProcess
  <2>. QED
    BY <2>1, <2>2, RejectInv, GoesInv DEF Leased, Prepares
<1>4. CASE SpawnAdd(c)
  <2>1. pc[c] = "map"
    BY <1>4 DEF SpawnAdd
  <2>2. child[c] \notin Processes
    BY <2>1, NoProcess
  <2>3. CASE UNCHANGED child /\ (Rejects(c) \/ Breaks(c))
    BY <2>2, <2>3, RejectInv
  <2>4. CASE Goto(c, "adding") /\ child' = [child EXCEPT ![c] = "git"] /\ UNCHANGED owner
    <3>1. /\ pc' \in [Calls -> Stages] /\ pc'[c] = "adding"
          /\ \A d \in Calls : d # c => pc'[d] = pc[d]
      BY <2>4, GotoMoves DEF Stages, Leased, Prepares
    <3>2. /\ child' \in [Calls -> Processes \cup {"none", "zero", "nonzero"}]
          /\ child'[c] = "git" /\ \A d \in Calls : d # c => child'[d] = child[d]
      BY <2>4, ChildMoves DEF Processes
    <3>3. LockedAt(c)'
      BY <2>1, <2>4, <3>1, <3>2 DEF LockInv, LockedAt, Leased, Prepares
    <3>. QED
      BY <2>4, <3>1, <3>2, <3>3, GoOnInv
  <2>. QED
    BY <1>4, <2>3, <2>4 DEF SpawnAdd, leaseVars
<1>5. CASE AddSettles(c)
  <2>1. child' = [child EXCEPT ![c] = "none"] /\ pc[c] = "adding"
    BY <1>5 DEF AddSettles
  <2>2. /\ child' \in [Calls -> Processes \cup {"none", "zero", "nonzero"}]
        /\ child'[c] = "none" /\ \A d \in Calls : d # c => child'[d] = child[d]
    BY <2>1, ChildMoves
  <2>3. CASE Rejects(c)
    BY <2>1, <2>2, <2>3, RejectInv DEF Processes
  <2>4. CASE Goto(c, "parse") /\ UNCHANGED owner
    <3>1. /\ pc' \in [Calls -> Stages] /\ pc'[c] = "parse"
          /\ \A d \in Calls : d # c => pc'[d] = pc[d]
      BY <2>4, GotoMoves DEF Stages, Leased, Prepares
    <3>2. LockedAt(c)'
      BY <2>1, <2>2, <2>4, <3>1 DEF LockInv, LockedAt, Leased, Prepares
    <3>. QED
      BY <2>2, <2>4, <3>1, <3>2, GoOnInv
  <2>. QED
    BY <1>5, <2>3, <2>4 DEF AddSettles, leaseVars
<1>6. CASE Record(c) \/ Remove(c)
  <2>1. /\ pc[c] \in {"parse", "remove"} /\ UNCHANGED child
        /\ \/ Rejects(c) \/ Breaks(c)
           \/ \E l \in {"status2", "remove", "prune"} : Goto(c, l) /\ UNCHANGED owner
    BY <1>6 DEF Record, Remove, leaseVars, runVars
  <2>2. child[c] \notin Processes
    BY <2>1, NoProcess
  <2>. QED
    BY <2>1, <2>2, RejectInv, GoesInv DEF Leased, Prepares
<1>7. CASE StartCommand(c)
  <2>1. pc[c] = "leave"
    BY <1>7 DEF StartCommand
  <2>2. child[c] \notin Processes
    BY <2>1, NoProcess
  <2>3. CASE UNCHANGED child /\ Rejects(c)
    BY <2>2, <2>3, RejectInv
  <2>4. CASE Goto(c, "executing") /\ child' = [child EXCEPT ![c] = "command"]
             /\ UNCHANGED owner
    <3>1. /\ pc' \in [Calls -> Stages] /\ pc'[c] = "executing"
          /\ \A d \in Calls : d # c => pc'[d] = pc[d]
      BY <2>4, GotoMoves DEF Stages, Leased
    <3>2. /\ child' \in [Calls -> Processes \cup {"none", "zero", "nonzero"}]
          /\ child'[c] = "command" /\ \A d \in Calls : d # c => child'[d] = child[d]
      BY <2>4, ChildMoves DEF Processes
    <3>3. LockedAt(c)'
      BY <2>1, <2>4, <3>1, <3>2 DEF LockInv, LockedAt, Leased
    <3>. QED
      BY <2>4, <3>1, <3>2, <3>3, GoOnInv
  <2>. QED
    BY <1>7, <2>3, <2>4 DEF StartCommand, leaseVars, runVars
<1>8. CASE Kill(c)
  <2>1. /\ pc[c] = "executing" /\ UNCHANGED <<pc, owner>>
        /\ child' = [child EXCEPT ![c] = "dying"]
    BY <1>8 DEF Kill, taskVars, leaseVars
  <2>2. /\ child' \in [Calls -> Processes \cup {"none", "zero", "nonzero"}]
        /\ child'[c] = "dying" /\ \A d \in Calls : d # c => child'[d] = child[d]
    BY <2>1, ChildMoves DEF Processes
  <2>3. LockedAt(c)'
    BY <2>1, <2>2 DEF LockInv, LockedAt
  <2>. QED
    BY <2>1, <2>2, <2>3, GoOnInv DEF LockInv, LockTyped, Stages
<1>9. CASE KilledCloses(c) \/ Judge(c)
  <2>1. child' = [child EXCEPT ![c] = "none"]
    BY <1>9 DEF KilledCloses, Judge
  <2>2. /\ child' \in [Calls -> Processes \cup {"none", "zero", "nonzero"}]
        /\ child'[c] = "none" /\ \A d \in Calls : d # c => child'[d] = child[d]
    BY <2>1, ChildMoves
  <2>3. CASE Rejects(c) \/ Breaks(c)
    BY <2>1, <2>2, <2>3, RejectInv DEF Processes
  <2>4. CASE Concludes(c, "COMPLETED")
    BY <2>2, <2>4, EndInv DEF Concludes, Processes
  <2>. QED
    BY <1>9, <2>3, <2>4 DEF KilledCloses, Judge
<1>. QED
  BY <1>1, <1>2, <1>3, <1>4, <1>5, <1>6, <1>7, <1>8, <1>9 DEF Handler

-----------------------------------------------------------------------------
(* What happens around the calls.                                          *)

LEMMA OthersInv ==
  ASSUME LockInv, Others
  PROVE  LockInv'
<1>1. ASSUME NEW c \in Calls, Call(c) PROVE LockInv'
  <2>1. pc[c] = "idle" /\ Goto(c, "look") /\ UNCHANGED <<owner, child>>
    BY <1>1 DEF Call, leaseVars, runVars
  <2>2. /\ pc' \in [Calls -> Stages] /\ pc'[c] = "look"
        /\ \A d \in Calls : d # c => pc'[d] = pc[d]
    BY <2>1, GotoMoves DEF Stages
  <2>3. LockedAt(c)'
    BY <2>1, <2>2 DEF LockInv, LockedAt, Leased, Prepares
  <2>. QED
    BY <2>1, <2>2, <2>3, GoOnInv DEF LockInv, LockTyped
<1>2. ASSUME NEW c \in Calls, OrphanEnds(c) PROVE LockInv'
  <2>1. child' = [child EXCEPT ![c] = "none"] /\ UNCHANGED <<pc, owner>>
    BY <1>2 DEF OrphanEnds, taskVars, leaseVars
  <2>2. /\ child' \in [Calls -> Processes \cup {"none", "zero", "nonzero"}]
        /\ child'[c] = "none" /\ \A d \in Calls : d # c => child'[d] = child[d]
    BY <2>1, ChildMoves
  <2>3. LockedAt(c)'
    BY <2>1, <2>2 DEF LockInv, LockedAt
  <2>. QED
    BY <2>1, <2>2, <2>3, GoOnInv DEF LockInv, LockTyped, Stages
<1>3. ASSUME NEW c \in Calls, CommandExits(c) PROVE LockInv'
  <2>1. pc[c] = "executing" /\ Goto(c, "capture") /\ UNCHANGED owner
    BY <1>3 DEF CommandExits, At, leaseVars
  <2>2. PICK code \in {"zero", "nonzero"} : child' = [child EXCEPT ![c] = code]
    BY <1>3 DEF CommandExits
  <2>3. /\ child' \in [Calls -> Processes \cup {"none", "zero", "nonzero"}]
        /\ child'[c] = code /\ \A d \in Calls : d # c => child'[d] = child[d]
    BY <2>2, ChildMoves
  <2>4. /\ pc' \in [Calls -> Stages] /\ pc'[c] = "capture"
        /\ \A d \in Calls : d # c => pc'[d] = pc[d]
    BY <2>1, GotoMoves DEF Stages, Leased
  <2>5. LockedAt(c)'
    BY <2>1, <2>3, <2>4 DEF LockInv, LockedAt, Leased
  <2>. QED
    BY <2>1, <2>3, <2>4, <2>5, GoOnInv
<1>4. ASSUME NEW c \in Calls, GitAdds(c) \/ Beat(c) \/ BeatFails(c) \/ Lapse(c) PROVE LockInv'
  BY <1>4, AsideInv DEF GitAdds, Beat, BeatFails, Lapse, taskVars, leaseVars, runVars
<1>5. CASE (\E r \in Repos : Change(r)) \/ Close \/ Closed \/ Restart
  BY <1>5, AsideInv DEF Change, Close, Closed, Restart, taskVars, leaseVars, runVars
<1>6. CASE Crash
  <2>1. UNCHANGED owner
    BY <1>6 DEF Crash
  <2>2. /\ pc' \in [Calls -> Stages]
        /\ \A c \in Calls : pc'[c] = "gone" \/ (pc'[c] = pc[c] /\ ~Open(c))
    BY <1>6 DEF Crash, LockInv, LockTyped, Stages
  <2>3. /\ child' \in [Calls -> Processes \cup {"none", "zero", "nonzero"}]
        /\ \A c \in Calls : child'[c] = "none" \/ (child'[c] = "git" /\ child[c] = "git")
    BY <1>6 DEF Crash, LockInv, LockTyped, Processes
  <2>4. ASSUME NEW c \in Calls PROVE LockedAt(c)'
    BY <2>1, <2>2, <2>3 DEF LockInv, LockedAt, Open, Ended, Leased, Prepares
  <2>. QED
    BY <2>1, <2>2, <2>3, <2>4 DEF LockInv, LockTyped, Stages
<1>. QED
  BY <1>1, <1>2, <1>3, <1>4, <1>5, <1>6 DEF Others

-----------------------------------------------------------------------------
(* What a call has prepared and where its worktree is: the kinds of steps.  *)

(* A call other than c keeps all that the invariant says of it.             *)
Keeps(d) ==
  /\ UNCHANGED <<pc[d], status[d], seen[d], tree[d], row[d], run[d], ran[d], calm[d], pure[d]>>
  /\ d \in spoiled => d \in spoiled'

LEMMA KeptPart ==
  ASSUME NEW d \in Calls, PreparedAt(d), KnownAt(d), Keeps(d), UNCHANGED base
  PROVE  PreparedAt(d)' /\ KnownAt(d)'
<1>1. PreparedAt(d)'
  BY DEF Keeps, PreparedAt, Repo, Unedited
<1>2. KnownAt(d)'
  BY DEF Keeps, KnownAt
<1>. QED
  BY <1>1, <1>2

LEMMA StepOfCall ==
  ASSUME CallInv, LockInv', CallTyped', NEW c \in Calls, UNCHANGED base,
         \A d \in Calls : d # c => Keeps(d),
         PreparedAt(c)', KnownAt(c)'
  PROVE  CallInv'
<1>1. ASSUME NEW d \in Calls PROVE PreparedAt(d)' /\ KnownAt(d)'
  BY KeptPart DEF CallInv
<1>. QED
  BY <1>1 DEF CallInv

(* A call ends without completing, its worktree known or itself spoiled.    *)
LEMMA EndOfCall ==
  ASSUME CallInv, LockInv', NEW c \in Calls, NEW s \in (Statuses \cup {None}) \ {"COMPLETED"},
         Ends(c, s), CallTyped', UNCHANGED base,
         \A d \in Calls : d # c =>
           /\ UNCHANGED <<seen[d], tree[d], row[d], run[d], ran[d], calm[d], pure[d]>>
           /\ d \in spoiled => d \in spoiled',
         tree'[c] = None \/ row'[c] # None \/ c \in spoiled'
  PROVE  CallInv'
<1>1. /\ pc'[c] = "done" /\ status'[c] = s
      /\ \A d \in Calls : d # c => pc'[d] = pc[d] /\ status'[d] = status[d]
  BY DEF Ends, Goto, CallInv, LockInv, LockTyped, CallTyped
<1>2. PreparedAt(c)'
  BY <1>1 DEF PreparedAt, Prepares
<1>3. KnownAt(c)'
  BY <1>1 DEF KnownAt
<1>4. \A d \in Calls : d # c => Keeps(d)
  BY <1>1 DEF Keeps
<1>. QED
  BY <1>2, <1>3, <1>4, StepOfCall

(* A call that rejects or breaks.                                           *)
LEMMA RejectOfCall ==
  ASSUME CallInv, LockInv', NEW c \in Calls, pc[c] # "done", Rejects(c) \/ Breaks(c),
         UNCHANGED <<base, seen, tree, row, ran, pure>>,
         run' \in [Calls -> {"RUNNING", "SUCCEEDED", "FAILED", None}],
         calm' \in [Calls -> SUBSET Files],
         \A d \in Calls : d # c => run'[d] = run[d] /\ calm'[d] = calm[d],
         spoiled \subseteq spoiled',
         tree[c] = None \/ row[c] # None \/ c \in spoiled'
  PROVE  CallInv'
<1>1. PICK s \in {Failed(c), status[c]} : Ends(c, s)
  BY DEF Rejects, Breaks, Concludes
<1>2. s \in (Statuses \cup {None}) \ {"COMPLETED"}
  BY DEF Failed, CallInv, CallTyped, KnownAt, Statuses
<1>3. status' \in [Calls -> Statuses \cup {None}]
  BY <1>1, <1>2 DEF Ends, CallInv, CallTyped
<1>4. CallTyped'
  BY <1>3 DEF CallInv, CallTyped
<1>. QED
  BY <1>1, <1>2, <1>4, EndOfCall

-----------------------------------------------------------------------------
(* The steps of a call.                                                     *)

LEMMA HandlerCallInv ==
  ASSUME CallInv, LockInv', NEW c \in Calls, Handler(c)
  PROVE  CallInv'
<1> USE DEF At, Goes
<1>0. PreparedAt(c) /\ KnownAt(c) /\ LockedAt(c)
  BY DEF CallInv, LockInv
<1>1. CASE Admit(c)
  <2>1. /\ pc[c] = "look" /\ calm' = [calm EXCEPT ![c] = {}]
        /\ UNCHANGED <<seen, tree, row, child, run, ran, base, pure, spoiled>>
    BY <1>1 DEF Admit, Looked, treeVars, runVars
  <2>2. PICK l \in {"acquire", "done"} : pc' = [pc EXCEPT ![c] = l]
    BY <1>1 DEF Admit, Goto
  <2>3. \/ UNCHANGED status
        \/ status' = [status EXCEPT ![c] = "WAITING_REPO_LOCK"]
    BY <1>1 DEF Admit
  <2>4. /\ status' \in [Calls -> Statuses \cup {None}] /\ status'[c] # "COMPLETED"
        /\ \A d \in Calls : d # c => status'[d] = status[d]
    BY <1>0, <2>1, <2>3 DEF CallInv, CallTyped, KnownAt, Statuses
  <2>5. CallTyped'
    BY <2>1, <2>4 DEF CallInv, CallTyped
  <2>6. pc'[c] = l /\ \A d \in Calls : d # c => pc'[d] = pc[d]
    BY <2>2 DEF CallInv, LockInv, LockTyped
  <2>7. \A d \in Calls : d # c => Keeps(d)
    BY <2>1, <2>4, <2>6 DEF Keeps, CallInv, CallTyped
  <2>8. PreparedAt(c)' /\ KnownAt(c)'
    BY <1>0, <2>1, <2>4, <2>6 DEF PreparedAt, KnownAt, Prepares
  <2>. QED
    BY <2>1, <2>5, <2>7, <2>8, StepOfCall
<1>2. CASE Acquire(c)
  <2>1. /\ pc[c] = "acquire"
        /\ UNCHANGED <<seen, tree, row, child, run, ran, base, spoiled>>
    BY <1>2 DEF Acquire, treeVars, runVars
  <2>2. CASE (Rejects(c) \/ Breaks(c)) /\ UNCHANGED <<calm, pure>>
    BY <1>0, <2>1, <2>2, RejectOfCall DEF CallInv, CallTyped, KnownAt
  <2>3. CASE ~((Rejects(c) \/ Breaks(c)) /\ UNCHANGED <<calm, pure>>)
    <3>1. /\ pc' = [pc EXCEPT ![c] = "status"]
          /\ status' = [status EXCEPT ![c] = "PREPARING"]
          /\ calm' = [calm EXCEPT ![c] = Unedited(RepoOf[c])]
          /\ pure' = [pure EXCEPT ![c] = {Repo(c).head} \X Unedited(RepoOf[c])]
      BY <1>2, <2>3 DEF Acquire, Goto, Copies
    <3>2. Repo(c).head \in Nat /\ Unedited(RepoOf[c]) \in SUBSET Files
      BY CallsHaveRepositories DEF CallInv, CallTyped, Repo, Unedited
    <3>3. CallTyped'
      BY <2>1, <3>1, <3>2 DEF CallInv, CallTyped, Statuses
    <3>4. /\ pc'[c] = "status" /\ status'[c] = "PREPARING"
          /\ pure'[c] = {Repo(c).head} \X Unedited(RepoOf[c])
      BY <3>1 DEF CallInv, CallTyped, LockInv, LockTyped
    <3>5. \A d \in Calls : d # c => Keeps(d)
      BY <2>1, <3>1 DEF Keeps, CallInv, CallTyped, LockInv, LockTyped
    <3>6. PreparedAt(c)'
      BY <2>1, <3>4 DEF PreparedAt, Repo, Unedited
    <3>7. KnownAt(c)'
      BY <1>0, <2>1, <3>4 DEF KnownAt
    <3>. QED
      BY <2>1, <3>3, <3>5, <3>6, <3>7, StepOfCall
  <2>. QED
    BY <2>2, <2>3
<1>3. CASE LookStatus(c, "status", "head") \/ LookStatus(c, "status2", "again")
  <2>1. /\ pc[c] \in {"status", "status2"} /\ calm' = [calm EXCEPT ![c] = {}]
        /\ UNCHANGED <<seen, tree, row, child, run, ran, base, pure, spoiled>>
    BY <1>3 DEF LookStatus, Looked, treeVars, runVars
  <2>2. /\ calm' \in [Calls -> SUBSET Files]
        /\ \A d \in Calls : d # c => calm'[d] = calm[d]
    BY <2>1 DEF CallInv, CallTyped
  <2>3. CASE Rejects(c)
    BY <1>0, <2>1, <2>2, <2>3, RejectOfCall DEF CallInv, CallTyped, KnownAt
  <2>4. CASE ~Rejects(c)
    <3>1. /\ UNCHANGED status /\ calm[c] = Files
          /\ \/ pc[c] = "status" /\ pc' = [pc EXCEPT ![c] = "head"]
             \/ pc[c] = "status2" /\ pc' = [pc EXCEPT ![c] = "again"]
      BY <1>3, <2>4 DEF LookStatus, Clean, Goto
    <3>2. /\ \/ pc[c] = "status" /\ pc'[c] = "head"
             \/ pc[c] = "status2" /\ pc'[c] = "again"
          /\ \A d \in Calls : d # c => pc'[d] = pc[d]
      BY <3>1 DEF CallInv, LockInv, LockTyped
    <3>3. CallTyped'
      BY <2>1, <2>2, <3>1 DEF CallInv, CallTyped
    <3>4. \A d \in Calls : d # c => Keeps(d)
      BY <2>1, <2>2, <3>1, <3>2 DEF Keeps
    <3>5. PreparedAt(c)'
      BY <1>0, <2>1, <3>1, <3>2 DEF PreparedAt, Prepares, Repo, Unedited
    <3>6. KnownAt(c)'
      BY <1>0, <2>1, <3>1, <3>2 DEF KnownAt
    <3>. QED
      BY <2>1, <3>3, <3>4, <3>5, <3>6, StepOfCall
  <2>. QED
    BY <2>3, <2>4
<1>4. CASE LookHead(c)
  <2>1. /\ pc[c] = "head" /\ pc' = [pc EXCEPT ![c] = "map"]
        /\ seen' = [seen EXCEPT ![c] = Repo(c).head]
        /\ UNCHANGED <<status, tree, row, child, run, ran, base, calm, pure, spoiled>>
    BY <1>4 DEF LookHead, Goto, runVars, worldVars
  <2>2. Repo(c).head \in Nat
    BY CallsHaveRepositories DEF CallInv, CallTyped, Repo
  <2>3. CallTyped'
    BY <2>1, <2>2 DEF CallInv, CallTyped
  <2>4. /\ pc'[c] = "map" /\ seen'[c] = Repo(c).head
        /\ \A d \in Calls : d # c => pc'[d] = pc[d] /\ seen'[d] = seen[d]
    BY <2>1 DEF CallInv, CallTyped, LockInv, LockTyped
  <2>5. \A d \in Calls : d # c => Keeps(d)
    BY <2>1, <2>4 DEF Keeps
  <2>6. PreparedAt(c)'
    BY <1>0, <2>1, <2>2, <2>4 DEF PreparedAt, Prepares, Repo, Unedited
  <2>7. KnownAt(c)'
    BY <1>0, <2>1, <2>4 DEF KnownAt
  <2>. QED
    BY <2>1, <2>3, <2>5, <2>6, <2>7, StepOfCall
<1>5. CASE SpawnAdd(c)
  <2>1. /\ pc[c] = "map"
        /\ UNCHANGED <<seen, tree, row, run, ran, base, calm, pure, spoiled>>
    BY <1>5 DEF SpawnAdd, treeVars, worldVars
  <2>2. CASE Rejects(c) \/ Breaks(c)
    BY <1>0, <2>1, <2>2, RejectOfCall DEF CallInv, CallTyped, KnownAt
  <2>3. CASE Goto(c, "adding") /\ UNCHANGED status
    <3>1. pc'[c] = "adding" /\ \A d \in Calls : d # c => pc'[d] = pc[d]
      BY <2>3 DEF Goto, CallInv, LockInv, LockTyped
    <3>2. CallTyped'
      BY <2>1, <2>3 DEF CallInv, CallTyped
    <3>3. \A d \in Calls : d # c => Keeps(d)
      BY <2>1, <2>3, <3>1 DEF Keeps
    <3>4. PreparedAt(c)'
      BY <1>0, <2>1, <3>1 DEF PreparedAt, Prepares, Repo, Unedited
    <3>5. KnownAt(c)'
      BY <1>0, <2>1, <2>3, <3>1 DEF KnownAt
    <3>. QED
      BY <2>1, <3>2, <3>3, <3>4, <3>5, StepOfCall
  <2>. QED
    BY <1>5, <2>2, <2>3 DEF SpawnAdd
<1>6. CASE AddSettles(c)
  <2>1. UNCHANGED <<seen, tree, row, run, ran, base, calm, pure>>
    BY <1>6 DEF AddSettles, treeVars, worldVars
  <2>2. pc[c] = "adding"
    BY <1>6 DEF AddSettles
  <2>3. CASE Rejects(c) /\ Spoil(c)
    BY <2>1, <2>2, <2>3, RejectOfCall DEF CallInv, CallTyped, Spoil
  <2>4. CASE Goto(c, "parse") /\ UNCHANGED <<status, spoiled>> /\ tree[c] # None
    <3>1. pc'[c] = "parse" /\ \A d \in Calls : d # c => pc'[d] = pc[d]
      BY <2>4 DEF Goto, CallInv, LockInv, LockTyped
    <3>2. CallTyped'
      BY <2>1, <2>4 DEF CallInv, CallTyped
    <3>3. \A d \in Calls : d # c => Keeps(d)
      BY <2>1, <2>4, <3>1 DEF Keeps
    <3>4. PreparedAt(c)'
      BY <1>0, <2>1, <2>2, <3>1 DEF PreparedAt, Prepares, Repo, Unedited
    <3>5. KnownAt(c)'
      BY <1>0, <2>1, <2>2, <2>4, <3>1 DEF KnownAt
    <3>. QED
      BY <2>1, <3>2, <3>3, <3>4, <3>5, StepOfCall
  <2>. QED
    BY <1>6, <2>3, <2>4 DEF AddSettles
<1>7. CASE Record(c)
  <2>1. /\ pc[c] = "parse"
        /\ UNCHANGED <<seen, tree, child, run, ran, base, pure>>
    BY <1>7 DEF Record, runVars
  <2>2. CASE (Rejects(c) \/ Breaks(c)) /\ Spoil(c) /\ UNCHANGED <<row, calm>>
    BY <2>1, <2>2, RejectOfCall DEF CallInv, CallTyped, Spoil
  <2>3. CASE /\ pc' = [pc EXCEPT ![c] = "status2"] /\ row' = [row EXCEPT ![c] = tree[c]]
             /\ Copies(c) /\ UNCHANGED <<status, spoiled>>
    <3>1. Unedited(RepoOf[c]) \in SUBSET Files
      BY DEF Unedited
    <3>2. CallTyped'
      BY <2>1, <2>3, <3>1 DEF CallInv, CallTyped, Copies
    <3>3. /\ pc'[c] = "status2" /\ row'[c] = tree[c] /\ calm'[c] = Unedited(RepoOf[c])
          /\ \A d \in Calls : d # c => pc'[d] = pc[d] /\ row'[d] = row[d] /\ calm'[d] = calm[d]
      BY <2>3 DEF Copies, CallInv, CallTyped, LockInv, LockTyped
    <3>4. \A d \in Calls : d # c => Keeps(d)
      BY <2>1, <2>3, <3>3 DEF Keeps
    <3>5. PreparedAt(c)'
      BY <1>0, <2>1, <3>3 DEF PreparedAt, Prepares, Repo, Unedited
    <3>6. KnownAt(c)'
      BY <1>0, <2>1, <2>3, <3>3 DEF KnownAt
    <3>. QED
      BY <2>1, <3>2, <3>4, <3>5, <3>6, StepOfCall
  <2>4. CASE Goto(c, "remove") /\ UNCHANGED <<status, row, calm, spoiled>>
    <3>1. pc'[c] = "remove" /\ \A d \in Calls : d # c => pc'[d] = pc[d]
      BY <2>4 DEF Goto, CallInv, LockInv, LockTyped
    <3>2. CallTyped'
      BY <2>1, <2>4 DEF CallInv, CallTyped
    <3>3. \A d \in Calls : d # c => Keeps(d)
      BY <2>1, <2>4, <3>1 DEF Keeps
    <3>4. PreparedAt(c)' /\ KnownAt(c)'
      BY <1>0, <2>1, <2>4, <3>1 DEF PreparedAt, KnownAt, Prepares
    <3>. QED
      BY <2>1, <3>2, <3>3, <3>4, StepOfCall
  <2>. QED
    BY <1>7, <2>2, <2>3, <2>4 DEF Record, Goto
<1>8. CASE Remove(c)
  <2>1. /\ pc[c] = "remove" /\ pc' = [pc EXCEPT ![c] = "prune"]
        /\ UNCHANGED <<status, seen, row, child, run, ran, base, calm, pure>>
    BY <1>8 DEF Remove, Goto, runVars, worldVars
  <2>2. \/ tree' = [tree EXCEPT ![c] = None] /\ UNCHANGED spoiled
        \/ UNCHANGED tree /\ spoiled' = spoiled \cup {c}
    BY <1>8 DEF Remove, Spoil
  <2>3. CallTyped'
    BY <2>1, <2>2 DEF CallInv, CallTyped
  <2>4. /\ pc'[c] = "prune" /\ (tree'[c] = None \/ c \in spoiled')
        /\ \A d \in Calls : d # c => /\ pc'[d] = pc[d] /\ tree'[d] = tree[d]
                                     /\ d \in spoiled => d \in spoiled'
    BY <2>1, <2>2 DEF CallInv, CallTyped, LockInv, LockTyped
  <2>5. \A d \in Calls : d # c => Keeps(d)
    BY <2>1, <2>4 DEF Keeps
  <2>6. PreparedAt(c)' /\ KnownAt(c)'
    BY <1>0, <2>1, <2>4 DEF PreparedAt, KnownAt, Prepares
  <2>. QED
    BY <2>1, <2>3, <2>5, <2>6, StepOfCall
<1>9. CASE Prune(c)
  BY <1>0, <1>9, RejectOfCall
     DEF Prune, CallInv, CallTyped, KnownAt, treeVars, runVars, worldVars
<1>10. CASE LookAgain(c)
  <2>1. /\ pc[c] = "again"
        /\ UNCHANGED <<seen, tree, row, child, run, ran, base, calm, pure, spoiled>>
    BY <1>10 DEF LookAgain, treeVars, runVars, worldVars
  <2>2. CASE Rejects(c)
    BY <1>0, <2>1, <2>2, RejectOfCall DEF CallInv, CallTyped, KnownAt
  <2>3. CASE /\ row[c] = seen[c] /\ Repo(c).head = seen[c]
             /\ Goto(c, "leave") /\ UNCHANGED status
    <3>1. pc'[c] = "leave" /\ \A d \in Calls : d # c => pc'[d] = pc[d]
      BY <2>3 DEF Goto, CallInv, LockInv, LockTyped
    <3>2. CallTyped'
      BY <2>1, <2>3 DEF CallInv, CallTyped
    <3>3. \A d \in Calls : d # c => Keeps(d)
      BY <2>1, <2>3, <3>1 DEF Keeps
    <3>4. PreparedAt(c)'
      BY <1>0, <2>1, <2>3, <3>1 DEF PreparedAt, Prepares
    <3>5. KnownAt(c)'
      BY <1>0, <2>1, <2>3, <3>1 DEF KnownAt
    <3>. QED
      BY <2>1, <3>2, <3>3, <3>4, <3>5, StepOfCall
  <2>. QED
    BY <1>10, <2>2, <2>3 DEF LookAgain
<1>11. CASE StartCommand(c)
  <2>1. pc[c] = "leave" /\ UNCHANGED <<seen, tree, row, base, calm, pure, spoiled>>
    BY <1>11 DEF StartCommand, treeVars, worldVars
  <2>2. CASE Rejects(c) /\ UNCHANGED runVars
    BY <1>0, <2>1, <2>2, RejectOfCall DEF CallInv, CallTyped, KnownAt, runVars
  <2>3. CASE ~(Rejects(c) /\ UNCHANGED runVars)
    <3>1. /\ pc' = [pc EXCEPT ![c] = "executing"]
          /\ status' = [status EXCEPT ![c] = "RUNNING"]
          /\ run' = [run EXCEPT ![c] = "RUNNING"] /\ ran' = [ran EXCEPT ![c] = tree[c]]
      BY <1>11, <2>3 DEF StartCommand, Goto, RunStarts
    <3>2. CallTyped'
      BY <2>1, <3>1 DEF CallInv, CallTyped, Statuses
    <3>3. /\ pc'[c] = "executing" /\ status'[c] = "RUNNING" /\ ran'[c] = tree[c]
          /\ \A d \in Calls : d # c => /\ pc'[d] = pc[d] /\ status'[d] = status[d]
                                       /\ run'[d] = run[d] /\ ran'[d] = ran[d]
      BY <3>1 DEF CallInv, CallTyped, LockInv, LockTyped
    <3>4. \A d \in Calls : d # c => Keeps(d)
      BY <2>1, <3>3 DEF Keeps
    <3>5. PreparedAt(c)'
      BY <1>0, <2>1, <3>3 DEF PreparedAt, Prepares
    <3>6. KnownAt(c)'
      BY <1>0, <2>1, <3>3 DEF KnownAt
    <3>. QED
      BY <2>1, <3>2, <3>4, <3>5, <3>6, StepOfCall
  <2>. QED
    BY <2>2, <2>3
<1>12. CASE Kill(c)
  <2>1. UNCHANGED <<pc, status, seen, tree, row, run, ran, base, calm, pure, spoiled>>
    BY <1>12 DEF Kill, taskVars, treeVars, worldVars
  <2>2. CallTyped'
    BY <2>1 DEF CallInv, CallTyped
  <2>3. \A d \in Calls : Keeps(d)
    BY <2>1 DEF Keeps
  <2>. QED
    BY <1>0, <2>1, <2>2, <2>3, KeptPart, StepOfCall
<1>13. CASE KilledCloses(c)
  <2>1. /\ pc[c] = "executing" /\ (Rejects(c) \/ Breaks(c))
        /\ run' = [run EXCEPT ![c] = "FAILED"] \/ UNCHANGED run
        /\ UNCHANGED <<seen, tree, row, ran, base, calm, pure, spoiled>>
    BY <1>13 DEF KilledCloses, RunEnds, treeVars, worldVars
  <2>2. /\ run' \in [Calls -> {"RUNNING", "SUCCEEDED", "FAILED", None}]
        /\ \A d \in Calls : d # c => run'[d] = run[d]
    BY <2>1 DEF CallInv, CallTyped
  <2>3. /\ pc[c] # "done" /\ row[c] # None /\ calm' \in [Calls -> SUBSET Files]
        /\ \A d \in Calls : calm'[d] = calm[d]
    BY <1>0, <2>1 DEF CallInv, CallTyped, KnownAt
  <2>. QED
    BY <2>1, <2>2, <2>3, RejectOfCall
<1>14. CASE Judge(c)
  <2>1. /\ pc[c] = "capture"
        /\ UNCHANGED <<seen, tree, row, ran, base, calm, pure, spoiled>>
    BY <1>14 DEF Judge, treeVars, worldVars
  <2>0. run[c] \in {"RUNNING", "SUCCEEDED", "FAILED", None} /\ run = [run EXCEPT ![c] = run[c]]
    BY DEF CallInv, CallTyped
  <2>2. PICK e \in {"RUNNING", "SUCCEEDED", "FAILED", None} :
          /\ run' = [run EXCEPT ![c] = e]
          /\ \/ Rejects(c) \/ Breaks(c)
             \/ e = "SUCCEEDED" /\ Concludes(c, "COMPLETED")
    <3>1. CASE UNCHANGED run /\ Breaks(c)
      BY <2>0, <3>1
    <3>2. CASE \E e \in {"SUCCEEDED", "FAILED"} :
                 /\ run' = [run EXCEPT ![c] = e]
                 /\ \/ Rejects(c) \/ Breaks(c)
                    \/ e = "SUCCEEDED" /\ Concludes(c, "COMPLETED")
      BY <3>2
    <3>. QED
      BY <1>14, <3>1, <3>2 DEF Judge, RunEnds
  <2>3. /\ run' \in [Calls -> {"RUNNING", "SUCCEEDED", "FAILED", None}] /\ run'[c] = e
        /\ \A d \in Calls : d # c => run'[d] = run[d]
    BY <2>2 DEF CallInv, CallTyped
  <2>4. CASE Rejects(c) \/ Breaks(c)
    BY <1>0, <2>1, <2>3, <2>4, RejectOfCall DEF CallInv, CallTyped, KnownAt
  <2>5. CASE e = "SUCCEEDED" /\ Concludes(c, "COMPLETED")
    <3>1. /\ pc' = [pc EXCEPT ![c] = "done"]
          /\ status' = [status EXCEPT ![c] = "COMPLETED"]
      BY <2>5 DEF Concludes, Ends, Goto
    <3>2. CallTyped'
      BY <2>1, <2>3, <3>1 DEF CallInv, CallTyped, Statuses
    <3>3. /\ pc'[c] = "done"
          /\ \A d \in Calls : d # c => pc'[d] = pc[d] /\ status'[d] = status[d]
      BY <3>1 DEF CallInv, CallTyped, LockInv, LockTyped
    <3>4. \A d \in Calls : d # c => Keeps(d)
      BY <2>1, <2>3, <3>3 DEF Keeps
    <3>5. PreparedAt(c)'
      BY <3>3 DEF PreparedAt, Prepares
    <3>6. KnownAt(c)'
      BY <1>0, <2>1, <2>3, <2>5, <3>3 DEF PreparedAt, KnownAt
    <3>. QED
      BY <2>1, <3>2, <3>4, <3>5, <3>6, StepOfCall
  <2>. QED
    BY <2>2, <2>4, <2>5
<1>. QED
  BY <1>1, <1>2, <1>3, <1>4, <1>5, <1>6, <1>7, <1>8, <1>9, <1>10, <1>11, <1>12, <1>13, <1>14
     DEF Handler

-----------------------------------------------------------------------------
(* What happens around the calls.                                           *)

(* A step that changes nothing the invariant says of a call.                *)
LEMMA AsideOfCalls ==
  ASSUME CallInv, LockInv',
         UNCHANGED <<pc, status, seen, tree, row, run, ran, base, calm, pure, spoiled>>
  PROVE  CallInv'
<1>1. CallTyped'
  BY DEF CallInv, CallTyped
<1>2. \A d \in Calls : Keeps(d)
  BY DEF Keeps
<1>3. ASSUME NEW d \in Calls PROVE PreparedAt(d)' /\ KnownAt(d)'
  BY <1>2, KeptPart DEF CallInv
<1>. QED
  BY <1>1, <1>3 DEF CallInv

(* The owner edits, takes an edit back or commits.  A commit makes a HEAD   *)
(* that no call has resolved; without one, a file that was unedited under   *)
(* this HEAD stays in pure.                                                 *)
LEMMA ChangeCallInv ==
  ASSUME CallInv, LockInv', NEW r \in Repos, Change(r)
  PROVE  CallInv'
<1> DEFINE now == Files \ base'[r].edited
           mine == {c \in Calls : RepoOf[c] = r}
<1>1. UNCHANGED <<pc, status, seen, tree, row, run, ran, spoiled>>
  BY DEF Change, taskVars, treeVars, runVars
<1>2. PICK h \in Nat, e \in SUBSET Files :
        /\ base' = [base EXCEPT ![r] = [head |-> h, edited |-> e]]
        /\ h = base[r].head \/ h = base[r].head + 1
  <2>1. base[r] \in [head : Nat, edited : SUBSET Files]
    BY DEF CallInv, CallTyped
  <2>2. base[r].head \in Nat /\ base[r].edited \in SUBSET Files
        /\ base[r] = [head |-> base[r].head, edited |-> base[r].edited]
    BY <2>1
  <2>3. CASE \E left \in SUBSET Files :
               base' = [base EXCEPT ![r] = [head |-> base[r].head + 1, edited |-> left]]
    <3>1. PICK left \in SUBSET Files :
            base' = [base EXCEPT ![r] = [head |-> base[r].head + 1, edited |-> left]]
      BY <2>3
    <3>2. base[r].head + 1 \in Nat
      BY <2>2
    <3>. QED
      BY <3>1, <3>2
  <2>4. ASSUME NEW x \in SUBSET Files, base' = [base EXCEPT ![r].edited = x]
        PROVE  base' = [base EXCEPT ![r] = [head |-> base[r].head, edited |-> x]]
    <3>1. [base[r] EXCEPT !.edited = x] = [head |-> base[r].head, edited |-> x]
      BY <2>1
    <3>. QED
      BY <2>4, <3>1
  <2>5. CASE \E x \in SUBSET Files : base' = [base EXCEPT ![r].edited = x]
    BY <2>2, <2>4, <2>5
  <2>6. \/ \E left \in SUBSET Files :
             base' = [base EXCEPT ![r] = [head |-> base[r].head + 1, edited |-> left]]
        \/ \E f \in base[r].edited : base' = [base EXCEPT ![r].edited = base[r].edited \ {f}]
        \/ \E f \in Unedited(r) : base' = [base EXCEPT ![r].edited = base[r].edited \cup {f}]
    BY DEF Change
  <2>7. \A f \in base[r].edited : base[r].edited \ {f} \in SUBSET Files
    BY <2>2
  <2>8. \A f \in Unedited(r) : base[r].edited \cup {f} \in SUBSET Files
    BY <2>2 DEF Unedited
  <2>. QED
    BY <2>3, <2>5, <2>6, <2>7, <2>8
<1>3. /\ base' \in [Repos -> [head : Nat, edited : SUBSET Files]]
      /\ base'[r].head = h /\ \A q \in Repos : q # r => base'[q] = base[q]
      /\ base[r].head \in Nat
  BY <1>2 DEF CallInv, CallTyped
<1>4. /\ calm' = [c \in Calls |->
           IF c \in mine /\ pc[c] \in Looks THEN calm[c] \cup now ELSE calm[c]]
      /\ pure' = [c \in Calls |->
           IF c \in mine /\ pc[c] \in Prepares
           THEN {p \in pure[c] : p[1] = h} \cup ({h} \X now) ELSE pure[c]]
  BY <1>3 DEF Change
<1>5. calm' \in [Calls -> SUBSET Files]
  BY <1>4 DEF CallInv, CallTyped
<1>6. ASSUME NEW c \in Calls PROVE pure'[c] \in SUBSET (Nat \X Files)
  <2>1. pure[c] \in SUBSET (Nat \X Files)
    BY DEF CallInv, CallTyped
  <2>2. {p \in pure[c] : p[1] = h} \cup ({h} \X now) \in SUBSET (Nat \X Files)
    BY <2>1
  <2>. QED
    BY <1>4, <2>1, <2>2
<1>7. pure' \in [Calls -> SUBSET (Nat \X Files)]
  BY <1>4, <1>6
<1>8. CallTyped'
  BY <1>1, <1>3, <1>5, <1>7 DEF CallInv, CallTyped
<1>9. ASSUME NEW c \in Calls PROVE KnownAt(c)'
  <2>1. KnownAt(c) /\ (pc[c] = "done" => pure'[c] = pure[c])
    BY <1>4 DEF CallInv, Prepares
  <2>. QED
    BY <1>1, <2>1 DEF KnownAt
<1>10. ASSUME NEW c \in Calls PROVE PreparedAt(c)'
  <2>1. PreparedAt(c) /\ RepoOf[c] \in Repos
    BY CallsHaveRepositories DEF CallInv
  <2>2. CASE RepoOf[c] # r
    <3>1. base'[RepoOf[c]] = base[RepoOf[c]] /\ calm'[c] = calm[c] /\ pure'[c] = pure[c]
      BY <1>3, <1>4, <2>1, <2>2
    <3>. QED
      BY <1>1, <2>1, <3>1 DEF PreparedAt, Repo, Unedited
  <2>3. CASE RepoOf[c] = r /\ pc[c] \notin Prepares
    <3>1. pure'[c] = pure[c]
      BY <1>4, <2>3
    <3>. QED
      BY <1>1, <2>1, <2>3, <3>1 DEF PreparedAt, Prepares
  <2>4. CASE RepoOf[c] = r /\ pc[c] \in Prepares
    <3>1. pure'[c] = {p \in pure[c] : p[1] = h} \cup ({h} \X now)
      BY <1>4, <2>4
    <3>2. calm'[c] \subseteq calm[c] \cup now
      BY <1>4
    <3>3. Repo(c)' = base'[r] /\ Unedited(RepoOf[c])' = now /\ Repo(c).head = base[r].head
      BY <2>4 DEF Repo, Unedited
    <3>4. {h} \X now \subseteq pure'[c]
      BY <3>1
    <3>5. ASSUME NEW X \in SUBSET Files, {h} \X X \subseteq pure[c]
          PROVE  {h} \X X \subseteq pure'[c]
      <4>1. \A x \in X : <<h, x>> \in pure[c]
        BY <3>5
      <4>2. \A x \in X : <<h, x>> \in pure'[c]
        BY <3>1, <4>1
      <4>. QED
        BY <4>2
    <3>6. pc[c] \in {"map", "adding", "parse", "status2", "again"} =>
            seen[c] \in Nat /\ seen[c] <= h /\ (h = seen[c] => base[r].head = h)
      BY <1>2, <1>3, <2>1, <2>4 DEF PreparedAt, Repo
    <3>7. pc[c] = "status2" /\ h = seen[c] => {h} \X calm'[c] \subseteq pure'[c]
      <4>. SUFFICES ASSUME pc[c] = "status2", h = seen[c]
                    PROVE  {h} \X calm'[c] \subseteq pure'[c]
        OBVIOUS
      <4>1. calm[c] \in SUBSET Files /\ {h} \X calm[c] \subseteq pure[c]
        BY <2>1, <3>3, <3>6 DEF PreparedAt, CallInv, CallTyped
      <4>2. {h} \X calm[c] \subseteq pure'[c]
        BY <3>5, <4>1
      <4>. QED
        BY <3>2, <3>4, <4>2
    <3>8. pc[c] = "again" /\ h = seen[c] => {h} \X Files \subseteq pure'[c]
      BY <2>1, <3>3, <3>5, <3>6 DEF PreparedAt
    <3>. QED
      BY <1>1, <1>3, <2>4, <3>3, <3>4, <3>6, <3>7, <3>8 DEF PreparedAt, Prepares
  <2>. QED
    BY <2>2, <2>3, <2>4
<1>. QED
  BY <1>8, <1>9, <1>10 DEF CallInv

LEMMA OthersCallInv ==
  ASSUME CallInv, LockInv', Others
  PROVE  CallInv'
<1>1. ASSUME NEW c \in Calls, Call(c) PROVE CallInv'
  <2>1. /\ pc[c] = "idle" /\ pc' = [pc EXCEPT ![c] = "look"]
        /\ calm' = [calm EXCEPT ![c] = Unedited(RepoOf[c])]
        /\ UNCHANGED <<status, seen, tree, row, run, ran, base, pure, spoiled>>
    BY <1>1 DEF Call, Goto, Copies, treeVars, runVars
  <2>2. CallTyped'
    BY <2>1 DEF CallInv, CallTyped, Unedited
  <2>3. /\ pc'[c] = "look"
        /\ \A d \in Calls : d # c => pc'[d] = pc[d] /\ calm'[d] = calm[d]
    BY <2>1 DEF CallInv, CallTyped, LockInv, LockTyped
  <2>4. \A d \in Calls : d # c => Keeps(d)
    BY <2>1, <2>3 DEF Keeps
  <2>5. PreparedAt(c)' /\ KnownAt(c)'
    BY <2>1, <2>3 DEF CallInv, PreparedAt, KnownAt, Prepares
  <2>. QED
    BY <2>1, <2>2, <2>4, <2>5, StepOfCall
<1>2. ASSUME NEW c \in Calls, GitAdds(c) PROVE CallInv'
  <2>1. /\ child[c] = "git" /\ tree' = [tree EXCEPT ![c] = seen[c]]
        /\ UNCHANGED <<pc, status, seen, row, run, ran, base, calm, pure, spoiled>>
    BY <1>2 DEF GitAdds, taskVars, runVars, worldVars
  <2>2. pc[c] \in {"adding", "gone"} /\ PreparedAt(c) /\ KnownAt(c)
    BY <2>1 DEF CallInv, LockInv, LockedAt
  <2>3. CallTyped'
    BY <2>1 DEF CallInv, CallTyped
  <2>4. \A d \in Calls : d # c => Keeps(d)
    BY <2>1 DEF Keeps, CallInv, CallTyped
  <2>5. PreparedAt(c)'
    BY <2>1, <2>2 DEF PreparedAt, Repo, Unedited
  <2>6. KnownAt(c)'
    BY <2>1, <2>2 DEF KnownAt
  <2>. QED
    BY <2>1, <2>3, <2>4, <2>5, <2>6, StepOfCall
<1>3. ASSUME NEW c \in Calls, CommandExits(c) PROVE CallInv'
  <2>1. /\ pc[c] = "executing" /\ pc' = [pc EXCEPT ![c] = "capture"]
        /\ UNCHANGED <<status, seen, tree, row, run, ran, base, calm, pure, spoiled>>
    BY <1>3 DEF CommandExits, At, Goto, treeVars, worldVars
  <2>2. CallTyped'
    BY <2>1 DEF CallInv, CallTyped
  <2>3. pc'[c] = "capture" /\ \A d \in Calls : d # c => pc'[d] = pc[d]
    BY <2>1 DEF CallInv, LockInv, LockTyped
  <2>4. \A d \in Calls : d # c => Keeps(d)
    BY <2>1, <2>3 DEF Keeps
  <2>5. PreparedAt(c)' /\ KnownAt(c)'
    BY <2>1, <2>3 DEF CallInv, PreparedAt, KnownAt, Prepares
  <2>. QED
    BY <2>1, <2>2, <2>4, <2>5, StepOfCall
<1>4. ASSUME NEW c \in Calls, BeatFails(c) PROVE CallInv'
  <2>1. /\ UNCHANGED <<pc, seen, tree, row, run, ran, base, calm, pure, spoiled>>
        /\ UNCHANGED status \/ status' = [status EXCEPT ![c] = "NEEDS_RECOVERY"]
    BY <1>4 DEF BeatFails, treeVars, runVars, worldVars, CallInv, CallTyped
  <2>2. CallTyped'
    BY <2>1 DEF CallInv, CallTyped, Statuses
  <2>3. /\ status'[c] = status[c] \/ status'[c] = "NEEDS_RECOVERY"
        /\ \A d \in Calls : d # c => status'[d] = status[d]
    BY <2>1 DEF CallInv, CallTyped
  <2>4. \A d \in Calls : d # c => Keeps(d)
    BY <2>1, <2>3 DEF Keeps
  <2>5. PreparedAt(c) /\ KnownAt(c)
    BY DEF CallInv
  <2>6. PreparedAt(c)'
    BY <2>1, <2>5 DEF PreparedAt, Repo, Unedited
  <2>7. KnownAt(c)'
    BY <2>1, <2>3, <2>5 DEF KnownAt
  <2>. QED
    BY <2>1, <2>2, <2>4, <2>6, <2>7, StepOfCall
<1>5. ASSUME NEW c \in Calls, OrphanEnds(c) \/ Beat(c) \/ Lapse(c) PROVE CallInv'
  BY <1>5, AsideOfCalls DEF OrphanEnds, Beat, Lapse, taskVars, treeVars, runVars, worldVars
<1>6. CASE Close \/ Closed \/ Restart
  BY <1>6, AsideOfCalls DEF Close, Closed, Restart, taskVars, treeVars, runVars
<1>7. CASE \E r \in Repos : Change(r)
  BY <1>7, ChangeCallInv
<1>8. CASE Crash
  <2>1. /\ pc' = [c \in Calls |-> IF Open(c) THEN "gone" ELSE pc[c]]
        /\ calm' = [c \in Calls |-> {}]
        /\ spoiled' = spoiled \cup {c \in Calls : Open(c)}
        /\ UNCHANGED <<status, seen, tree, row, run, ran, base, pure>>
    BY <1>8 DEF Crash, treeVars
  <2>2. CallTyped'
    BY <2>1 DEF CallInv, CallTyped
  <2>3. ASSUME NEW c \in Calls PROVE PreparedAt(c)' /\ KnownAt(c)'
    <3>1. \/ pc'[c] = "gone" /\ pc[c] # "done" /\ c \in spoiled'
          \/ pc'[c] = pc[c] /\ pc[c] \in {"idle", "done", "gone"}
      BY <2>1 DEF Open, Ended
    <3>2. PreparedAt(c)'
      BY <3>1 DEF PreparedAt, Prepares
    <3>3. KnownAt(c)'
      BY <2>1, <3>1 DEF CallInv, KnownAt
    <3>. QED
      BY <3>2, <3>3
  <2>. QED
    BY <2>2, <2>3 DEF CallInv
<1>. QED
  BY <1>1, <1>2, <1>3, <1>4, <1>5, <1>6, <1>7, <1>8 DEF Others

-----------------------------------------------------------------------------
(* The theorems.                                                            *)

(* What a step of the agent, the owner or a process preserves holds always. *)
THEOREM CallInvariant == LocalSpec => []CallInv
<1>1. LocalInit => CallInv
  BY CallsHaveRepositories
     DEF LocalInit, CallInv, CallTyped, PreparedAt, KnownAt, LockInv, LockTyped, LockedAt,
         Leased, Prepares, Statuses
<1>2. CallInv /\ [LocalNext]_localVars => CallInv'
  <2>. SUFFICES ASSUME CallInv, [LocalNext]_localVars PROVE CallInv'
    OBVIOUS
  <2>1. CASE UNCHANGED localVars
    <3>1. LockInv'
      BY <2>1, AsideInv DEF CallInv, localVars, taskVars, leaseVars, runVars
    <3>. QED
      BY <2>1, <3>1, AsideOfCalls
         DEF localVars, taskVars, treeVars, runVars, worldVars
  <2>2. CASE Others
    BY <2>2, OthersInv, OthersCallInv DEF CallInv
  <2>3. ASSUME NEW c \in Calls, Handler(c) PROVE CallInv'
    BY <2>3, HandlerInv, HandlerCallInv DEF CallInv
  <2>. QED
    BY <2>1, <2>2, <2>3 DEF LocalNext
<1>. QED
  BY <1>1, <1>2, PTL DEF LocalSpec

(* No process, of a live call or left by a crash, works for a call that     *)
(* does not have the lock of its repository: so never two for one           *)
(* repository.                                                              *)
THEOREM LockedProcesses == LocalSpec => []ProcessesUnderLock
<1>1. CallInv => ProcessesUnderLock
  BY DEF CallInv, LockInv, LockedAt, ProcessesUnderLock, Processes, Leased
<1>. QED
  BY <1>1, CallInvariant, PTL

(* However the owner commits and edits, a command that completed succeeded  *)
(* on a commit under which, as HEAD, every file was seen unedited: although *)
(* the files were copied one after the other and HEAD was read later.       *)
THEOREM CleanHeadExecuted == LocalSpec => []CompletedOnCleanHead
<1>1. CallInv => CompletedOnCleanHead
  BY DEF CallInv, KnownAt, CompletedOnCleanHead
<1>. QED
  BY <1>1, CallInvariant, PTL

(* A call that ends leaves no worktree without its row, unless one of its   *)
(* Git commands failed or was refused, or the agent crashed.                *)
THEOREM WorktreesRecorded == LocalSpec => []WorktreesAreKnown
<1>1. CallInv => WorktreesAreKnown
  BY DEF CallInv, KnownAt, WorktreesAreKnown, Ended
<1>. QED
  BY <1>1, CallInvariant, PTL

-----------------------------------------------------------------------------
(* The tables of commands.                                                  *)

(* The commands of one kind are carried out when each of them is.           *)
LEMMA KindPasses ==
  ASSUME NEW kind, NEW cwd,
         \/ kind = HeadCommands \/ kind = RemoveCommands \/ kind = PruneCommands
         \/ \E from \in Shas : kind = AddCommands(from),
         \A args \in kind : CarriedOut(cwd, args)
  PROVE  kind \subseteq CarriedOutIn(cwd)
<1>1. HeadCommands \subseteq OwnCommands
  BY DEF OwnCommands, SnapshotCommands
<1>2. /\ RemoveCommands \subseteq OwnCommands /\ PruneCommands \subseteq OwnCommands
      /\ \A from \in Shas : AddCommands(from) \subseteq OwnCommands
  BY DEF OwnCommands
<1>3. kind \subseteq OwnCommands
  BY <1>1, <1>2
<1>. QED
  BY <1>3 DEF CarriedOutIn

LEMMA HeadPasses == HeadCommands \subseteq InWorktree
<1>1. ASSUME NEW args, args = <<"rev-parse", "HEAD">> PROVE CarriedOut(Worktree, args)
  <2>1. args # <<>> /\ Head(args) = "rev-parse"
    BY <1>1
  <2>2. ClassifyRisk(Op("git", args), TaskContext) = "ALLOW"
    BY <2>1 DEF ClassifyRisk, ClassifyGit, GitReads, Op
  <2>3. WorktreeTargetFor(args) = NoTarget /\ GitTarget(args) = NoTarget
    BY <2>1 DEF WorktreeTargetFor, GitTarget
  <2>4. Preflight(Op("git", args), TaskContext)
    BY <2>3 DEF Preflight, Op
  <2>5. args \in Admitted(Worktree)
    BY <1>1 DEF Admitted
  <2>. QED
    BY <2>2, <2>3, <2>4, <2>5 DEF CarriedOut
<1>2. \A args \in HeadCommands : CarriedOut(Worktree, args)
  BY <1>1 DEF HeadCommands
<1>. QED
  BY <1>2, KindPasses DEF InWorktree

(* The three commands of a worktree, in the base clone: the directory that  *)
(* the preflight checks is the one that Git takes.                          *)
LEMMA AddsPass == \A from \in Shas : AddCommands(from) \subseteq InBase
<1>1. ASSUME NEW from \in Shas, NEW b \in TaskBranches,
             NEW args, args = <<"worktree", "add", "-b", b, Worktree, from>>
      PROVE  CarriedOut(Base, args)
  <2>1. /\ Len(args) = 6 /\ args # <<>> /\ Head(args) = "worktree"
        /\ args[1] = "worktree" /\ args[2] = "add" /\ args[3] = "-b"
        /\ args[4] = b /\ args[5] = Worktree /\ args[6] = from
    BY <1>1
  <2>2. /\ b # "" /\ Worktree # "" /\ from # "" /\ b # "-b"
        /\ b \notin Options /\ Worktree \notin Options /\ from \notin Options /\ b \in Branches
    BY NamesAreNotOptions DEF Options
  <2>3. \A i \in 4..6 : args[i] # "" /\ args[i] \notin Options
    <3>1. 4..6 = {4, 5, 6}
      OBVIOUS
    <3>. QED
      BY <2>1, <2>2, <3>1
  <2>4. WorktreeLifecycle(args)
    BY <2>1, <2>3 DEF WorktreeLifecycle
  <2>5. ClassifyRisk(Op("git", args), TaskContext) = "ALLOW"
    BY <2>1, <2>4 DEF ClassifyRisk, ClassifyGit, Op, TaskContext
  <2>6. WorktreeTargetFor(args) = Worktree
    BY <2>1, <2>3 DEF WorktreeTargetFor
  <2>7. GitTarget(args) = Worktree
    <3>1. { i \in 3..Len(args) : args[i] \notin Options /\ args[i-1] # "-b" } = {5, 6}
      <4>1. 3..Len(args) = {3, 4, 5, 6}
        BY <2>1
      <4>2. args[3] \in Options
        BY <2>1 DEF Options
      <4>3. 4 - 1 = 3 /\ 5 - 1 = 4 /\ 6 - 1 = 5
        OBVIOUS
      <4>4. Worktree # "-b"
        BY <2>2 DEF Options
      <4>. QED
        BY <2>1, <2>2, <4>1, <4>2, <4>3, <4>4
    <3>2. (CHOOSE i \in {5, 6} : \A j \in {5, 6} : i <= j) = 5
      OBVIOUS
    <3>. QED
      BY <2>1, <3>1, <3>2 DEF GitTarget
  <2>8. Preflight(Op("git", args), TaskContext)
    BY <2>6 DEF Preflight, OwnTarget, Op
  <2>9. args \in Admitted(Base)
    <3>. DEFINE Added == { <<"worktree", "add", "-b", name, Worktree, point>> :
                             name \in Branches, point \in Shas \cup {Upstream} }
    <3>1. args \in Added
      <4>1. b \in Branches /\ from \in Shas \cup {Upstream}
        BY <2>2
      <4>. QED
        BY <4>1, <1>1
    <3>2. Added \subseteq Admitted(Base)
      BY DEF Admitted
    <3>. QED
      BY <3>1, <3>2
  <2>. QED
    BY <2>5, <2>6, <2>7, <2>8, <2>9 DEF CarriedOut
<1>. QED
  <2>1. ASSUME NEW from \in Shas PROVE AddCommands(from) \subseteq InBase
    <3>1. \A args \in AddCommands(from) : CarriedOut(Base, args)
      BY <1>1 DEF AddCommands
    <3>. QED
      BY <3>1, KindPasses DEF InBase
  <2>. QED
    BY <2>1

LEMMA RemovalsPass == RemoveCommands \subseteq InBase
<1>1. ASSUME NEW args, args = <<"worktree", "remove", "--force", Worktree>>
      PROVE  CarriedOut(Base, args)
  <2>1. /\ Len(args) = 4 /\ args # <<>> /\ Head(args) = "worktree"
        /\ args[2] = "remove" /\ args[3] = "--force" /\ args[4] = Worktree
    BY <1>1
  <2>2. Worktree # "" /\ Worktree \notin Options
    BY NamesAreNotOptions
  <2>3. WorktreeLifecycle(args)
    BY <2>1, <2>2 DEF WorktreeLifecycle
  <2>4. ClassifyRisk(Op("git", args), TaskContext) = "ALLOW"
    BY <2>1, <2>3 DEF ClassifyRisk, ClassifyGit, Op, TaskContext
  <2>5. WorktreeTargetFor(args) = Worktree
    BY <2>1 DEF WorktreeTargetFor
  <2>6. GitTarget(args) = Worktree
    <3>1. { i \in 3..Len(args) : args[i] \notin Options /\ args[i-1] # "-b" } = {4}
      <4>1. 3..Len(args) = {3, 4}
        BY <2>1
      <4>2. args[3] \in Options /\ args[4-1] # "-b"
        BY <2>1 DEF Options
      <4>. QED
        BY <2>1, <2>2, <4>1, <4>2
    <3>2. (CHOOSE i \in {4} : \A j \in {4} : i <= j) = 4
      OBVIOUS
    <3>. QED
      BY <2>1, <3>1, <3>2 DEF GitTarget
  <2>7. Preflight(Op("git", args), TaskContext)
    BY <2>5 DEF Preflight, OwnTarget, Op
  <2>8. args \in Admitted(Base)
    BY <1>1 DEF Admitted
  <2>. QED
    BY <2>4, <2>5, <2>6, <2>7, <2>8 DEF CarriedOut
<1>. QED
  <2>1. \A args \in RemoveCommands : CarriedOut(Base, args)
    BY <1>1 DEF RemoveCommands
  <2>. QED
    BY <2>1, KindPasses DEF InBase

LEMMA PrunesPass == PruneCommands \subseteq InBase
<1>1. ASSUME NEW args, args = <<"worktree", "prune">> PROVE CarriedOut(Base, args)
  <2>1. /\ Len(args) = 2 /\ args # <<>> /\ Head(args) = "worktree" /\ args[2] = "prune"
    BY <1>1
  <2>2. ClassifyRisk(Op("git", args), TaskContext) = "ALLOW"
    BY <2>1 DEF WorktreeLifecycle, ClassifyRisk, ClassifyGit, Op, TaskContext
  <2>3. WorktreeTargetFor(args) = NoTarget /\ GitTarget(args) = NoTarget
    <3>1. { i \in 3..Len(args) : args[i] \notin Options /\ args[i-1] # "-b" } = {}
      BY <2>1
    <3>. QED
      BY <2>1, <3>1 DEF WorktreeTargetFor, GitTarget
  <2>4. Preflight(Op("git", args), TaskContext)
    BY <2>3 DEF Preflight, Op
  <2>5. args \in Admitted(Base)
    BY <1>1 DEF Admitted
  <2>. QED
    BY <2>2, <2>3, <2>4, <2>5 DEF CarriedOut
<1>. QED
  <2>1. \A args \in PruneCommands : CarriedOut(Base, args)
    BY <1>1 DEF PruneCommands
  <2>. QED
    BY <2>1, KindPasses DEF InBase

LEMMA ProgramsPass ==
  /\ Allowed(Op("wslpath", <<"-w", Worktree>>))
  /\ Allowed(Op("pnpm", <<"run", "test">>))
<1>1. Allowed(Op("wslpath", <<"-w", Worktree>>))
  <2>. DEFINE args == <<"-w", Worktree>>
  <2>1. Len(args) = 2 /\ args[1] = "-w" /\ args[2] \in Dirs
    BY NamesAreNotOptions
  <2>. QED
    BY <2>1 DEF Allowed, ClassifyRisk, Op
<1>2. Allowed(Op("pnpm", <<"run", "test">>))
  <2>. DEFINE args == <<"run", "test">>
  <2>1. args # <<>> /\ Head(args) = "run"
    OBVIOUS
  <2>. QED
    BY <2>1 DEF Allowed, ClassifyRisk, ClassifyPackageManager, Op
<1>. QED
  BY <1>1, <1>2

(* Whatever command a call is at, those of its rollback too, is carried out *)
(* without an owner, for all names (CallIsCarriedOut).                      *)
THEOREM CallCommandsPass == LocalSpec => []CallIsCarriedOut
<1>1. CallIsCarriedOut
  BY HeadPasses, AddsPass, RemovalsPass, PrunesPass, ProgramsPass DEF CallIsCarriedOut
<1>. QED
  BY <1>1, PTL

=============================================================================
