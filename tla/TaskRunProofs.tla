--------------------------- MODULE TaskRunProofs ---------------------------
(***************************************************************************)
(* Proofs about the execution of tasks by one agent, for any number of     *)
(* tasks, repositories, tokens and faults.  The lock service inside it     *)
(* keeps its invariant by the lemmas of RepoLeaseProofs; this module adds  *)
(* what the stages of a run owe to the lease and to the durable results.   *)
(***************************************************************************)
EXTENDS TaskRun, RepoLeaseProofs, FiniteSetTheorems

LEMMA AgentRuns == Agent \in Procs
BY RunAssumption

-----------------------------------------------------------------------------
(* The lock service keeps its invariant under the agent.                   *)

(* A step that only moves tasks is harmless to the lock service.            *)
LEMMA StatusOnlyIInv ==
  ASSUME IInv, status' \in [Tasks -> Statuses],
         UNCHANGED <<repoId, lockFile, lockRow, held, section, running, tokens>>
  PROVE  IInv'
<1>1. TypeOK'
  BY DEF IInv, TypeOK
<1>. QED
  BY <1>1 DEF IInv, TokensIssued, RowBackedByFile, HolderOwnsRow, SectionOwns, OneHolder,
     FilesDistinct

LEMMA DispatchTyped ==
  ASSUME TypeOK, Dispatch
  PROVE  status' \in [Tasks -> Statuses]
BY DEF Dispatch, TypeOK, Statuses

LEMMA ProgressTyped ==
  ASSUME TypeOK, NEW t \in Tasks, NEW from \in Statuses, NEW to \in Statuses,
         Progress(t, from, to)
  PROVE  status' \in [Tasks -> Statuses]
BY DEF Progress, TypeOK

(* Every step of the agent is a step of the lock service, a step that only  *)
(* moves tasks, or the exit, which ends the process like a crash does.      *)
LEMMA RunIInv == IInv /\ [RunNext]_vars => IInv'
<1>. SUFFICES ASSUME IInv, [RunNext]_vars PROVE IInv'
  OBVIOUS
<1> USE AgentRuns
<1>1. CASE [Next]_leaseVars
  BY <1>1, NextIInv
<1>2. ASSUME status' \in [Tasks -> Statuses],
             UNCHANGED <<repoId, lockFile, lockRow, held, section, running, tokens>>
      PROVE  IInv'
  BY <1>2, StatusOnlyIInv
<1>3. CASE Start \/ Tick
  BY <1>2, <1>3, DispatchTyped DEF Start, Tick, IInv
<1>4. CASE Exit
  <2>1. section' = [section EXCEPT ![Agent] = Idle]
    BY <1>4 DEF Exit, Free, IInv, TypeOK
  <2>2. Crash(Agent)
    BY <1>4, <2>1 DEF Exit, Free, Crash
  <2>. QED
    BY <1>1, <2>2 DEF Next, Service
<1>5. CASE Stop \/ CrashAgent \/ RestartAgent
  BY <1>1, <1>5 DEF Stop, CrashAgent, RestartAgent, Next, Service
<1>6. ASSUME NEW r \in Repos, Expires(r) PROVE IInv'
  BY <1>1, <1>6 DEF Expires, Next, Service
<1>7. ASSUME NEW t \in Tasks,
             \/ Create(t) \/ AcquireFileFails(t) \/ AcquireUndoFails(t) \/ ReleaseFails(t)
             \/ HeartbeatOk(t) \/ HeartbeatFails(t) \/ QuiesceLease(t)
      PROVE  IInv'
  <2>1. RepoOf[t] \in Repos
    BY RunAssumption
  <2>. QED
    BY <1>1, <1>7, <2>1 DEF Create, AcquireFileFails, AcquireUndoFails, ReleaseFails,
       HeartbeatOk, HeartbeatFails, QuiesceLease, Next, Service
<1>8. ASSUME NEW t \in Tasks, RunStep(t) PROVE IInv'
  <2>1. RepoOf[t] \in Repos
    BY RunAssumption
  <2>2. CASE Resolve(t)
    <3>1. [Caller]_leaseVars
      BY <2>1, <2>2 DEF Resolve, Caller, leaseVars
    <3>. QED
      BY <1>1, <3>1 DEF Next
  <2>3. CASE CreateWorkspace(t)
    BY <1>2, <2>3, ProgressTyped DEF CreateWorkspace, IInv, Statuses
  <2>4. CASE Modify(t)
    BY <1>2, <2>4, ProgressTyped DEF Modify, IInv, Statuses
  <2>5. CASE Verified(t)
    BY <1>2, <2>5, ProgressTyped DEF Verified, IInv, Statuses
  <2>6. CASE Complete(t)
    BY <1>2, <2>6 DEF Complete, IInv, TypeOK, Statuses
  <2>7. CASE FailTask(t)
    BY <1>2, <2>7 DEF FailTask, IInv, TypeOK, Statuses
  <2>8. CASE \/ AcquireFile(t) \/ Acquired(t) \/ AcquireFails(t) \/ AcquireUndone(t)
             \/ Release(t) \/ Released(t)
    BY <1>1, <2>1, <2>8 DEF AcquireFile, Acquired, AcquireFails, AcquireUndone, Release,
       Released, Next, Service
  <2>9. CASE \/ AcquireRefused(t) \/ Fetch(t) \/ Verify(t) \/ Commit(t) \/ Push(t)
             \/ Confirm(t) \/ EnsurePr(t) \/ MayReject(t) \/ Finish(t)
             \/ \E outcome \in {"SUCCESS", "FAILURE", "PENDING"} : ObserveCi(t, outcome)
    BY <1>1, <2>9 DEF AcquireRefused, Fetch, Verify, Commit, Push, Confirm, EnsurePr,
       MayReject, Finish, ObserveCi
  <2>. QED
    BY <1>8, <2>2, <2>3, <2>4, <2>5, <2>6, <2>7, <2>8, <2>9 DEF RunStep
<1>9. CASE UNCHANGED vars
  BY <1>1, <1>9 DEF vars
<1>. QED
  BY <1>3, <1>4, <1>5, <1>6, <1>7, <1>8, <1>9 DEF RunNext

-----------------------------------------------------------------------------
(* Type correctness of the run.                                            *)

(* A task is submitted at most one at a time.                               *)
LEMMA CreateTyped ==
  ASSUME RunTypeOK, NEW t \in Tasks, Create(t)
  PROVE  seq' \in [Tasks -> Nat] /\ IsFiniteSet({ u \in Tasks : seq'[u] # 0 })
<1> DEFINE S == { u \in Tasks : seq[u] # 0 }
<1>1. IsFiniteSet(S) /\ seq \in [Tasks -> Nat]
  BY DEF RunTypeOK
<1>2. PICK n \in Nat : n = Cardinality(S) + 1
  <2>1. Cardinality(S) \in Nat
    BY <1>1, FS_CardinalityType
  <2> HIDE DEF S
  <2>. QED
    BY <2>1
<1>3. seq' = [seq EXCEPT ![t] = n]
  BY <1>2 DEF Create
<1>4. { u \in Tasks : seq'[u] # 0 } \subseteq S \cup {t}
  BY <1>1, <1>3
<1>5. IsFiniteSet(S \cup {t})
  BY <1>1, FS_AddElement
<1>. QED
  BY <1>1, <1>3, <1>4, <1>5, FS_Subset

LEMMA GotoTyped ==
  ASSUME pc \in [Tasks -> Stages], NEW t \in Tasks, NEW from, NEW to \in Stages,
         Goto(t, from, to)
  PROVE  pc' \in [Tasks -> Stages]
BY DEF Goto

LEMMA FaultTyped ==
  ASSUME faults \in 0..MaxFaults, NoFault \/ Fault
  PROVE  faults' \in 0..MaxFaults
BY RunAssumption DEF NoFault, Fault

(* What a step may do to the variables of the run.                          *)
LEMMA RunTyped == RunTypeOK /\ TypeOK' /\ [RunNext]_vars => RunTypeOK'
<1>. SUFFICES ASSUME RunTypeOK, TypeOK', [RunNext]_vars PROVE RunTypeOK'
  OBVIOUS
<1>1. pc \in [Tasks -> Stages]
  BY DEF RunTypeOK
<1>2. evidence \in [Tasks -> Evidence]
  BY DEF RunTypeOK
<1>3. ci \in [Tasks -> {"none", "SUCCESS", "FAILURE", "PENDING"}]
  BY DEF RunTypeOK
<1>4. faults' \in 0..MaxFaults
  <2>1. UNCHANGED vars \/ NoFault \/ Fault
    BY DEF RunNext, RunStep, Create, Resolve, AcquireRefused, AcquireFile, Acquired,
       AcquireFails, AcquireUndone, Fetch, CreateWorkspace, Modify, Verify, Verified,
       Commit, Push, Confirm, Release, Released, EnsurePr, ObserveCi, Complete, MayReject,
       Finish, FailTask, AcquireFileFails, AcquireUndoFails, ReleaseFails, HeartbeatOk,
       HeartbeatFails, QuiesceLease, Expires, Start, Tick, Stop, Exit, CrashAgent,
       RestartAgent
  <2>. QED
    BY <2>1, FaultTyped DEF RunTypeOK, vars
<1>5. ASSUME pc' \in [Tasks -> Stages], UNCHANGED <<seq, evidence, ci>>,
             phase' \in {"starting", "up", "draining"}
      PROVE  RunTypeOK'
  BY <1>4, <1>5 DEF RunTypeOK
<1>6. CASE Start \/ Tick
  BY <1>1, <1>5, <1>6 DEF Start, Tick, Dispatch, Stages, RunTypeOK
<1>7. CASE Stop \/ CrashAgent
  BY <1>1, <1>5, <1>7 DEF Stop, CrashAgent, Stages, RunTypeOK
<1>8. CASE Exit \/ RestartAgent
  BY <1>1, <1>5, <1>8 DEF Exit, RestartAgent, runVars, RunTypeOK
<1>9. ASSUME NEW r \in Repos, Expires(r) PROVE RunTypeOK'
  BY <1>1, <1>5, <1>9 DEF Expires, runVars, RunTypeOK
<1>10. ASSUME NEW t \in Tasks, Create(t) PROVE RunTypeOK'
  BY <1>4, <1>10, CreateTyped DEF Create, RunTypeOK
<1>11. ASSUME NEW t \in Tasks,
              \/ AcquireFileFails(t) \/ AcquireUndoFails(t) \/ ReleaseFails(t)
              \/ HeartbeatOk(t) \/ HeartbeatFails(t) \/ QuiesceLease(t)
       PROVE  RunTypeOK'
  BY <1>1, <1>5, <1>11 DEF AcquireFileFails, AcquireUndoFails, ReleaseFails, HeartbeatOk,
     HeartbeatFails, QuiesceLease, Reject, Goto, Stages, runVars, RunTypeOK
<1>12. ASSUME NEW t \in Tasks, RunStep(t) PROVE RunTypeOK'
  <2>1. CASE \/ Resolve(t) \/ AcquireRefused(t) \/ AcquireFile(t) \/ Acquired(t)
             \/ AcquireFails(t) \/ AcquireUndone(t) \/ Fetch(t) \/ CreateWorkspace(t)
             \/ Modify(t) \/ Verified(t) \/ Release(t) \/ Released(t) \/ Complete(t)
             \/ MayReject(t) \/ Finish(t) \/ FailTask(t)
    <3>1. /\ UNCHANGED <<seq, evidence, ci, phase>>
          /\ pc' = pc \/ \E from, to \in Stages : Goto(t, from, to)
      BY <2>1 DEF Resolve, AcquireRefused, AcquireFile, Acquired, AcquireFails,
         AcquireUndone, Fetch, CreateWorkspace, Modify, Verified, Release, Released,
         Complete, MayReject, Finish, FailTask, Reject, runVars, Stages
    <3>. QED
      BY <1>1, <1>5, <3>1, GotoTyped DEF RunTypeOK
  <2>2. CASE \/ Verify(t) \/ Commit(t) \/ Push(t) \/ Confirm(t) \/ EnsurePr(t)
    <3>1. UNCHANGED <<seq, ci, phase>> /\ \E from, to \in Stages : Goto(t, from, to)
      BY <2>2 DEF Verify, Commit, Push, Confirm, EnsurePr, Reject, Stages
    <3>2. /\ [evidence[t] EXCEPT !.sealed = TRUE] \in Evidence
          /\ [evidence[t] EXCEPT !.remote = TRUE] \in Evidence
          /\ [evidence[t] EXCEPT !.pr = TRUE] \in Evidence
          /\ \A c \in CommitStates : [evidence[t] EXCEPT !.commit = c] \in Evidence
      BY <1>2 DEF Evidence
    <3>3. evidence' \in [Tasks -> Evidence]
      BY <1>2, <2>2, <3>2 DEF Verify, Commit, Push, Confirm, EnsurePr, CommitStates
    <3>. QED
      BY <1>1, <1>4, <3>1, <3>3, GotoTyped DEF RunTypeOK
  <2>3. ASSUME NEW outcome \in {"SUCCESS", "FAILURE", "PENDING"}, ObserveCi(t, outcome)
        PROVE  RunTypeOK'
    BY <1>1, <1>3, <1>4, <2>3 DEF ObserveCi, Goto, Stages, RunTypeOK
  <2>. QED
    BY <1>12, <2>1, <2>2, <2>3 DEF RunStep
<1>13. CASE UNCHANGED vars
  BY <1>1, <1>5, <1>13 DEF vars, runVars, RunTypeOK
<1>. QED
  BY <1>6, <1>7, <1>8, <1>9, <1>10, <1>11, <1>12, <1>13 DEF RunNext

-----------------------------------------------------------------------------
(* The stages of a run.                                                    *)

(* What the lock service and the run agree on, without the types.           *)
Staged ==
  /\ StageOK
  /\ StageSection
  /\ RowsBound
  /\ WorkUnderLease
  /\ CompletedEvidence

(* The stages at which a run has nothing left to do.                        *)
Settling == { "none", "rejected", "locked", "resolved" }

(* A step that gains nothing: it binds nothing, records nothing and moves   *)
(* no row; runs only settle, tasks only fail or are sent to recovery, and   *)
(* the call in progress stays or ends.                                      *)
Loose ==
  /\ UNCHANGED <<repoId, evidence, ci>>
  /\ \A r \in Repos : lockRow'[r].task = lockRow[r].task
  /\ section'[Agent] = section[Agent] \/ section'[Agent] = Idle
  /\ \A t \in Tasks :
       \/ pc'[t] = pc[t]
       \/ section'[Agent] = Idle
          /\ \/ pc'[t] \in Settling
             \/ pc[t] = "fetch" /\ pc'[t] = "workspace"
  /\ \A t \in Tasks :
       \/ status'[t] = status[t]
       \/ status'[t] = "NEEDS_RECOVERY" /\ status[t] # "COMPLETED"
       \/ status'[t] = "FAILED" /\ pc'[t] = "none"

LEMMA LooseStep ==
  ASSUME RunInv, RunTypeOK', Loose
  PROVE  Staged'
<1>1. ASSUME NEW t \in Tasks PROVE AtStage(t)'
  BY DEF RunInv, Loose, StageOK, AtStage, Settling, AfterSeal, AfterPush, AfterConfirm,
     AfterRelease
<1>2. ASSUME NEW t \in Tasks PROVE Behind(t)'
  BY DEF RunInv, Loose, StageOK, Behind, Settling, AfterSeal, AfterPush, AfterConfirm,
     AfterRelease
<1>3. StageSection'
  <2>1. CASE section'[Agent] = Idle
    BY <2>1, Empty DEF StageSection
  <2>2. CASE section'[Agent] # Idle
    <3>1. section'[Agent] = section[Agent] /\ \A t \in Tasks : pc'[t] = pc[t]
      BY <2>2 DEF Loose
    <3>2. section[Agent].task \in Tasks /\ section[Agent].repo \in Repos
      BY <2>2, <3>1, AgentRuns DEF RunInv, IInv, TypeOK, Sections
    <3>. QED
      BY <3>1, <3>2 DEF RunInv, Loose, StageSection
  <2>. QED
    BY <2>1, <2>2
<1>4. RowsBound'
  BY DEF RunInv, Loose, RowsBound
<1>5. WorkUnderLease'
  <2>. SUFFICES ASSUME NEW t \in Tasks, Mutating(t)'
                PROVE  repoId'[t] \in Repos /\ lockRow'[repoId'[t]].task = t
    BY DEF WorkUnderLease
  <2>1. Mutating(t)
    BY DEF Mutating, Loose
  <2>2. repoId[t] \in Repos /\ lockRow[repoId[t]].task = t
    BY <2>1 DEF RunInv, WorkUnderLease
  <2>. QED
    BY <2>2 DEF Loose
<1>6. CompletedEvidence'
  BY DEF RunInv, Loose, CompletedEvidence
<1>. QED
  BY <1>1, <1>2, <1>3, <1>4, <1>5, <1>6 DEF Staged, StageOK

LEMMA GotoMoves ==
  ASSUME pc \in [Tasks -> Stages], NEW t \in Tasks, NEW from, NEW to, Goto(t, from, to)
  PROVE  /\ pc[t] = from /\ pc'[t] = to
         /\ \A u \in Tasks : u # t => pc'[u] = pc[u]
BY DEF Goto

LEMMA GotoSettles ==
  ASSUME pc \in [Tasks -> Stages], NEW t \in Tasks, NEW from, NEW to, Goto(t, from, to),
         to \in Settling \/ (from = "fetch" /\ to = "workspace")
  PROVE  \A u \in Tasks :
           \/ pc'[u] = pc[u]
           \/ pc'[u] \in Settling
           \/ pc[u] = "fetch" /\ pc'[u] = "workspace"
BY GotoMoves

(* A row keeps its task when only its expiry moves.                         *)
LEMMA LiveKeepsTask ==
  ASSUME TypeOK, NEW r \in Repos, NEW b \in BOOLEAN,
         lockRow' = [lockRow EXCEPT ![r].live = b], lockRow[r] # NoRow
  PROVE  \A q \in Repos : lockRow'[q].task = lockRow[q].task
BY DEF TypeOK, Rows

LEMMA LooseActions ==
  ASSUME RunInv, RunTypeOK'
  PROVE  /\ UNCHANGED vars => Loose
         /\ Stop \/ Exit \/ CrashAgent \/ RestartAgent => Loose
         /\ \A r \in Repos : Expires(r) => Loose
         /\ \A t \in Tasks :
              \/ Create(t) \/ AcquireRefused(t) \/ AcquireFileFails(t) \/ AcquireUndone(t)
              \/ AcquireUndoFails(t) \/ Fetch(t) \/ MayReject(t) \/ ReleaseFails(t)
              \/ Finish(t) \/ FailTask(t) \/ HeartbeatOk(t) \/ HeartbeatFails(t)
              \/ QuiesceLease(t)
              => Loose
<1> USE AgentRuns
<1>1. pc \in [Tasks -> Stages] /\ TypeOK
  BY DEF RunInv, RunTypeOK
<1>2. UNCHANGED vars => Loose
  BY DEF vars, runVars, leaseVars, Loose
<1>3. Stop \/ Exit \/ CrashAgent \/ RestartAgent => Loose
  <2>1. ASSUME Stop PROVE Loose
    <3>1. \A t \in Tasks : pc'[t] = pc[t] \/ pc'[t] = "rejected"
      BY <1>1, <2>1 DEF Stop
    <3>. QED
      BY <2>1, <3>1 DEF Stop, Free, leaseVars, Loose, Settling
  <2>2. Exit => Loose
    BY DEF Exit, runVars, Loose
  <2>3. ASSUME CrashAgent PROVE Loose
    <3>1. section'[Agent] = Idle /\ \A t \in Tasks : pc'[t] = "none"
      BY <1>1, <2>3 DEF CrashAgent, Crash, TypeOK
    <3>. QED
      BY <2>3, <3>1 DEF CrashAgent, Crash, Loose, Settling
  <2>4. RestartAgent => Loose
    BY DEF RestartAgent, Restart, Loose
  <2>. QED
    BY <2>1, <2>2, <2>3, <2>4
<1>4. ASSUME NEW r \in Repos, Expires(r) PROVE Loose
  <2>1. lockRow[r] # NoRow
    BY <1>4, Empty DEF Expires, LeaseExpires
  <2>2. \A q \in Repos : lockRow'[q].task = lockRow[q].task
    BY <1>1, <1>4, <2>1, LiveKeepsTask DEF Expires, LeaseExpires
  <2>. QED
    BY <1>4, <2>2 DEF Expires, LeaseExpires, runVars, Loose
<1>5. ASSUME NEW t \in Tasks, HeartbeatOk(t) PROVE Loose
  <2>1. held[Agent][t] # NoLease
    BY <1>5, Empty DEF HeartbeatOk, Beat
  <2>2. held[Agent][t].repo \in Repos /\ held[Agent][t].token \in Tokens
    BY <1>1, <2>1 DEF TypeOK, Leases
  <2>3. lockRow[held[Agent][t].repo] # NoRow
    BY <1>5, <2>2, Empty DEF HeartbeatOk, Beat, Tokens
  <2>4. \A q \in Repos : lockRow'[q].task = lockRow[q].task
    BY <1>1, <1>5, <2>2, <2>3, LiveKeepsTask DEF HeartbeatOk, Beat
  <2>. QED
    BY <1>5, <2>4 DEF HeartbeatOk, Beat, runVars, Loose
<1>6. ASSUME NEW t \in Tasks, HeartbeatFails(t) PROVE Loose
  BY <1>1, <1>6 DEF HeartbeatFails, BeatFails, CanMoveToRecovery, Working, runVars, Loose, TypeOK
<1>7. ASSUME NEW t \in Tasks,
             \/ Create(t) \/ AcquireRefused(t) \/ AcquireFileFails(t) \/ Fetch(t)
             \/ MayReject(t) \/ Finish(t) \/ QuiesceLease(t)
      PROVE  Loose
  <2>1. /\ UNCHANGED <<status, repoId, evidence, ci, lockRow, section>>
        /\ section[Agent] = Idle
    BY <1>7 DEF Create, AcquireRefused, AcquireFileFails, WriteLockFileFails, Fetch,
       MayReject, Finish, QuiesceLease, Quiesce, Free, leaseVars, runVars
  <2>2. \/ pc' = pc
        \/ \E from, to \in Stages :
             Goto(t, from, to) /\ (to \in Settling \/ (from = "fetch" /\ to = "workspace"))
    BY <1>7 DEF Create, AcquireRefused, AcquireFileFails, Fetch, MayReject, Finish,
       QuiesceLease, Reject, runVars, Settling, Stages
  <2>3. \A u \in Tasks :
          \/ pc'[u] = pc[u]
          \/ pc'[u] \in Settling
          \/ pc[u] = "fetch" /\ pc'[u] = "workspace"
    BY <1>1, <2>2, GotoSettles
  <2>. QED
    BY <2>1, <2>3 DEF Loose
<1>8. ASSUME NEW t \in Tasks, FailTask(t) PROVE Loose
  <2>1. /\ UNCHANGED <<repoId, evidence, ci, lockRow, section>>
        /\ section[Agent] = Idle
        /\ Goto(t, "rejected", "none")
    BY <1>8 DEF FailTask, Free
  <2>2. status' = [status EXCEPT ![t] = "FAILED"] \/ status' = status
    <3>1. [status EXCEPT ![t] = @] = status
      BY <1>1 DEF TypeOK
    <3>. QED
      BY <1>8, <3>1 DEF FailTask
  <2>3. \A u \in Tasks : status'[u] = status[u] \/ (u = t /\ status'[u] = "FAILED")
    BY <1>1, <2>2 DEF TypeOK
  <2>4. pc'[t] = "none" /\ \A u \in Tasks : u # t => pc'[u] = pc[u]
    BY <1>1, <2>1, GotoMoves
  <2>. QED
    BY <2>1, <2>3, <2>4 DEF Loose, Settling
<1>9. ASSUME NEW t \in Tasks, AcquireUndone(t) \/ AcquireUndoFails(t) \/ ReleaseFails(t)
      PROVE  Loose
  <2>1. UNCHANGED <<status, repoId, evidence, ci, lockRow>> /\ section'[Agent] = Idle
    BY <1>1, <1>9 DEF AcquireUndone, AcquireUndoFails, ReleaseFails, UndoLockFile, UndoThrows,
       ReleaseThrows, TypeOK
  <2>2. \E from, to \in Stages : Goto(t, from, to) /\ to \in Settling
    BY <1>9 DEF AcquireUndone, AcquireUndoFails, ReleaseFails, Reject, Settling, Stages
  <2>3. \A u \in Tasks : pc'[u] = pc[u] \/ pc'[u] \in Settling
    <3>1. PICK from \in Stages, to \in Stages : Goto(t, from, to) /\ to \in Settling
      BY <2>2
    <3>. QED
      BY <1>1, <3>1, GotoMoves
  <2>. QED
    BY <2>1, <2>3 DEF Loose
<1>. QED
  BY <1>2, <1>3, <1>4, <1>5, <1>6, <1>7, <1>8, <1>9

(* A step of one run under the lease, between two calls of the lock         *)
(* service: what it owes is said of its own task alone.                     *)
LEMMA AdvanceStep ==
  ASSUME RunInv, NEW t \in Tasks,
         UNCHANGED <<repoId, lockRow, section>>, section[Agent] = Idle,
         \A u \in Tasks : u # t =>
           /\ pc'[u] = pc[u] /\ status'[u] = status[u]
           /\ evidence'[u] = evidence[u] /\ ci'[u] = ci[u],
         AtStage(t)', Behind(t)',
         Mutating(t)' => repoId[t] \in Repos /\ lockRow[repoId[t]].task = t,
         status'[t] = "COMPLETED" =>
           /\ evidence'[t] = [sealed |-> TRUE, commit |-> "confirmed", remote |-> TRUE, pr |-> TRUE]
           /\ ci'[t] = "SUCCESS"
           /\ \A r \in Repos : lockRow[r].task # t
  PROVE  Staged'
<1>1. ASSUME NEW u \in Tasks PROVE (AtStage(u) /\ Behind(u))'
  BY <1>1 DEF RunInv, StageOK, AtStage, Behind
<1>2. StageSection'
  BY Empty DEF StageSection
<1>3. RowsBound'
  BY DEF RunInv, RowsBound
<1>4. WorkUnderLease'
  BY DEF RunInv, WorkUnderLease, Mutating
<1>5. CompletedEvidence'
  BY DEF RunInv, CompletedEvidence
<1>. QED
  BY <1>1, <1>2, <1>3, <1>4, <1>5 DEF Staged, StageOK

(* A lease object that passes ownedExecutionLease names the task's row.     *)
LEMMA OwnsLeaseRow ==
  ASSUME RunInv, NEW t \in Tasks, OwnsLease(t)
  PROVE  repoId[t] \in Repos /\ lockRow[repoId[t]].task = t
BY AgentRuns DEF RunInv, IInv, TypeOK, HolderOwnsRow, Leases, OwnsLease

LEMMA AdvanceActions ==
  ASSUME RunInv, NEW t \in Tasks,
         \/ CreateWorkspace(t) \/ Modify(t) \/ Verify(t) \/ Verified(t) \/ Commit(t)
         \/ Push(t) \/ Confirm(t) \/ EnsurePr(t) \/ Complete(t)
         \/ \E outcome \in {"SUCCESS", "FAILURE", "PENDING"} : ObserveCi(t, outcome)
  PROVE  Staged'
<1>1. /\ pc \in [Tasks -> Stages]
      /\ evidence \in [Tasks -> Evidence]
      /\ status \in [Tasks -> Statuses]
      /\ DOMAIN ci = Tasks
  BY DEF RunInv, RunTypeOK, TypeOK
<1>2. AtStage(t) /\ Behind(t)
  BY DEF RunInv, StageOK
<1>3. status[t] = "COMPLETED" => pc[t] \notin {"fetch", "workspace", "modify", "verify"} \cup AfterSeal
  BY <1>2 DEF AtStage
<1>4. Mutating(t) => repoId[t] \in Repos /\ lockRow[repoId[t]].task = t
  BY DEF RunInv, WorkUnderLease
<1> USE DEF Goto, Progress, Free, AfterSeal, AfterPush, AfterConfirm, AfterRelease
<1>5. ASSUME CreateWorkspace(t) \/ Modify(t) \/ Verified(t)
      PROVE  Staged'
  <2>1. /\ UNCHANGED <<repoId, lockRow, section, evidence, ci>> /\ section[Agent] = Idle
        /\ \A u \in Tasks : u # t => pc'[u] = pc[u] /\ status'[u] = status[u]
    BY <1>1, <1>5 DEF CreateWorkspace, Modify, Verified
  <2>2. AtStage(t)' /\ Behind(t)'
    BY <1>1, <1>2, <1>5 DEF CreateWorkspace, Modify, Verified, AtStage, Behind
  <2>3. Mutating(t)' => Mutating(t)
    BY <1>1, <1>5 DEF CreateWorkspace, Modify, Verified, Mutating
  <2>4. status'[t] # "COMPLETED"
    BY <1>1, <1>3, <1>5 DEF CreateWorkspace, Modify, Verified
  <2>. QED
    BY <1>4, <2>1, <2>2, <2>3, <2>4, AdvanceStep
<1>6. ASSUME Verify(t) \/ Commit(t) \/ Push(t) \/ Confirm(t) \/ EnsurePr(t)
      PROVE  Staged'
  <2>1. /\ UNCHANGED <<repoId, lockRow, section, status, ci>> /\ section[Agent] = Idle
        /\ \A u \in Tasks : u # t => pc'[u] = pc[u] /\ evidence'[u] = evidence[u]
    BY <1>1, <1>6 DEF Verify, Commit, Push, Confirm, EnsurePr, Reject, leaseVars
  <2>2. AtStage(t)' /\ Behind(t)'
    <3>1. AtStage(t)'
      BY <1>1, <1>2, <1>6 DEF Verify, Commit, Push, Confirm, EnsurePr, Reject, AtStage, leaseVars
    <3>2. CASE Verify(t)
      <4>1. /\ pc'[t] = "verified"
            /\ UNCHANGED <<ci, lockRow>>
        BY <1>1, <3>2 DEF Verify, leaseVars
      <4>2. evidence'[t] = [evidence[t] EXCEPT !.sealed = TRUE]
        BY <1>1, <3>2 DEF Verify
      <4>. QED
        BY <1>1, <1>2, <3>1, <4>1, <4>2 DEF Behind, Evidence
    <3>3. CASE Commit(t)
      <4>1. /\ pc'[t] = "push" /\ evidence[t].sealed
            /\ UNCHANGED <<ci, lockRow>>
        BY <1>1, <3>3 DEF Commit, leaseVars
      <4>2. evidence'[t] = [evidence[t] EXCEPT !.commit = "recorded"]
        BY <1>1, <3>3 DEF Commit
      <4>. QED
        BY <1>1, <1>2, <3>1, <4>1, <4>2 DEF Behind, Evidence
    <3>4. CASE Push(t)
      <4>1. /\ pc[t] = "push" /\ pc'[t] \in {"confirm", "rejected"}
            /\ UNCHANGED <<ci, lockRow>>
        BY <1>1, <3>4 DEF Push, Reject, leaseVars
      <4>2. evidence'[t] = [evidence[t] EXCEPT !.remote = TRUE]
        BY <1>1, <3>4 DEF Push
      <4>. QED
        BY <1>1, <1>2, <3>1, <4>1, <4>2 DEF Behind, Evidence
    <3>5. CASE Confirm(t)
      <4>1. /\ pc[t] = "confirm" /\ pc'[t] = "release"
            /\ UNCHANGED <<ci, lockRow>>
        BY <1>1, <3>5 DEF Confirm, leaseVars
      <4>2. evidence'[t] = [evidence[t] EXCEPT !.commit = "confirmed"]
        BY <1>1, <3>5 DEF Confirm
      <4>. QED
        BY <1>1, <1>2, <3>1, <4>1, <4>2 DEF Behind, Evidence
    <3>6. CASE EnsurePr(t)
      <4>1. /\ pc[t] = "pr" /\ pc'[t] = "ci"
            /\ UNCHANGED <<ci, lockRow>>
        BY <1>1, <3>6 DEF EnsurePr, leaseVars
      <4>2. evidence'[t] = [evidence[t] EXCEPT !.pr = TRUE]
        BY <1>1, <3>6 DEF EnsurePr
      <4>. QED
        BY <1>1, <1>2, <3>1, <4>1, <4>2 DEF Behind, Evidence
    <3>. QED
      BY <1>6, <3>1, <3>2, <3>3, <3>4, <3>5, <3>6
  <2>3. Mutating(t)' => Mutating(t) \/ OwnsLease(t)
    BY <1>1, <1>6 DEF Verify, Commit, Push, Confirm, EnsurePr, GitContext, Mutating, Evidence,
       leaseVars
  <2>4. status'[t] # "COMPLETED"
    BY <1>3, <1>6, <2>1 DEF Verify, Commit, Push, Confirm, EnsurePr, Reject
  <2>. QED
    BY <1>4, <2>1, <2>2, <2>3, <2>4, AdvanceStep, OwnsLeaseRow
<1>7. ASSUME NEW outcome \in {"SUCCESS", "FAILURE", "PENDING"}, ObserveCi(t, outcome)
      PROVE  Staged'
  <2>1. /\ UNCHANGED <<repoId, lockRow, section, status, evidence>> /\ section[Agent] = Idle
        /\ \A u \in Tasks : u # t => pc'[u] = pc[u] /\ ci'[u] = ci[u]
    BY <1>1, <1>7 DEF ObserveCi, leaseVars
  <2>2. AtStage(t)' /\ Behind(t)'
    BY <1>1, <1>2, <1>7 DEF ObserveCi, AtStage, Behind, leaseVars
  <2>3. Mutating(t)' => Mutating(t)
    BY <2>1 DEF Mutating
  <2>4. status'[t] # "COMPLETED"
    BY <1>3, <1>7, <2>1 DEF ObserveCi
  <2>. QED
    BY <1>4, <2>1, <2>2, <2>3, <2>4, AdvanceStep
<1>8. ASSUME Complete(t)
      PROVE  Staged'
  <2>1. /\ UNCHANGED <<repoId, lockRow, section, evidence, ci>> /\ section[Agent] = Idle
        /\ \A u \in Tasks : u # t => pc'[u] = pc[u] /\ status'[u] = status[u]
        /\ pc[t] = "complete" /\ pc'[t] = "resolved" /\ status'[t] = "COMPLETED"
    BY <1>1, <1>8 DEF Complete
  <2>2. AtStage(t)' /\ Behind(t)' /\ ~Mutating(t)'
    BY <2>1 DEF AtStage, Behind, Mutating
  <2>3. /\ evidence[t] = [sealed |-> TRUE, commit |-> "confirmed", remote |-> TRUE, pr |-> TRUE]
        /\ ci[t] = "SUCCESS"
        /\ \A r \in Repos : lockRow[r].task # t
    BY <1>1, <1>2, <2>1 DEF Behind, Evidence
  <2>. QED
    BY <2>1, <2>2, <2>3, AdvanceStep
<1>. QED
  BY <1>5, <1>6, <1>7, <1>8

(* A tick moves only tasks that were waiting, and starts their runs.        *)
LEMMA DispatchStep ==
  ASSUME RunInv, Start \/ Tick
  PROVE  Staged'
<1>1. /\ UNCHANGED <<repoId, lockRow, section, evidence, ci>>
      /\ section[Agent] = Idle
  BY DEF Start, Tick, Free
<1>2. \A t \in Tasks :
        \/ pc'[t] = pc[t] /\ status'[t] = status[t]
        \/ pc'[t] = "resolve" /\ status'[t] = "WAITING_REPO_LOCK"
  BY DEF Start, Tick, Dispatch
<1>3. ASSUME NEW t \in Tasks PROVE (AtStage(t) /\ Behind(t))'
  BY <1>1, <1>2 DEF RunInv, StageOK, AtStage, Behind, AfterSeal, AfterPush, AfterConfirm,
     AfterRelease
<1>4. StageSection' /\ RowsBound'
  BY <1>1, Empty DEF RunInv, StageSection, RowsBound
<1>5. WorkUnderLease'
  BY <1>1, <1>2 DEF RunInv, WorkUnderLease, Mutating
<1>6. CompletedEvidence'
  BY <1>1, <1>2 DEF RunInv, CompletedEvidence
<1>. QED
  BY <1>3, <1>4, <1>5, <1>6 DEF Staged, StageOK

(* Binding: a task whose row exists is bound already.                       *)
LEMMA ResolveStep ==
  ASSUME RunInv, NEW t \in Tasks, Resolve(t)
  PROVE  Staged'
<1>1. /\ UNCHANGED <<status, lockRow, section, evidence, ci>>
      /\ section[Agent] = Idle
      /\ pc'[t] \in {"acquire", "rejected"}
      /\ \A u \in Tasks : u # t => pc'[u] = pc[u]
  BY DEF Resolve, Free, Reject, Goto, RunInv, RunTypeOK
<1>2. \A u \in Tasks : repoId'[u] = repoId[u] \/ repoId[u] = NoRepo
  BY DEF Resolve, BindRepository, RunInv, IInv, TypeOK
<1>3. ASSUME NEW u \in Tasks PROVE (AtStage(u) /\ Behind(u))'
  BY <1>1 DEF RunInv, StageOK, AtStage, Behind, AfterSeal, AfterPush, AfterConfirm,
     AfterRelease
<1>4. StageSection'
  BY <1>1, Empty DEF StageSection
<1>5. RowsBound'
  BY <1>1, <1>2, ConstAssumption DEF RunInv, RowsBound
<1>6. WorkUnderLease'
  BY <1>1, <1>2, ConstAssumption DEF RunInv, WorkUnderLease, Mutating
<1>7. CompletedEvidence'
  BY <1>1 DEF RunInv, CompletedEvidence
<1>. QED
  BY <1>3, <1>4, <1>5, <1>6, <1>7 DEF Staged, StageOK

(* The steps of acquire: only its last one creates the row, for a task that *)
(* waits, where no row was.                                                 *)
LEMMA AcquireStep ==
  ASSUME RunInv, NEW t \in Tasks, AcquireFile(t) \/ AcquireFails(t)
  PROVE  Staged'
<1>1. UNCHANGED <<status, repoId, lockRow, pc, evidence, ci>>
  BY DEF AcquireFile, AcquireFails, OpenLockFile, PrepareFails, runVars
<1>2. StageSection'
  <2>1. CASE AcquireFile(t)
    BY <1>1, <2>1, AgentRuns DEF AcquireFile, OpenLockFile, StageSection, RunInv, IInv, TypeOK
  <2>2. CASE AcquireFails(t)
    <3>1. section[Agent] \in [op : Ops, task : Tasks, repo : Repos, token : Tokens]
      BY <2>2, AgentRuns, Empty DEF AcquireFails, PrepareFails, RunInv, IInv, TypeOK, Sections
    <3>2. /\ section'[Agent].task = section[Agent].task
          /\ section'[Agent].op \in {"undoConflict", "undoError"}
          /\ section[Agent].op = "acquire"
      BY <2>2, <3>1, AgentRuns DEF AcquireFails, PrepareFails, RunInv, IInv, TypeOK
    <3>. QED
      BY <1>1, <3>2 DEF StageSection, RunInv
  <2>. QED
    BY <2>1, <2>2
<1>3. ASSUME NEW u \in Tasks PROVE (AtStage(u) /\ Behind(u))'
  BY <1>1 DEF RunInv, StageOK, AtStage, Behind
<1>4. RowsBound' /\ WorkUnderLease' /\ CompletedEvidence'
  BY <1>1 DEF RunInv, RowsBound, WorkUnderLease, Mutating, CompletedEvidence
<1>. QED
  BY <1>2, <1>3, <1>4 DEF Staged, StageOK

LEMMA AcquiredStep ==
  ASSUME RunInv, NEW t \in Tasks, Acquired(t)
  PROVE  Staged'
<1>1. PICK r \in Repos : section[Agent].repo = r
  BY AgentRuns, Empty DEF Acquired, PrepareTask, RunInv, IInv, TypeOK, Sections
<1>2. /\ UNCHANGED <<repoId, evidence, ci>>
      /\ section'[Agent] = Idle
      /\ lockRow[r] = NoRow /\ lockRow'[r].task = t
      /\ \A q \in Repos : q # r => lockRow'[q] = lockRow[q]
      /\ status[t] = "WAITING_REPO_LOCK" /\ status'[t] = "PREPARING"
      /\ pc'[t] = "fetch" /\ repoId[t] = r
  BY <1>1, AgentRuns DEF Acquired, PrepareTask, RowConflict, WaitingFor, Goto, RunInv, IInv,
     TypeOK, RunTypeOK
<1>3. \A u \in Tasks : u # t => status'[u] = status[u] /\ pc'[u] = pc[u]
  BY AgentRuns DEF Acquired, PrepareTask, Goto, RunInv, IInv, TypeOK, RunTypeOK
<1>4. \A u \in Tasks : u # t => (lockRow'[r].task # u /\ lockRow[r].task # u)
  BY <1>2, Empty, ConstAssumption
<1>5. ASSUME NEW u \in Tasks PROVE (AtStage(u) /\ Behind(u))'
  BY <1>2, <1>3, <1>4 DEF RunInv, StageOK, AtStage, Behind, AfterSeal, AfterPush,
     AfterConfirm, AfterRelease
<1>6. StageSection'
  BY <1>2, Empty DEF StageSection
<1>7. RowsBound'
  BY <1>2, <1>4 DEF RunInv, RowsBound
<1>8. WorkUnderLease'
  BY <1>2, <1>3, <1>4 DEF RunInv, WorkUnderLease, Mutating
<1>9. CompletedEvidence'
  BY <1>2, <1>3, <1>4 DEF RunInv, CompletedEvidence
<1>. QED
  BY <1>5, <1>6, <1>7, <1>8, <1>9 DEF Staged, StageOK

(* The steps of the release: the row goes while the run is at its release,  *)
(* hence after the commit was confirmed, and nothing works without it.      *)
LEMMA RowReleaseStep ==
  ASSUME RunInv, NEW t \in Tasks, Release(t)
  PROVE  Staged'
<1>1. /\ UNCHANGED <<status, repoId, pc, evidence, ci>> /\ pc[t] = "release"
  BY DEF Release, StartRelease, DeleteRow, runVars
<1>2. CASE StartRelease(Agent, t)
  <2>1. UNCHANGED lockRow
    BY <1>2 DEF StartRelease
  <2>2. /\ section'[Agent].op = "releaseRow" /\ section'[Agent].task = t
        /\ section'[Agent].repo = held[Agent][t].repo
    BY <1>2, AgentRuns DEF StartRelease, RunInv, IInv, TypeOK
  <2>3. repoId[t] = held[Agent][t].repo /\ lockRow[held[Agent][t].repo].task = t
    BY <1>2, AgentRuns DEF StartRelease, RunInv, IInv, HolderOwnsRow
  <2>4. StageSection'
    BY <1>1, <2>1, <2>2, <2>3 DEF StageSection
  <2>5. ASSUME NEW u \in Tasks PROVE (AtStage(u) /\ Behind(u))'
    BY <1>1, <2>1 DEF RunInv, StageOK, AtStage, Behind
  <2>6. RowsBound' /\ WorkUnderLease' /\ CompletedEvidence'
    BY <1>1, <2>1 DEF RunInv, RowsBound, WorkUnderLease, Mutating, CompletedEvidence
  <2>. QED
    BY <2>4, <2>5, <2>6 DEF Staged, StageOK
<1>3. CASE section[Agent].task = t /\ DeleteRow(Agent)
  <2>1. section[Agent] \in [op : Ops, task : Tasks, repo : Repos, token : Tokens]
    BY <1>3, AgentRuns, Empty DEF DeleteRow, RunInv, IInv, TypeOK, Sections
  <2>2. PICK r \in Repos : section[Agent].repo = r
    BY <2>1
  <2>3. /\ lockRow[r].task = t /\ repoId[t] = r
        /\ lockRow' = [lockRow EXCEPT ![r] = NoRow]
    <3>1. lockRow[r].token = section[Agent].token
      BY <1>3, <2>2, AgentRuns, Empty DEF DeleteRow, RunInv, IInv, SectionOwns
    <3>. QED
      BY <1>3, <2>2, <3>1 DEF DeleteRow, RunInv, StageSection
  <2>4. /\ lockRow'[r] = NoRow
        /\ \A q \in Repos : q # r => lockRow'[q] = lockRow[q] /\ lockRow'[q].task # t
    BY <2>3 DEF RunInv, IInv, TypeOK, RowsBound
  <2>5. \A u \in Tasks : u # t => (lockRow'[r].task # u /\ lockRow[r].task # u)
    BY <2>3, <2>4, Empty, ConstAssumption
  <2>6. ~Mutating(t)
    BY <1>1 DEF RunInv, StageOK, AtStage, Behind, Mutating, AfterSeal, AfterPush, AfterConfirm
  <2>7. /\ section'[Agent].task = t /\ section'[Agent].op = "releaseFile"
        /\ section'[Agent].repo = r
    BY <1>3, <2>1, <2>2, AgentRuns DEF DeleteRow, RunInv, IInv, TypeOK
  <2>8. StageSection'
    BY <1>1, <2>3, <2>7 DEF StageSection
  <2>9. ASSUME NEW u \in Tasks PROVE (AtStage(u) /\ Behind(u))'
    BY <1>1, <2>2, <2>4, <2>5 DEF RunInv, StageOK, AtStage, Behind, AfterSeal, AfterPush,
       AfterConfirm, AfterRelease
  <2>10. RowsBound'
    BY <1>1, <2>3, <2>4, <2>5 DEF RunInv, RowsBound
  <2>11. WorkUnderLease'
    BY <1>1, <2>4, <2>5, <2>6 DEF RunInv, WorkUnderLease, Mutating
  <2>12. CompletedEvidence'
    BY <1>1, <2>3, <2>4, <2>5 DEF RunInv, CompletedEvidence
  <2>. QED
    BY <2>8, <2>9, <2>10, <2>11, <2>12 DEF Staged, StageOK
<1>. QED
  BY <1>2, <1>3 DEF Release

LEMMA ReleasedStep ==
  ASSUME RunInv, NEW t \in Tasks, Released(t)
  PROVE  Staged'
<1>1. section[Agent].op = "releaseFile" /\ section[Agent].task = t /\ section[Agent] # Idle
  BY Empty DEF Released, RemoveLockFile
<1>2. /\ UNCHANGED <<status, repoId, lockRow, evidence, ci>>
      /\ section'[Agent] = Idle
      /\ pc[t] = "release" /\ pc'[t] = "pr"
      /\ \A u \in Tasks : u # t => pc'[u] = pc[u]
  BY AgentRuns DEF Released, RemoveLockFile, Goto, RunInv, IInv, TypeOK, RunTypeOK
<1>3. \A r \in Repos : lockRow[r].task # t
  <2>1. lockRow[section[Agent].repo] = NoRow /\ repoId[t] = section[Agent].repo
    BY <1>1, AgentRuns DEF RunInv, IInv, SectionOwns, StageSection
  <2>. QED
    BY <2>1, Empty, ConstAssumption DEF RunInv, RowsBound
<1>4. ASSUME NEW u \in Tasks PROVE (AtStage(u) /\ Behind(u))'
  BY <1>2, <1>3 DEF RunInv, StageOK, AtStage, Behind, AfterSeal, AfterPush, AfterConfirm,
     AfterRelease
<1>5. StageSection'
  BY <1>2, Empty DEF StageSection
<1>6. RowsBound' /\ WorkUnderLease' /\ CompletedEvidence'
  BY <1>2 DEF RunInv, RowsBound, WorkUnderLease, Mutating, CompletedEvidence
<1>. QED
  BY <1>4, <1>5, <1>6 DEF Staged, StageOK

-----------------------------------------------------------------------------
(* The invariant of the run.                                               *)

LEMMA RunInitInv == RunInit => RunInv
<1>. SUFFICES ASSUME RunInit PROVE RunInv
  OBVIOUS
<1>1. IInv
  BY InitIInv DEF RunInit
<1>2. RunTypeOK
  <2>1. { t \in Tasks : seq[t] # 0 } = {}
    BY DEF RunInit
  <2>2. IsFiniteSet({ t \in Tasks : seq[t] # 0 })
    BY <2>1, FS_EmptySet
  <2>. QED
    BY <1>1, <2>2, RunAssumption DEF RunInit, RunTypeOK, IInv, Stages, Evidence, NoEvidence,
       CommitStates
<1>3. StageOK
  BY DEF RunInit, StageOK, AtStage, Behind, AfterSeal, AfterPush, AfterConfirm, AfterRelease
<1>4. StageSection
  BY AgentRuns, Empty DEF RunInit, Init, StageSection
<1>5. RowsBound
  BY Empty, ConstAssumption DEF RunInit, Init, RowsBound
<1>6. WorkUnderLease /\ CompletedEvidence
  BY DEF RunInit, Init, WorkUnderLease, Mutating, CompletedEvidence
<1>. QED
  BY <1>1, <1>2, <1>3, <1>4, <1>5, <1>6 DEF RunInv

(* The four ways a step can go: it gains nothing, a tick dispatches, a run  *)
(* advances between calls, or a call of the lock service takes a step.      *)
LEMMA RunCases ==
  ASSUME RunInv, RunTypeOK', [RunNext]_vars
  PROVE  \/ Loose
         \/ Start \/ Tick
         \/ \E t \in Tasks :
              \/ CreateWorkspace(t) \/ Modify(t) \/ Verify(t) \/ Verified(t) \/ Commit(t)
              \/ Push(t) \/ Confirm(t) \/ EnsurePr(t) \/ Complete(t)
              \/ \E outcome \in {"SUCCESS", "FAILURE", "PENDING"} : ObserveCi(t, outcome)
         \/ \E t \in Tasks :
              \/ Resolve(t) \/ AcquireFile(t) \/ AcquireFails(t) \/ Acquired(t)
              \/ Release(t) \/ Released(t)
<1>1. CASE UNCHANGED vars
  BY <1>1, LooseActions
<1>2. CASE Stop \/ Exit \/ CrashAgent \/ RestartAgent \/ \E r \in Repos : Expires(r)
  BY <1>2, LooseActions
<1>3. CASE Start \/ Tick
  BY <1>3
<1>4. ASSUME NEW t \in Tasks,
             \/ Create(t) \/ AcquireFileFails(t) \/ AcquireUndoFails(t) \/ ReleaseFails(t)
             \/ HeartbeatOk(t) \/ HeartbeatFails(t) \/ QuiesceLease(t)
             \/ AcquireRefused(t) \/ AcquireUndone(t) \/ Fetch(t) \/ MayReject(t)
             \/ Finish(t) \/ FailTask(t)
      PROVE  Loose
  BY <1>4, LooseActions
<1>5. CASE \E t \in Tasks :
             \/ Create(t) \/ RunStep(t) \/ AcquireFileFails(t) \/ AcquireUndoFails(t)
             \/ ReleaseFails(t) \/ HeartbeatOk(t) \/ HeartbeatFails(t) \/ QuiesceLease(t)
  BY <1>4, <1>5 DEF RunStep
<1>. QED
  BY <1>1, <1>2, <1>3, <1>5 DEF RunNext

LEMMA RunNextInv == RunInv /\ [RunNext]_vars => RunInv'
<1>. SUFFICES ASSUME RunInv, [RunNext]_vars PROVE RunInv'
  OBVIOUS
<1>1. IInv'
  BY RunIInv DEF RunInv
<1>2. RunTypeOK'
  BY <1>1, RunTyped DEF RunInv, IInv
<1>3. Staged'
  BY <1>2, RunCases, LooseStep, DispatchStep, AdvanceActions, ResolveStep, AcquireStep,
     AcquiredStep, RowReleaseStep, ReleasedStep
<1>. QED
  BY <1>1, <1>2, <1>3 DEF RunInv, Staged

(* Every reachable state of the agent is well typed, keeps the invariant of *)
(* the lock service, and has each run at a stage that matches the status,   *)
(* the row and the durable results of its task.                             *)
THEOREM RunInvariant == RunSpec => []RunInv
<1>. QED
  BY RunInitInv, RunNextInv, PTL DEF RunSpec

(* The lock's exclusion holds inside the agent as it does for any caller.   *)
THEOREM AgentLeasesExclusive == RunSpec => [](RowBackedByFile /\ ExclusiveLease)
<1>1. RunInv => RowBackedByFile /\ ExclusiveLease
  <2>. SUFFICES ASSUME RunInv,
                       NEW p \in Procs, NEW q \in Procs, NEW t \in Tasks, NEW u \in Tasks,
                       held[p][t] # NoLease, held[q][u] # NoLease,
                       held[p][t].repo = held[q][u].repo
                PROVE  p = q /\ t = u
    BY DEF ExclusiveLease, RunInv, IInv
  <2>1. held[p][t].token = held[q][u].token
    BY DEF RunInv, IInv, HolderOwnsRow
  <2>. QED
    BY <2>1 DEF RunInv, IInv, OneHolder
<1>. QED
  BY <1>1, RunInvariant, PTL

(* A task at work owns the row of its repository, at every moment of a run, *)
(* of its failures and of a crash.                                          *)
THEOREM TasksWorkUnderLease == RunSpec => []WorkUnderLease
<1>1. RunInv => WorkUnderLease
  BY DEF RunInv
<1>. QED
  BY <1>1, RunInvariant, PTL

(* A COMPLETED task has its sealed plan, its confirmed commit, its pull     *)
(* request and a successful CI, and no row of it is left.                   *)
THEOREM CompletionEarned == RunSpec => []CompletedEvidence
<1>1. RunInv => CompletedEvidence
  BY DEF RunInv
<1>. QED
  BY <1>1, RunInvariant, PTL

(* Only a release whose commit the remote confirmed deletes a row: it is    *)
(* the only step that takes a row away, and it runs at the stage that has   *)
(* the confirmation behind it.                                              *)
THEOREM RowsFreedAfterConfirmation == RunSpec => FreedOnlyAfterConfirmation
<1> DEFINE Freed ==
      \A r \in Repos :
        lockRow[r] # NoRow /\ lockRow'[r] = NoRow
        => evidence[lockRow[r].task].commit = "confirmed"
<1>1. RunInv /\ RunInv' /\ [RunNext]_vars => [Freed]_vars
  <2>. SUFFICES ASSUME RunInv, RunTypeOK', [RunNext]_vars, NEW r \in Repos,
                       lockRow[r] # NoRow, lockRow'[r] = NoRow
                PROVE  evidence[lockRow[r].task].commit = "confirmed"
    BY DEF RunInv
  <2>1. lockRow'[r].task # lockRow[r].task
    BY Empty, ConstAssumption DEF RunInv, IInv, TypeOK, Rows
  <2>2. ~Loose
    BY <2>1 DEF Loose
  <2>3. ASSUME NEW t \in Tasks, Acquired(t) PROVE FALSE
    BY <2>1, <2>3 DEF Acquired, PrepareTask, RowConflict, RunInv, IInv, TypeOK, Rows
  <2>4. PICK t \in Tasks : Release(t)
    BY <2>1, <2>2, <2>3, RunCases DEF Start, Tick, CreateWorkspace, Modify, Verify, Verified,
       Commit, Push, Confirm, EnsurePr, Complete, ObserveCi, Resolve, AcquireFile,
       AcquireFails, Released, OpenLockFile, PrepareFails, RemoveLockFile, leaseVars
  <2>5. section[Agent].task = t /\ DeleteRow(Agent)
    BY <2>1, <2>4 DEF Release, StartRelease
  <2>6. section[Agent].repo = r
    BY <2>1, <2>5 DEF DeleteRow, RunInv, IInv, TypeOK
  <2>7. lockRow[r].task = t
    BY <2>5, <2>6 DEF DeleteRow, RunInv, StageSection
  <2>8. pc[t] = "release"
    BY <2>4 DEF Release
  <2>. QED
    BY <2>7, <2>8 DEF RunInv, StageOK, Behind, AfterConfirm
<1>. QED
  BY <1>1, RunInvariant, PTL DEF RunSpec, FreedOnlyAfterConfirmation

(* A task sent to recovery never works or completes again under this agent. *)
THEOREM RecoverySticks == RunSpec => RecoveryIsSticky
<1> DEFINE Sticky ==
      \A t \in Tasks :
        status[t] = "NEEDS_RECOVERY" => status'[t] \in {"NEEDS_RECOVERY", "FAILED"}
<1>1. RunInv /\ RunInv' /\ [RunNext]_vars => [Sticky]_vars
  <2>. SUFFICES ASSUME RunInv, RunTypeOK', [RunNext]_vars, NEW t \in Tasks,
                       status[t] = "NEEDS_RECOVERY",
                       status'[t] \notin {"NEEDS_RECOVERY", "FAILED"}
                PROVE  FALSE
    BY DEF RunInv
  <2>1. status \in [Tasks -> Statuses] /\ status'[t] # status[t]
    BY DEF RunInv, IInv, TypeOK
  <2>2. ~Loose
    BY <2>1 DEF Loose
  <2>3. ~(Start \/ Tick)
    BY <2>1 DEF Start, Tick, Dispatch, Runnable, Oldest, InStatus
  <2>4. ASSUME NEW u \in Tasks, CreateWorkspace(u) \/ Modify(u) \/ Verified(u) PROVE FALSE
    BY <2>1, <2>4 DEF CreateWorkspace, Modify, Verified, Progress
  <2>5. ASSUME NEW u \in Tasks, Complete(u) PROVE FALSE
    <3>1. u = t
      BY <2>1, <2>5 DEF Complete
    <3>. QED
      BY <2>5, <3>1 DEF Complete, CanTransition, TaskTransitions, Working
  <2>6. ASSUME NEW u \in Tasks, Acquired(u) PROVE FALSE
    BY <2>1, <2>6, AgentRuns DEF Acquired, PrepareTask, WaitingFor
  <2>. QED
    BY <2>1, <2>2, <2>3, <2>4, <2>5, <2>6, RunCases DEF Verify, Commit, Push, Confirm,
       EnsurePr, ObserveCi, Resolve, AcquireFile, AcquireFails, Release, Released,
       OpenLockFile, PrepareFails, StartRelease, DeleteRow, RemoveLockFile, leaseVars
<1>. QED
  BY <1>1, RunInvariant, PTL DEF RunSpec, RecoveryIsSticky

=============================================================================
