-------------------------- MODULE RepoLeaseProofs --------------------------
(***************************************************************************)
(* Proofs about the lock service, for any number of processes, tasks,      *)
(* repositories and tokens.                                                *)
(***************************************************************************)
EXTENDS RepoLease, TLAPS

USE DEF Absent, Torn

(* The empty values, told apart from real ones by their fields.             *)
LEMMA Empty ==
  /\ NoRow.token = 0 /\ NoRow.task = NoTask /\ ~NoRow.live
  /\ NoLease.token = 0 /\ NoLease.repo = NoRepo /\ ~NoLease.timer
  /\ Idle.op = "idle" /\ Idle.token = 0 /\ Idle.task = NoTask /\ Idle.repo = NoRepo
BY DEF NoRow, NoLease, Idle

-----------------------------------------------------------------------------
(* Type correctness.                                                       *)

LEMMA InitTypeOK == Init => TypeOK
BY ConstAssumption DEF Init, TypeOK, Statuses, Rows, Leases, Sections

LEMMA CallerTypeOK == TypeOK /\ Caller => TypeOK'
BY DEF TypeOK, Caller, BindRepository, TransitionTask

LEMMA ServiceTypeOK == TypeOK /\ Service => TypeOK'
<1> SUFFICES ASSUME TypeOK, Service PROVE TypeOK'
  OBVIOUS
<1> USE ConstAssumption, Empty DEF TypeOK
<1>1. ASSUME NEW p \in Procs, NEW t \in Tasks, NEW r \in Repos, OpenLockFile(p, t, r)
      PROVE  TypeOK'
  BY <1>1 DEF OpenLockFile, Sections, Ops, Tokens
<1>2. ASSUME NEW p \in Procs, NEW t \in Tasks, Beat(p, t) PROVE TypeOK'
  <2> DEFINE r == held[p][t].repo
  <2>1. r \in Repos /\ lockRow[r] \in [token : Tokens, task : Tasks, live : BOOLEAN]
    BY <1>2 DEF Beat, Rows, Leases, Tokens
  <2>2. [lockRow[r] EXCEPT !.live = TRUE] \in [token : Tokens, task : Tasks, live : BOOLEAN]
    BY <2>1
  <2>. QED
    BY <1>2, <2>1, <2>2 DEF Beat, Rows
<1>3. ASSUME NEW p \in Procs, NEW t \in Tasks, BeatFails(p, t) PROVE TypeOK'
  <2>1. held[p][t] \in [token : Tokens, repo : Repos, timer : BOOLEAN]
    BY <1>3 DEF BeatFails, Leases
  <2>2. [held[p][t] EXCEPT !.timer = FALSE] \in Leases
    BY <2>1 DEF Leases
  <2>3. held' \in [Procs -> [Tasks -> Leases]]
    BY <1>3, <2>2 DEF BeatFails
  <2>4. status' \in [Tasks -> Statuses]
    BY <1>3 DEF BeatFails, Statuses
  <2>. QED
    BY <1>3, <2>3, <2>4 DEF BeatFails
<1>4. ASSUME NEW p \in Procs, NEW t \in Tasks, StartRelease(p, t) PROVE TypeOK'
  <2>1. held[p][t] \in [token : Tokens, repo : Repos, timer : BOOLEAN]
    BY <1>4 DEF StartRelease, Leases
  <2>2. NoLease \in Leases /\ held[p] \in [Tasks -> Leases]
    BY DEF Leases
  <2>3. held' \in [Procs -> [Tasks -> Leases]]
    BY <1>4, <2>2 DEF StartRelease
  <2>4. section' \in [Procs -> Sections]
    BY <1>4, <2>1 DEF StartRelease, Sections, Ops
  <2>. QED
    BY <1>4, <2>3, <2>4 DEF StartRelease
<1>5. ASSUME NEW p \in Procs, NEW t \in Tasks, Quiesce(p, t) PROVE TypeOK'
  <2>1. held[p][t] \in [token : Tokens, repo : Repos, timer : BOOLEAN]
    BY <1>5 DEF Quiesce, Leases
  <2>2. [held[p][t] EXCEPT !.timer = FALSE] \in Leases
    BY <2>1 DEF Leases
  <2>. QED
    BY <1>5, <2>2 DEF Quiesce
<1>6. ASSUME NEW p \in Procs, NEW r \in Repos, WriteLockFileFails(p, r) PROVE TypeOK'
  BY <1>6 DEF WriteLockFileFails, Tokens
<1>7. ASSUME NEW p \in Procs, PrepareTask(p) PROVE TypeOK'
  BY <1>7 DEF PrepareTask, Sections, Ops, Rows, Leases, Statuses, Tokens
<1>8. ASSUME NEW p \in Procs, PrepareFails(p) PROVE TypeOK'
  <2>1. section[p] \in [op : Ops, task : Tasks, repo : Repos, token : Tokens]
    BY <1>8 DEF PrepareFails, Sections
  <2>2. /\ [section[p] EXCEPT !.op = "undoConflict"] \in Sections
        /\ [section[p] EXCEPT !.op = "undoError"] \in Sections
    BY <2>1 DEF Sections, Ops
  <2>. QED
    BY <1>8, <2>2 DEF PrepareFails
<1>9. ASSUME NEW p \in Procs, UndoLockFile(p) PROVE TypeOK'
  BY <1>9 DEF UndoLockFile, Sections, Ops
<1>16. ASSUME NEW p \in Procs, UndoThrows(p) PROVE TypeOK'
  BY <1>16 DEF UndoThrows, Sections, Ops
<1>10. ASSUME NEW p \in Procs, DeleteRow(p) PROVE TypeOK'
  <2>1. section[p] \in [op : Ops, task : Tasks, repo : Repos, token : Tokens]
    BY <1>10 DEF DeleteRow, Sections
  <2>2. [section[p] EXCEPT !.op = "releaseFile"] \in Sections
    BY <2>1 DEF Sections, Ops
  <2>. QED
    BY <1>10, <2>1, <2>2 DEF DeleteRow, Rows
<1>11. ASSUME NEW p \in Procs, RemoveLockFile(p) PROVE TypeOK'
  BY <1>11 DEF RemoveLockFile, Sections, Ops
<1>12. ASSUME NEW p \in Procs, ReleaseThrows(p) PROVE TypeOK'
  BY <1>12 DEF ReleaseThrows, Sections, Ops
<1>13. ASSUME NEW p \in Procs, Crash(p) PROVE TypeOK'
  BY <1>13 DEF Crash, Sections, Leases
<1>14. ASSUME NEW p \in Procs, Restart(p) PROVE TypeOK'
  BY <1>14 DEF Restart
<1>15. ASSUME NEW r \in Repos, LeaseExpires(r) PROVE TypeOK'
  <2>1. lockRow[r] \in [token : Tokens, task : Tasks, live : BOOLEAN]
    BY <1>15 DEF LeaseExpires, Rows
  <2>2. [lockRow[r] EXCEPT !.live = FALSE] \in Rows
    BY <2>1 DEF Rows
  <2>. QED
    BY <1>15, <2>2 DEF LeaseExpires
<1>. QED
  BY <1>1, <1>2, <1>3, <1>4, <1>5, <1>6, <1>7, <1>8, <1>9, <1>10, <1>11, <1>12,
     <1>13, <1>14, <1>15, <1>16 DEF Service

LEMMA NextTypeOK == TypeOK /\ [Next]_leaseVars => TypeOK'
<1>1. TypeOK /\ UNCHANGED leaseVars => TypeOK'
  BY DEF TypeOK, leaseVars
<1>. QED
  BY <1>1, CallerTypeOK, ServiceTypeOK DEF Next

(* Every reachable state of the lock service is well typed, whatever the    *)
(* callers do and wherever a call is cut short.                             *)
THEOREM TypeCorrect == Spec => []TypeOK
<1>. QED
  BY InitTypeOK, NextTypeOK, PTL DEF Spec

-----------------------------------------------------------------------------
(* The inductive invariant: it holds initially, and one lemma per action    *)
(* says that the action preserves it.                                       *)

LEMMA InitIInv == Init => IInv
<1>. SUFFICES ASSUME Init PROVE IInv
  OBVIOUS
<1>1. TypeOK
  BY InitTypeOK
<1>2. TokensIssued /\ RowBackedByFile /\ HolderOwnsRow /\ SectionOwns /\ OneHolder /\ FilesDistinct
  BY Empty DEF Init, TokensIssued, RowBackedByFile, HolderOwnsRow, SectionOwns, OneHolder,
     FilesDistinct, Tokens
<1>. QED
  BY <1>1, <1>2 DEF IInv

(* The new token was never issued, so nothing else carries it.              *)
LEMMA OpenLockFileIInv ==
  ASSUME IInv, TypeOK', NEW p \in Procs, NEW t \in Tasks, NEW r \in Repos, OpenLockFile(p, t, r)
  PROVE  IInv'
<1> USE Empty DEF IInv, TypeOK, Rows, Leases, Sections, Tokens, OpenLockFile
<1>1. TokensIssued'
  <2>1. \A x \in Int : x <= tokens => x <= tokens'
    OBVIOUS
  <2>2. \A q \in Repos : lockFile'[q] <= tokens'
    BY <2>1 DEF TokensIssued
  <2>3. \A q \in Repos : lockRow'[q].token <= tokens'
    BY <2>1 DEF TokensIssued
  <2>4. \A q \in Procs : section'[q].token <= tokens'
    <3>1. section'[p].token = tokens'
      OBVIOUS
    <3>2. \A q \in Procs \ {p} : section'[q] = section[q]
      OBVIOUS
    <3>3. \A q \in Procs : section[q].token \in Nat
      OBVIOUS
    <3>. QED
      BY <2>1, <3>1, <3>2, <3>3 DEF TokensIssued
  <2>5. \A q \in Procs, u \in Tasks : held'[q][u].token <= tokens'
    BY <2>1 DEF TokensIssued
  <2>. QED
    BY <2>2, <2>3, <2>4, <2>5 DEF TokensIssued
<1>2. RowBackedByFile'
  BY DEF RowBackedByFile
<1>3. SectionOwns'
  BY DEF SectionOwns, RowBackedByFile
<1>4. OneHolder'
  BY DEF OneHolder, TokensIssued
<1>5. FilesDistinct'
  BY DEF FilesDistinct, TokensIssued
<1>6. HolderOwnsRow'
  BY DEF HolderOwnsRow
<1>. QED
  BY <1>1, <1>2, <1>3, <1>4, <1>5, <1>6

(* The torn file belongs to nobody and its repository had no row.           *)
LEMMA WriteLockFileFailsIInv ==
  ASSUME IInv, TypeOK', NEW p \in Procs, NEW r \in Repos, WriteLockFileFails(p, r)
  PROVE  IInv'
<1> USE Empty DEF IInv, TypeOK, Rows, Leases, Sections, Tokens, WriteLockFileFails
<1>1. TokensIssued'
  <2>1. \A x \in Int : x <= tokens => x <= tokens'
    OBVIOUS
  <2>2. \A q \in Repos : lockFile'[q] <= tokens'
    BY <2>1 DEF TokensIssued
  <2>3. \A q \in Repos : lockRow'[q].token <= tokens'
    BY <2>1 DEF TokensIssued
  <2>4. \A q \in Procs : section'[q].token <= tokens'
    BY <2>1 DEF TokensIssued
  <2>5. \A q \in Procs, u \in Tasks : held'[q][u].token <= tokens'
    BY <2>1 DEF TokensIssued
  <2>. QED
    BY <2>2, <2>3, <2>4, <2>5 DEF TokensIssued
<1>2. RowBackedByFile'
  BY DEF RowBackedByFile
<1>3. SectionOwns'
  BY DEF SectionOwns, RowBackedByFile
<1>4. FilesDistinct'
  BY DEF FilesDistinct
<1>5. HolderOwnsRow' /\ OneHolder'
  BY DEF HolderOwnsRow, OneHolder
<1>. QED
  BY <1>1, <1>2, <1>3, <1>4, <1>5

(* The token moves from the section to the new row and the new lease object.*)
LEMMA PrepareTaskIInv ==
  ASSUME IInv, TypeOK', NEW p \in Procs, PrepareTask(p)
  PROVE  IInv'
<1> USE Empty DEF IInv, TypeOK, Rows, Leases, Sections, Tokens, PrepareTask
<1>1. TokensIssued'
  BY DEF TokensIssued
<1>2. RowBackedByFile'
  BY DEF RowBackedByFile, SectionOwns
<1>3. HolderOwnsRow'
  BY DEF HolderOwnsRow, WaitingFor, RowConflict
<1>4. SectionOwns'
  BY DEF SectionOwns, OneHolder
<1>5. OneHolder'
  BY DEF OneHolder
<1>6. FilesDistinct'
  BY DEF FilesDistinct
<1>. QED
  BY <1>1, <1>2, <1>3, <1>4, <1>5, <1>6

(* Only the kind of section changes; the row is still absent.               *)
LEMMA PrepareFailsIInv ==
  ASSUME IInv, TypeOK', NEW p \in Procs, PrepareFails(p)
  PROVE  IInv'
<1> USE Empty DEF IInv, TypeOK, Rows, Leases, Sections, Tokens, PrepareFails
<1>0. \A q \in Procs :
        /\ section'[q].token = section[q].token
        /\ section'[q].repo = section[q].repo
        /\ section'[q] # Idle => section[q] # Idle
        /\ section'[q].op = "releaseRow" <=> section[q].op = "releaseRow"
  <2>1. section[p] \in [op : Ops, task : Tasks, repo : Repos, token : Tokens]
    OBVIOUS
  <2>2. PICK o \in {"undoConflict", "undoError"} : section' = [section EXCEPT ![p].op = o]
    OBVIOUS
  <2>3. /\ section'[p].token = section[p].token /\ section'[p].repo = section[p].repo
        /\ section'[p].op # "releaseRow" /\ section[p].op # "releaseRow"
        /\ section[p] # Idle
    BY <2>1, <2>2
  <2>4. \A q \in Procs \ {p} : section'[q] = section[q]
    BY <2>2
  <2>. QED
    BY <2>3, <2>4
<1>1. TokensIssued'
  BY <1>0 DEF TokensIssued
<1>2. SectionOwns'
  BY <1>0 DEF SectionOwns
<1>3. OneHolder'
  BY <1>0 DEF OneHolder
<1>4. RowBackedByFile' /\ HolderOwnsRow' /\ FilesDistinct'
  BY DEF RowBackedByFile, HolderOwnsRow, FilesDistinct
<1>. QED
  BY <1>1, <1>2, <1>3, <1>4

(* The file removed is the section's own, and no row relies on it.          *)
LEMMA UndoLockFileIInv ==
  ASSUME IInv, TypeOK', NEW p \in Procs, UndoLockFile(p)
  PROVE  IInv'
<1> USE Empty DEF IInv, TypeOK, Rows, Leases, Sections, Tokens, UndoLockFile
<1>1. TokensIssued'
  BY DEF TokensIssued
<1>2. RowBackedByFile'
  BY DEF RowBackedByFile, SectionOwns
<1>3. SectionOwns'
  <2>1. section[p] # Idle /\ section'[p] = Idle
    OBVIOUS
  <2>2. ASSUME NEW q \in Procs, section'[q] # Idle
        PROVE  section'[q] = section[q] /\ section[q].repo # section[p].repo
    BY <2>1, <2>2 DEF SectionOwns, OneHolder
  <2>. QED
    BY <2>1, <2>2 DEF SectionOwns
<1>4. OneHolder'
  BY DEF OneHolder
<1>5. FilesDistinct'
  BY DEF FilesDistinct
<1>6. HolderOwnsRow'
  BY DEF HolderOwnsRow
<1>. QED
  BY <1>1, <1>2, <1>3, <1>4, <1>5, <1>6

(* A beat only pushes the expiry of a row.                                  *)
LEMMA BeatIInv ==
  ASSUME IInv, TypeOK', NEW p \in Procs, NEW t \in Tasks, Beat(p, t)
  PROVE  IInv'
<1> USE Empty DEF IInv, TypeOK, Rows, Leases, Sections, Tokens, Beat
<1>1. TokensIssued'
  BY DEF TokensIssued
<1>2. RowBackedByFile'
  <2>1. PICK r \in Repos : /\ lockRow[r] # NoRow
                           /\ lockRow' = [lockRow EXCEPT ![r] = [@ EXCEPT !.live = TRUE]]
    <3>. DEFINE own == held[p][t].repo
    <3>1. held[p][t] # NoLease
      BY DEF NoLease
    <3>2. own \in Repos /\ held[p][t].token \in Tokens
      BY <3>1
    <3>3. lockRow[own] # NoRow
      BY <3>2 DEF NoRow
    <3>4. lockRow' = [lockRow EXCEPT ![own] = [@ EXCEPT !.live = TRUE]]
      OBVIOUS
    <3>. QED
      BY <3>2, <3>3, <3>4
  <2>2. /\ lockRow'[r].token = lockRow[r].token
        /\ \A x \in Repos \ {r} : lockRow'[x] = lockRow[x]
    BY <2>1 DEF NoRow
  <2>3. lockFile' = lockFile
    OBVIOUS
  <2>. QED
    BY <2>1, <2>2, <2>3 DEF RowBackedByFile
<1>3. HolderOwnsRow'
  BY DEF HolderOwnsRow
<1>4. SectionOwns'
  BY DEF SectionOwns
<1>5. OneHolder' /\ FilesDistinct'
  BY DEF OneHolder, FilesDistinct
<1>. QED
  BY <1>1, <1>2, <1>3, <1>4, <1>5

(* A failed beat only stops a timer.                                        *)
LEMMA BeatFailsIInv ==
  ASSUME IInv, TypeOK', NEW p \in Procs, NEW t \in Tasks, BeatFails(p, t)
  PROVE  IInv'
<1> USE Empty DEF IInv, TypeOK, Rows, Leases, Sections, Tokens, BeatFails
<1>1. TokensIssued'
  BY DEF TokensIssued
<1>2. HolderOwnsRow'
  BY DEF HolderOwnsRow
<1>3. OneHolder'
  BY DEF OneHolder
<1>4. RowBackedByFile' /\ SectionOwns' /\ FilesDistinct'
  BY DEF RowBackedByFile, SectionOwns, FilesDistinct
<1>. QED
  BY <1>1, <1>2, <1>3, <1>4

(* Expiry changes neither owner nor file.                                   *)
LEMMA LeaseExpiresIInv ==
  ASSUME IInv, TypeOK', NEW r \in Repos, LeaseExpires(r)
  PROVE  IInv'
<1> USE Empty DEF IInv, TypeOK, Rows, Leases, Sections, Tokens, LeaseExpires
<1>1. TokensIssued'
  BY DEF TokensIssued
<1>2. RowBackedByFile'
  BY DEF RowBackedByFile
<1>3. HolderOwnsRow'
  BY DEF HolderOwnsRow
<1>4. SectionOwns'
  BY DEF SectionOwns
<1>5. OneHolder' /\ FilesDistinct'
  BY DEF OneHolder, FilesDistinct
<1>. QED
  BY <1>1, <1>2, <1>3, <1>4, <1>5

(* The token moves from the lease object to the section.                    *)
LEMMA StartReleaseIInv ==
  ASSUME IInv, TypeOK', NEW p \in Procs, NEW t \in Tasks, StartRelease(p, t)
  PROVE  IInv'
<1> USE Empty DEF IInv, TypeOK, Rows, Leases, Sections, Tokens, StartRelease
<1>1. TokensIssued'
  BY DEF TokensIssued
<1>2. HolderOwnsRow'
  BY DEF HolderOwnsRow
<1>3. SectionOwns'
  BY DEF SectionOwns, HolderOwnsRow, RowBackedByFile
<1>4. OneHolder'
  BY DEF OneHolder
<1>5. RowBackedByFile' /\ FilesDistinct'
  BY DEF RowBackedByFile, FilesDistinct
<1>. QED
  BY <1>1, <1>2, <1>3, <1>4, <1>5

(* The row deleted carries the section's token, so no lease object relies on it.*)
LEMMA DeleteRowIInv ==
  ASSUME IInv, TypeOK', NEW p \in Procs, DeleteRow(p)
  PROVE  IInv'
<1> USE Empty DEF IInv, TypeOK, Rows, Leases, Sections, Tokens, DeleteRow
<1>1. TokensIssued'
  BY DEF TokensIssued
<1>2. RowBackedByFile'
  BY DEF RowBackedByFile
<1>3. HolderOwnsRow'
  BY DEF HolderOwnsRow, OneHolder
<1>4. SectionOwns'
  BY DEF SectionOwns, OneHolder
<1>5. OneHolder'
  BY DEF OneHolder
<1>6. FilesDistinct'
  BY DEF FilesDistinct
<1>. QED
  BY <1>1, <1>2, <1>3, <1>4, <1>5, <1>6

(* The row is gone already.                                                 *)
LEMMA RemoveLockFileIInv ==
  ASSUME IInv, TypeOK', NEW p \in Procs, RemoveLockFile(p)
  PROVE  IInv'
<1> USE Empty DEF IInv, TypeOK, Rows, Leases, Sections, Tokens, RemoveLockFile
<1>1. TokensIssued'
  BY DEF TokensIssued
<1>2. RowBackedByFile'
  BY DEF RowBackedByFile, SectionOwns
<1>3. SectionOwns'
  BY DEF SectionOwns, OneHolder
<1>4. OneHolder'
  BY DEF OneHolder
<1>5. FilesDistinct'
  BY DEF FilesDistinct
<1>6. HolderOwnsRow'
  BY DEF HolderOwnsRow
<1>. QED
  BY <1>1, <1>2, <1>3, <1>4, <1>5, <1>6

(* The section ends; row and file stay.                                     *)
LEMMA ReleaseThrowsIInv ==
  ASSUME IInv, TypeOK', NEW p \in Procs, ReleaseThrows(p)
  PROVE  IInv'
<1> USE Empty DEF IInv, TypeOK, Rows, Leases, Sections, Tokens, ReleaseThrows
<1>1. TokensIssued'
  BY DEF TokensIssued
<1>2. SectionOwns'
  BY DEF SectionOwns
<1>3. OneHolder'
  BY DEF OneHolder
<1>4. RowBackedByFile' /\ HolderOwnsRow' /\ FilesDistinct'
  BY DEF RowBackedByFile, HolderOwnsRow, FilesDistinct
<1>. QED
  BY <1>1, <1>2, <1>3, <1>4

(* The section ends; row and file stay.                                     *)
LEMMA UndoThrowsIInv ==
  ASSUME IInv, TypeOK', NEW p \in Procs, UndoThrows(p)
  PROVE  IInv'
<1> USE Empty DEF IInv, TypeOK, Rows, Leases, Sections, Tokens, UndoThrows
<1>1. TokensIssued'
  BY DEF TokensIssued
<1>2. SectionOwns'
  BY DEF SectionOwns
<1>3. OneHolder'
  BY DEF OneHolder
<1>4. RowBackedByFile' /\ HolderOwnsRow' /\ FilesDistinct'
  BY DEF RowBackedByFile, HolderOwnsRow, FilesDistinct
<1>. QED
  BY <1>1, <1>2, <1>3, <1>4

(* Only a timer stops.                                                      *)
LEMMA QuiesceIInv ==
  ASSUME IInv, TypeOK', NEW p \in Procs, NEW t \in Tasks, Quiesce(p, t)
  PROVE  IInv'
<1> USE Empty DEF IInv, TypeOK, Rows, Leases, Sections, Tokens, Quiesce
<1>1. TokensIssued'
  BY DEF TokensIssued
<1>2. HolderOwnsRow'
  BY DEF HolderOwnsRow
<1>3. OneHolder'
  BY DEF OneHolder
<1>4. RowBackedByFile' /\ SectionOwns' /\ FilesDistinct'
  BY DEF RowBackedByFile, SectionOwns, FilesDistinct
<1>. QED
  BY <1>1, <1>2, <1>3, <1>4

(* Lease objects and sections only disappear.                               *)
LEMMA CrashIInv ==
  ASSUME IInv, TypeOK', NEW p \in Procs, Crash(p)
  PROVE  IInv'
<1> USE Empty DEF IInv, TypeOK, Rows, Leases, Sections, Tokens, Crash
<1>1. TokensIssued'
  BY DEF TokensIssued
<1>2. HolderOwnsRow'
  BY DEF HolderOwnsRow
<1>3. SectionOwns'
  BY DEF SectionOwns
<1>4. OneHolder'
  BY DEF OneHolder
<1>5. RowBackedByFile' /\ FilesDistinct'
  BY DEF RowBackedByFile, FilesDistinct
<1>. QED
  BY <1>1, <1>2, <1>3, <1>4, <1>5

(* Binding a repository touches no task that has a lease; a status change,  *)
(* a restart and a stuttering step touch nothing the invariant speaks of.   *)
LEMMA CallerIInv == IInv /\ TypeOK' /\ Caller => IInv'
<1>. SUFFICES ASSUME IInv, TypeOK', Caller PROVE IInv'
  OBVIOUS
<1> USE Empty DEF IInv, TypeOK, Leases, Caller
<1>1. TokensIssued' /\ RowBackedByFile' /\ SectionOwns' /\ OneHolder' /\ FilesDistinct'
  BY DEF TokensIssued, RowBackedByFile, SectionOwns, OneHolder, FilesDistinct
<1>2. HolderOwnsRow'
  <2>1. \A p \in Procs, t \in Tasks : held[p][t] # NoLease => held[p][t].repo \in Repos
    OBVIOUS
  <2>2. \A t \in Tasks : repoId'[t] = repoId[t] \/ repoId[t] = NoRepo
    BY DEF BindRepository
  <2>. QED
    BY <2>1, <2>2, ConstAssumption DEF HolderOwnsRow
<1>. QED
  BY <1>1, <1>2

LEMMA NextIInv == IInv /\ [Next]_leaseVars => IInv'
<1>. SUFFICES ASSUME IInv, [Next]_leaseVars PROVE IInv'
  OBVIOUS
<1>1. TypeOK'
  BY NextTypeOK DEF IInv
<1>2. ASSUME NEW p \in Procs, Restart(p) PROVE IInv'
  BY <1>1, <1>2 DEF Restart, IInv, TokensIssued, RowBackedByFile, HolderOwnsRow, SectionOwns,
     OneHolder, FilesDistinct
<1>3. CASE UNCHANGED leaseVars
  BY <1>1, <1>3 DEF leaseVars, IInv, TokensIssued, RowBackedByFile, HolderOwnsRow, SectionOwns,
     OneHolder, FilesDistinct
<1>4. CASE Caller
  BY <1>1, <1>4, CallerIInv
<1>5. CASE Service
  BY <1>1, <1>2, <1>5, OpenLockFileIInv, WriteLockFileFailsIInv, PrepareTaskIInv,
     PrepareFailsIInv, UndoLockFileIInv, BeatIInv, BeatFailsIInv, LeaseExpiresIInv,
     StartReleaseIInv, DeleteRowIInv, RemoveLockFileIInv, ReleaseThrowsIInv, UndoThrowsIInv, QuiesceIInv,
     CrashIInv DEF Service
<1>. QED
  BY <1>3, <1>4, <1>5 DEF Next

(* The inductive invariant holds in every reachable state.                  *)
THEOREM LeaseInvariant == Spec => []IInv
<1>. QED
  BY InitIInv, NextIInv, PTL DEF Spec

-----------------------------------------------------------------------------
(* Safety.                                                                 *)

(* A repo_locks row never exists without the lock file of its own token.    *)
THEOREM RowsBacked == Spec => []RowBackedByFile
<1>1. IInv => RowBackedByFile
  BY DEF IInv
<1>. QED
  BY <1>1, LeaseInvariant, PTL

(* A lease object always names the row of its own token and its own task.   *)
THEOREM HoldersOwnRows == Spec => []HolderOwnsRow
<1>1. IInv => HolderOwnsRow
  BY DEF IInv
<1>. QED
  BY <1>1, LeaseInvariant, PTL

(* Two lease objects never cover one repository: both name its single row,  *)
(* hence the same token, and a token has one holder.                        *)
THEOREM LeasesExclusive == Spec => []ExclusiveLease
<1>1. IInv => ExclusiveLease
  <2>. SUFFICES ASSUME IInv,
                       NEW p \in Procs, NEW q \in Procs, NEW t \in Tasks, NEW u \in Tasks,
                       held[p][t] # NoLease, held[q][u] # NoLease,
                       held[p][t].repo = held[q][u].repo
                PROVE  p = q /\ t = u
    BY DEF ExclusiveLease
  <2>1. held[p][t].token = held[q][u].token
    BY DEF IInv, HolderOwnsRow
  <2>. QED
    BY <2>1 DEF IInv, OneHolder
<1>. QED
  BY <1>1, LeaseInvariant, PTL

(* A row disappears only by the DELETE of the release that owns its token:  *)
(* neither expiry nor a crash, a restart or another acquire frees it.       *)
THEOREM OnlyHoldersFree == Spec => OnlyHolderFrees
<1>1. IInv /\ [Next]_leaseVars => [FreedByHolder]_leaseVars
  <2>. SUFFICES ASSUME IInv, Next, NEW r \in Repos,
                       lockRow[r] # NoRow, lockRow'[r].token # lockRow[r].token
                PROVE  /\ lockRow'[r] = NoRow
                       /\ \E p \in Procs : section[p].op = "releaseRow"
                                           /\ section[p].token = lockRow[r].token
    BY DEF FreedByHolder
  <2>1. lockRow' # lockRow
    OBVIOUS
  <2>2. ASSUME NEW p \in Procs, NEW t \in Tasks, Beat(p, t) PROVE FALSE
    BY <2>2 DEF Beat, IInv, TypeOK, Rows
  <2>3. ASSUME NEW q \in Repos, LeaseExpires(q) PROVE FALSE
    BY <2>3 DEF LeaseExpires, IInv, TypeOK, Rows
  <2>4. ASSUME NEW p \in Procs, PrepareTask(p) PROVE FALSE
    <3>1. lockRow[section[p].repo] = NoRow
      BY <2>4 DEF PrepareTask, RowConflict
    <3>2. lockRow'[r] = lockRow[r]
      BY <2>4, <3>1 DEF PrepareTask, IInv, TypeOK
    <3>. QED
      BY <3>2
  <2>5. PICK p \in Procs : DeleteRow(p)
    BY <2>1, <2>2, <2>3, <2>4 DEF Next, Caller, Service, OpenLockFile, BeatFails, StartRelease,
       Quiesce, WriteLockFileFails, PrepareFails, UndoLockFile, RemoveLockFile, ReleaseThrows, UndoThrows,
       Crash, Restart
  <2>. QED
    BY <2>5 DEF DeleteRow, IInv, TypeOK
<1>. QED
  BY <1>1, LeaseInvariant, PTL DEF Spec, OnlyHolderFrees

(* A lock file is unlinked only by the call that created it.                *)
THEOREM OnlyCreatorsUnlink == Spec => OnlyCreatorUnlinks
<1>1. IInv /\ [Next]_leaseVars => [UnlinkedByCreator]_leaseVars
  <2>. SUFFICES ASSUME IInv, Next, NEW r \in Repos,
                       lockFile[r] # Absent, lockFile'[r] # lockFile[r]
                PROVE  \E p \in Procs : section[p] # Idle /\ section[p].token = lockFile[r]
    BY DEF UnlinkedByCreator
  <2>1. lockFile' # lockFile
    OBVIOUS
  <2>2. ASSUME NEW p \in Procs, NEW q \in Repos,
               WriteLockFileFails(p, q) \/ \E t \in Tasks : OpenLockFile(p, t, q)
        PROVE  FALSE
    BY <2>2 DEF WriteLockFileFails, OpenLockFile, IInv, TypeOK
  <2>3. PICK p \in Procs : UndoLockFile(p) \/ RemoveLockFile(p)
    BY <2>1, <2>2 DEF Next, Caller, Service, Beat, BeatFails, StartRelease, Quiesce, PrepareTask,
       PrepareFails, DeleteRow, ReleaseThrows, UndoThrows, Crash, Restart, LeaseExpires
  <2>4. section[p] # Idle /\ r = section[p].repo
    BY <2>3, Empty DEF UndoLockFile, RemoveLockFile, IInv, TypeOK
  <2>. QED
    BY <2>4 DEF IInv, SectionOwns
<1>. QED
  BY <1>1, LeaseInvariant, PTL DEF Spec, OnlyCreatorUnlinks

-----------------------------------------------------------------------------
(* The lock service implements LeaseMutex.                                 *)

LiveTokens == { k \in 1..tokens : \E p \in Procs : Holds(p, k) }
Owner      == [r \in Repos |-> lockRow[r].token]

(* Every lease object counts: its token was issued.                         *)
LEMMA HolderLive ==
  ASSUME IInv, NEW p \in Procs, NEW k \in Tokens, Holds(p, k)
  PROVE  k \in LiveTokens
<1>1. k <= tokens
  BY DEF IInv, TokensIssued, Holds, Tokens
<1>. QED
  BY <1>1 DEF LiveTokens, Tokens, IInv, TypeOK

(* A step that keeps the owners and creates no lease object is an Abandon.  *)
LEMMA AbandonStep ==
  ASSUME IInv, Owner' = Owner,
         \A k \in Tokens : (\E p \in Procs : Holds(p, k))' => \E p \in Procs : Holds(p, k)
  PROVE  Mutex!Abandon
<1>1. LiveTokens' \subseteq LiveTokens
  <2>. SUFFICES ASSUME NEW k \in LiveTokens' PROVE k \in LiveTokens
    OBVIOUS
  <2>1. k \in Tokens
    BY DEF LiveTokens, Tokens
  <2>. QED
    BY <2>1, HolderLive DEF LiveTokens
<1>. QED
  BY <1>1 DEF Mutex!Abandon, LiveTokens, Owner

LEMMA GrantStep ==
  ASSUME IInv, IInv', NEW p \in Procs, PrepareTask(p)
  PROVE  Mutex!Next
<1> USE Empty DEF IInv, TypeOK, PrepareTask
<1>1. PICK r \in Repos, k \in Tokens :
        section[p].repo = r /\ section[p].token = k /\ section[p] # Idle
  BY DEF Sections
<1>2. Owner[r] = 0 /\ Owner' = [Owner EXCEPT ![r] = k]
  BY <1>1 DEF Owner, RowConflict
<1>3. k \notin LiveTokens
  BY <1>1 DEF LiveTokens, Holds, OneHolder
<1>4. \A q \in Repos : Owner[q] # k
  BY <1>1, <1>2 DEF Owner, RowBackedByFile, SectionOwns, FilesDistinct, Tokens
<1>5. LiveTokens' = LiveTokens \cup {k}
  <2>1. tokens' = tokens /\ k \in 1..tokens
    BY <1>1 DEF TokensIssued, Tokens
  <2>2. Holds(p, k)'
    BY <1>1 DEF Holds, Sections
  <2>3. ASSUME NEW j \in 1..tokens, NEW q \in Procs, Holds(q, j) PROVE Holds(q, j)'
    <3>1. CASE section[q].op = "releaseRow" /\ section[q].token = j
      BY <3>1 DEF Holds
    <3>2. ASSUME NEW t \in Tasks, held[q][t].token = j PROVE Holds(q, j)'
      <4>1. ~(q = p /\ t = section[p].task)
        <5>1. SUFFICES ASSUME held[p][section[p].task].token \in Tokens PROVE FALSE
          BY <3>2 DEF Tokens
        <5>2. held[p][section[p].task] # NoLease
          BY <5>1 DEF Tokens
        <5>. QED
          BY <5>2 DEF HolderOwnsRow, WaitingFor, RowConflict, Leases, Sections, Tokens
      <4>. QED
        BY <3>2, <4>1 DEF Holds
    <3>. QED
      BY <2>3, <3>1, <3>2 DEF Holds
  <2>4. ASSUME NEW j \in 1..tokens, NEW q \in Procs, Holds(q, j)', j # k
        PROVE  Holds(q, j)
    <3>1. held' = [held EXCEPT ![p][section[p].task] =
                     [token |-> k, repo |-> r, timer |-> TRUE]]
      BY <1>1
    <3>2. ASSUME NEW t \in Tasks, held'[q][t].token = j PROVE held[q][t].token = j
      BY <2>4, <3>1, <3>2
    <3>3. section'[q].op = "releaseRow" => section'[q] = section[q]
      OBVIOUS
    <3>. QED
      BY <2>4, <3>2, <3>3 DEF Holds
  <2>. QED
    BY <2>1, <2>2, <2>3, <2>4 DEF LiveTokens
<1>6. Owner'[r] = k
  BY <1>1, <1>2 DEF Owner
<1>7. Mutex!Grant(r, Owner'[r])
  <2>1. Mutex!Grant(r, k)
    BY <1>1, <1>2, <1>3, <1>4, <1>5 DEF Mutex!Grant, Mutex!Free, Mutex!Tokens, Tokens, Owner,
       LiveTokens
  <2>. QED
    BY <1>6, <2>1 DEF Mutex!Grant
<1>. QED
  BY <1>7 DEF Mutex!Next, Owner

LEMMA ReleaseStep ==
  ASSUME IInv, IInv', NEW p \in Procs, DeleteRow(p)
  PROVE  Mutex!Next
<1> USE Empty DEF IInv, TypeOK, DeleteRow
<1>1. PICK r \in Repos, k \in Tokens :
        section[p].repo = r /\ section[p].token = k /\ section[p] # Idle
  BY DEF Sections
<1>2. Owner[r] = k /\ Owner' = [Owner EXCEPT ![r] = 0]
  <2>1. lockRow[r].token = k
    BY <1>1 DEF SectionOwns
  <2>2. lockRow' = [lockRow EXCEPT ![r] = NoRow]
    BY <1>1, <2>1
  <2>3. \A q \in Repos : lockRow'[q].token = IF q = r THEN 0 ELSE lockRow[q].token
    BY <2>2
  <2>. QED
    BY <2>1, <2>3 DEF Owner
<1>3. k \in LiveTokens
  BY <1>1, HolderLive DEF Holds
<1>4. LiveTokens' = LiveTokens \ {k}
  <2>1. tokens' = tokens /\ section'[p].op # "releaseRow"
    BY DEF Sections
  <2>2. ASSUME NEW q \in Procs PROVE ~Holds(q, k)'
    BY <1>1, <2>1 DEF Holds, OneHolder
  <2>3. ASSUME NEW j \in 1..tokens, NEW q \in Procs, j # k
        PROVE  Holds(q, j)' <=> Holds(q, j)
    <3>1. \A v \in Procs : v # p => section'[v] = section[v]
      OBVIOUS
    <3>. QED
      BY <1>1, <2>1, <2>3, <3>1 DEF Holds
  <2>. QED
    BY <2>1, <2>2, <2>3 DEF LiveTokens
<1>5. Mutex!Release(r)
  BY <1>2, <1>3, <1>4 DEF Mutex!Release, Mutex!Free, Owner, LiveTokens
<1>. QED
  BY <1>1, <1>5 DEF Mutex!Next

LEMMA MutexStep == IInv /\ IInv' /\ [Next]_leaseVars => [Mutex!Next]_(Mutex!vars)
<1>. SUFFICES ASSUME IInv, IInv', [Next]_leaseVars PROVE [Mutex!Next]_(Mutex!vars)
  OBVIOUS
<1>1. CASE \E p \in Procs : PrepareTask(p)
  BY <1>1, GrantStep
<1>2. CASE \E p \in Procs : DeleteRow(p)
  BY <1>2, ReleaseStep
<1>3. CASE ~(\E p \in Procs : PrepareTask(p) \/ DeleteRow(p))
  <2>1. Owner' = Owner
    <3>1. ASSUME NEW p \in Procs, NEW t \in Tasks, Beat(p, t) PROVE Owner' = Owner
      BY <3>1 DEF Beat, IInv, TypeOK, Rows, Owner
    <3>2. ASSUME NEW r \in Repos, LeaseExpires(r) PROVE Owner' = Owner
      BY <3>2 DEF LeaseExpires, IInv, TypeOK, Rows, Owner
    <3>3. lockRow' = lockRow => Owner' = Owner
      BY DEF Owner
    <3>. QED
      BY <1>3, <3>1, <3>2, <3>3 DEF Next, Caller, Service, OpenLockFile, BeatFails, StartRelease,
         Quiesce, WriteLockFileFails, PrepareFails, UndoLockFile, RemoveLockFile,
         ReleaseThrows, UndoThrows, Crash, Restart, leaseVars
  <2>2. ASSUME NEW k \in Tokens, NEW q \in Procs, Holds(q, k)'
        PROVE  \E p \in Procs : Holds(p, k)
    <3> USE Empty DEF Holds, IInv, TypeOK, Tokens
    <3>1. ASSUME NEW p \in Procs, NEW t \in Tasks, NEW r \in Repos, OpenLockFile(p, t, r)
          PROVE  Holds(q, k)
      BY <2>2, <3>1 DEF OpenLockFile
    <3>2. ASSUME NEW p \in Procs, NEW t \in Tasks, BeatFails(p, t) \/ Quiesce(p, t)
          PROVE  Holds(q, k)
      <4>1. held[p][t] \in [token : Tokens, repo : Repos, timer : BOOLEAN]
        BY <3>2 DEF BeatFails, Quiesce, Leases
      <4>2. held'[p][t].token = held[p][t].token
        BY <3>2, <4>1 DEF BeatFails, Quiesce
      <4>3. \A v \in Procs, u \in Tasks : ~(v = p /\ u = t) => held'[v][u] = held[v][u]
        BY <3>2 DEF BeatFails, Quiesce
      <4>. QED
        BY <2>2, <3>2, <4>2, <4>3 DEF BeatFails, Quiesce
    <3>3. ASSUME NEW p \in Procs, NEW t \in Tasks, StartRelease(p, t)
          PROVE  Holds(q, k)
      BY <2>2, <3>3 DEF StartRelease
    <3>4. ASSUME NEW p \in Procs, PrepareFails(p) PROVE Holds(q, k)
      BY <2>2, <3>4 DEF PrepareFails, Sections
    <3>5. ASSUME NEW p \in Procs, UndoLockFile(p) \/ RemoveLockFile(p) \/ ReleaseThrows(p)
                             \/ UndoThrows(p)
          PROVE  Holds(q, k)
      BY <2>2, <3>5 DEF UndoLockFile, RemoveLockFile, ReleaseThrows, UndoThrows
    <3>6. ASSUME NEW p \in Procs, Crash(p) PROVE Holds(q, k)
      BY <2>2, <3>6 DEF Crash
    <3>7. CASE UNCHANGED <<held, section>>
      BY <2>2, <3>7
    <3>8. CASE Service
      BY <1>3, <3>1, <3>2, <3>3, <3>4, <3>5, <3>6, <3>7, <3>8
         DEF Service, Beat, WriteLockFileFails, LeaseExpires, Restart
    <3>. QED
      BY <3>7, <3>8 DEF Next, Caller, leaseVars
  <2>3. Mutex!Abandon
    BY <2>1, <2>2, AbandonStep
  <2>. QED
    BY <2>3 DEF Mutex!Next
<1>. QED
  BY <1>1, <1>2, <1>3

(* The lock with its files, rows, heartbeats and crashes implements the     *)
(* abstract mutex: tokens own repositories one at a time, and only a live   *)
(* lease object frees one.                                                  *)
THEOREM ImplementsMutex == Spec => MutexSpec
<1>1. Init => Mutex!Init
  <2>. SUFFICES ASSUME Init PROVE Mutex!Init
    OBVIOUS
  <2>1. Owner = [r \in Repos |-> 0]
    BY Empty DEF Init, Owner
  <2>2. LiveTokens = {}
    BY DEF Init, LiveTokens
  <2>. QED
    BY <2>1, <2>2 DEF Mutex!Init, Mutex!Free, Owner, LiveTokens
<1>. QED
  BY <1>1, MutexStep, LeaseInvariant, PTL DEF Spec, MutexSpec, Mutex!Spec

=============================================================================
