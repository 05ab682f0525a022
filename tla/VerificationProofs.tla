------------------------- MODULE VerificationProofs -------------------------
(***************************************************************************)
(* Theorems about verification and publication, for any files, contents,   *)
(* number of commands, edits, commits and submissions: what a sealed plan  *)
(* proves, what its commands ran on, that what is published is what was    *)
(* reviewed, and that no table of commands stops it half way.              *)
(***************************************************************************)
EXTENDS VerifiedPublishing, SequenceTheorems, TLAPS

LEMMA Numbers ==
  /\ Secret \in Checks /\ Diff \in Checks /\ Secret # Diff /\ Reviews \subseteq Checks
  /\ 1..Commands \subseteq Checks
  /\ \A k \in 1..Commands : k \notin Reviews
  /\ Over \notin Checks /\ Over \in 1..Over /\ 1 \in 1..Over
  /\ \A k \in Checks : k + 1 \in 1..Over /\ k \in 1..Over /\ k < Over
BY VerificationAssumption DEF Secret, Diff, Reviews, Checks, Over

LEMMA SnapshotType ==
  ASSUME VerTypeOK
  PROVE  Snapshot \in Snapshots /\ Snapshot.head = head
BY DEF VerTypeOK, Snapshot, Changed, Snapshots, Views, Trees

LEMMA CommitType ==
  ASSUME VerTypeOK, NEW c \in 1..Len(log)
  PROVE  log[c] \in [parent : Nat, tree : Trees]
<1>1. log \in Seq([parent : Nat, tree : Trees])
  BY DEF VerTypeOK
<1>. QED
  BY <1>1, ElementOfSeq

LEMMA NoViewType == NoView \in Views /\ \A p \in Paths : NoView[p] = None
BY DEF NoView, Views

LEMMA InitVInv == VerInit => VInv
<1>. SUFFICES ASSUME VerInit PROVE VInv
  OBVIOUS
<1>1. VerTypeOK
  <2>1. log \in Seq([parent : Nat, tree : Trees]) /\ head \in 1..Len(log)
    BY VerificationAssumption DEF VerInit, Trees
  <2>2. NoShot \in Snapshots /\ NoReview \in Rows
    BY NoViewType DEF NoShot, Snapshots, NoReview, Rows
  <2>3. seen \in Views /\ reading \in [Paths -> Contents \cup {None, Checked}]
    BY NoViewType DEF VerInit, Views
  <2>. QED
    <3>1. /\ work \in Trees /\ expected \in Snapshots /\ approved \in SUBSET Paths
          /\ status \in [Checks -> {"PENDING", "PASS", "FAIL"}]
          /\ review \in [Reviews -> Rows]
      BY <2>2 DEF VerInit
    <3>2. /\ sealed \in BOOLEAN /\ entry \in BOOLEAN /\ fresh \in BOOLEAN /\ leased \in BOOLEAN
          /\ offers \in SUBSET Offers /\ agent \in {"up", "closed", "down"}
          /\ pc \in Awaits \cup {"idle", "awaiting", "verified", "failed"}
          /\ check \in 1..Over /\ outcome \in Decisions
          /\ writes \in 0..MaxWrites /\ drift \in 0..MaxDrift
      <4>1. check \in 1..Over /\ writes \in 0..MaxWrites /\ drift \in 0..MaxDrift
        BY Numbers, VerificationAssumption DEF VerInit
      <4>2. sealed \in BOOLEAN /\ entry \in BOOLEAN /\ fresh \in BOOLEAN /\ leased \in BOOLEAN
        BY DEF VerInit
      <4>3. /\ offers \in SUBSET Offers /\ agent \in {"up", "closed", "down"}
            /\ pc \in Awaits \cup {"idle", "awaiting", "verified", "failed"} /\ outcome \in Decisions
        BY DEF VerInit, Decisions
      <4>. QED
        BY <4>1, <4>2, <4>3
    <3>3. span \in [1..Commands -> [from : Snapshots, to : Snapshots]]
      BY <2>2 DEF VerInit
    <3>. QED
      BY <2>1, <2>3, <3>1, <3>2, <3>3 DEF VerTypeOK, VerInit
<1>2. Located
  BY Numbers DEF VerInit, Located, NoReview
<1>3. Shown
  BY Numbers, NoViewType, VerificationAssumption DEF VerInit, Shown, NoReview
<1>4. Recorded
  BY Numbers DEF VerInit, Recorded
<1>. QED
  BY <1>1, <1>2, <1>3, <1>4 DEF VInv

-----------------------------------------------------------------------------
(* One lemma for each kind of step.                                        *)

(* The worktree, HEAD, the lease or the clock change.                       *)
LEMMA WorldStep ==
  ASSUME VInv, VerTypeOK',
         UNCHANGED <<evidenceVars, review, entry, seen, reading, offers, runVars>>
  PROVE  VInv'
<1>1. Located'
  BY DEF VInv, Located, evidenceVars, runVars
<1>2. Shown'
  BY DEF VInv, Shown, Readable, In, Faithful, evidenceVars
<1>3. Recorded'
  BY DEF VInv, Recorded, evidenceVars
<1>. QED
  BY <1>1, <1>2, <1>3 DEF VInv

LEMMA DriftStep ==
  ASSUME VInv, Drift
  PROVE  VInv'
<1>1. UNCHANGED <<evidenceVars, reviewVars, runVars, leased, agent>>
  BY DEF Drift, MoveHead, Edit, CommandWrites
<1>2. work' \in Trees /\ writes' \in 0..MaxWrites /\ drift' \in 0..MaxDrift
  <2>1. CASE MoveHead
    BY <2>1, VerificationAssumption DEF VInv, VerTypeOK, MoveHead
  <2>2. ASSUME NEW p \in Paths, NEW c \in Contents, Edit(p, c) \/ CommandWrites(p, c)
        PROVE  work' \in Trees /\ writes' \in 0..MaxWrites /\ drift' \in 0..MaxDrift
    <3>1. work' = [work EXCEPT ![p] = c]
      BY <2>2 DEF Edit, CommandWrites
    <3>2. work' \in Trees
      BY <3>1 DEF VInv, VerTypeOK, Trees
    <3>. QED
      BY <2>2, <3>2, VerificationAssumption DEF VInv, VerTypeOK, Edit, CommandWrites
  <2>. QED
    BY <2>1, <2>2 DEF Drift
<1>3. log' \in Seq([parent : Nat, tree : Trees]) /\ head' \in 1..Len(log')
  <2>1. CASE MoveHead
    <3>1. PICK parent \in {head, log[head].parent} \ {0} :
            log' = Append(log, [parent |-> parent, tree |-> work])
      BY <2>1 DEF MoveHead
    <3>2. log[head] \in [parent : Nat, tree : Trees] /\ head \in Nat
      <4>1. log \in Seq([parent : Nat, tree : Trees]) /\ head \in 1..Len(log) /\ VerTypeOK
        BY DEF VInv, VerTypeOK
      <4>2. log[head] \in [parent : Nat, tree : Trees]
        BY <4>1, CommitType
      <4>3. head \in Nat
        BY <4>1
      <4>. QED
        BY <4>2, <4>3
    <3>3. parent \in Nat
      BY <3>2
    <3>4. [parent |-> parent, tree |-> work] \in [parent : Nat, tree : Trees]
      BY <3>3 DEF VInv, VerTypeOK
    <3>. QED
      BY <2>1, <3>1, <3>4 DEF MoveHead, VInv, VerTypeOK
  <2>2. CASE ~MoveHead
    BY <2>2 DEF Drift, Edit, CommandWrites, VInv, VerTypeOK
  <2>. QED
    BY <2>1, <2>2
<1>4. VerTypeOK'
  BY <1>1, <1>2, <1>3 DEF VInv, VerTypeOK, evidenceVars, reviewVars, runVars
<1>. QED
  BY <1>1, <1>4, WorldStep DEF reviewVars

LEMMA ClockStep ==
  ASSUME VInv, Expire \/ LoseLease
  PROVE  VInv'
<1>1. VerTypeOK'
  BY DEF VInv, VerTypeOK, Expire, LoseLease, treeVars, evidenceVars, reviewVars, runVars
<1>. QED
  BY <1>1, WorldStep DEF Expire, LoseLease, reviewVars

LEMMA PlanStep ==
  ASSUME VInv, Plan
  PROVE  VInv'
<1>1. VerTypeOK'
  BY SnapshotType DEF VInv, VerTypeOK, Plan, PersistPlan, Awaits, treeVars, reviewVars, evidenceVars
<1>2. Located'
  BY DEF VInv, Located, Plan, PersistPlan, reviewVars
<1>3. Shown'
  BY NoViewType, VerificationAssumption, Numbers DEF VInv, Located, Shown, Readable, In, Plan, PersistPlan, reviewVars
<1>4. Recorded'
  BY Numbers DEF VInv, Located, Recorded, Plan, PersistPlan, reviewVars
<1>. QED
  BY <1>1, <1>2, <1>3, <1>4 DEF VInv

(* The execution moves on; no check and no review changes.                  *)
LEMMA MoveStep ==
  ASSUME VInv, StartChecks \/ BeginCommand \/ SpawnCommand \/ CommandEnds \/ Finish \/ Reject
  PROVE  VInv'
<1>1. UNCHANGED <<treeVars, evidenceVars, reviewVars, check, leased, agent>>
  BY DEF StartChecks, BeginCommand, SpawnCommand, CommandEnds, Finish, Reject
<1>2. outcome' \in Decisions /\ pc' \in Awaits \cup {"idle", "awaiting", "verified", "failed"}
  BY DEF VInv, VerTypeOK, StartChecks, BeginCommand, SpawnCommand, CommandEnds, Finish, Reject, Awaits
<1>3. span' \in [1..Commands -> [from : Snapshots, to : Snapshots]]
  BY SnapshotType DEF VInv, VerTypeOK, StartChecks, BeginCommand, SpawnCommand, CommandEnds, Finish, Reject
<1>4. VerTypeOK'
  BY <1>1, <1>2, <1>3 DEF VInv, VerTypeOK, treeVars, evidenceVars, reviewVars
<1>5. Located'
  BY <1>1 DEF VInv, Located, StartChecks, BeginCommand, SpawnCommand, CommandEnds, Finish, Reject,
              Awaits, evidenceVars, reviewVars
<1>6. Shown' /\ Recorded'
  BY <1>1 DEF VInv, Shown, Readable, In, Recorded, Faithful, evidenceVars, reviewVars
<1>. QED
  BY <1>4, <1>5, <1>6 DEF VInv

LEMMA SealStep ==
  ASSUME VInv, Seal
  PROVE  VInv'
<1>1. VerTypeOK'
  BY DEF VInv, VerTypeOK, Seal, SealSnapshot, BoundPlan, Awaits, treeVars, reviewVars
<1>2. Located'
  BY DEF VInv, Located, Seal, SealSnapshot, BoundPlan, reviewVars
<1>3. Shown' /\ Recorded'
  BY DEF VInv, Shown, Readable, In, Recorded, Faithful, Seal, SealSnapshot, BoundPlan, reviewVars
<1>. QED
  BY <1>1, <1>2, <1>3 DEF VInv

LEMMA RecordCommandStep ==
  ASSUME VInv, RecordCommand
  PROVE  VInv'
<1>1. check \in 1..Commands /\ check \in Checks /\ check \notin Reviews /\ check # Diff /\ ~sealed
  BY Numbers DEF VInv, Located, RecordCommand, FinishCheck, Reviews
<1>2. \A k \in Checks \ {check} : status'[k] = status[k]
  BY DEF VInv, VerTypeOK, RecordCommand, FinishCheck
<1>3. VerTypeOK'
  BY <1>1, Numbers DEF VInv, VerTypeOK, RecordCommand, FinishCheck, Decisions, Awaits, treeVars, reviewVars
<1>4. Located'
  BY <1>1, <1>2, Numbers DEF VInv, Located, RecordCommand, FinishCheck, Checks, reviewVars
<1>5. Shown'
  BY <1>1, <1>2, Numbers DEF VInv, Shown, Readable, In, Faithful, RecordCommand, FinishCheck, reviewVars
<1>6. Recorded'
  BY <1>1, <1>2, Numbers DEF VInv, Recorded, RecordCommand, FinishCheck, reviewVars
<1>. QED
  BY <1>3, <1>4, <1>5, <1>6 DEF VInv

LEMMA RequestReviewStep ==
  ASSUME VInv, RequestReview
  PROVE  VInv'
<1>1. check \in Reviews /\ check \in Checks /\ status[check] = "PENDING" /\ ~sealed
  BY Numbers DEF VInv, Located, RequestReview, OpenReview, CreateRow, Checks
<1>2. /\ review'[check] = [review[check] EXCEPT !.state = "PENDING"]
      /\ \A k \in Reviews \ {check} : review'[k] = review[k]
  BY <1>1 DEF VInv, VerTypeOK, RequestReview, OpenReview, CreateRow
<1>3. review' \in [Reviews -> Rows]
  <2>1. review \in [Reviews -> Rows] /\ review[check] \in Rows
    BY <1>1 DEF VInv, VerTypeOK
  <2>2. [review[check] EXCEPT !.state = "PENDING"] \in Rows
    BY <2>1 DEF Rows
  <2>. QED
    BY <2>1, <2>2 DEF RequestReview, OpenReview, CreateRow
<1>4. VerTypeOK'
  BY <1>3, NoViewType DEF VInv, VerTypeOK, RequestReview, OpenReview, CreateRow, Views, treeVars, evidenceVars
<1>5. Located'
  BY <1>1, <1>2 DEF VInv, Located, RequestReview, OpenReview, CreateRow, evidenceVars
<1>6. review'[check].state = "PENDING"
  BY <1>1, <1>2 DEF VInv, VerTypeOK, Rows
<1>7. Shown'
  <2>1. \A p \in Paths : seen'[p] = None /\ reading'[p] \notin Contents
    BY NoViewType, VerificationAssumption DEF RequestReview, OpenReview, CreateRow
  <2>. QED
    BY <1>1, <1>2, <1>6, <2>1 DEF VInv, Shown, Readable, In, Faithful, RequestReview, OpenReview, CreateRow, evidenceVars
<1>8. Recorded'
  BY <1>1, <1>2, Numbers DEF VInv, Recorded, RequestReview, OpenReview, CreateRow, evidenceVars, Reviews
<1>. QED
  BY <1>4, <1>5, <1>7, <1>8 DEF VInv

LEMMA FinishReviewStep ==
  ASSUME VInv, FinishReview
  PROVE  VInv'
<1>1. check \in Reviews /\ check \in Checks /\ review[check].state = "ACCEPTED" /\ ~sealed
  BY Numbers DEF VInv, Located, FinishReview, FinishCheck, AcceptedAs
<1>2. review[check].decision \in Decisions
  BY <1>1 DEF VInv, Located, FinishReview, FinishCheck, AcceptedAs
<1>3. /\ status'[check] = review[check].decision
      /\ \A k \in Checks \ {check} : status'[k] = status[k]
  BY <1>1 DEF VInv, VerTypeOK, FinishReview, FinishCheck, AcceptedAs
<1>4. VerTypeOK'
  BY <1>1, <1>2, Numbers DEF VInv, VerTypeOK, FinishReview, FinishCheck, AcceptedAs, Decisions, Rows, Awaits, treeVars, reviewVars
<1>5. Located'
  BY <1>1, <1>3, Numbers DEF VInv, Located, FinishReview, FinishCheck, AcceptedAs, Checks, reviewVars
<1>6. Shown'
  BY <1>1, <1>3, Numbers DEF VInv, Shown, Readable, In, Faithful, FinishReview, FinishCheck, AcceptedAs, reviewVars
<1>7. Recorded'
  BY <1>1, <1>3, Numbers DEF VInv, Recorded, FinishReview, FinishCheck, AcceptedAs, reviewVars
<1>. QED
  BY <1>4, <1>5, <1>6, <1>7 DEF VInv

LEMMA ReadStep ==
  ASSUME VInv, NEW p \in Paths, BeginRead(p) \/ ReadSource(p) \/ EndRead(p) \/ ReadFails(p)
  PROVE  VInv'
<1>1. UNCHANGED <<treeVars, evidenceVars, review, entry, fresh, offers, runVars, leased, agent>>
  BY DEF BeginRead, ReadSource, EndRead, ReadFails
<1>2. seen' \in Views /\ reading' \in [Paths -> Contents \cup {None, Checked}]
  BY DEF VInv, VerTypeOK, BeginRead, ReadSource, EndRead, ReadFails, Views, Trees
<1>3. \A q \in Paths :
        /\ seen'[q] # None => seen'[q] = expected.entries[q] /\ Readable
        /\ reading'[q] \in Contents => reading'[q] = expected.entries[q] /\ Readable
  BY VerificationAssumption
     DEF VInv, VerTypeOK, Shown, BeginRead, ReadSource, EndRead, ReadFails, Views
<1>4. VerTypeOK'
  BY <1>1, <1>2 DEF VInv, VerTypeOK, treeVars, evidenceVars, runVars
<1>5. pc # "idle"
  <2>1. CASE BeginRead(p)
    BY <2>1 DEF VInv, Located, BeginRead, ReviewOpen
  <2>2. CASE ReadSource(p) \/ EndRead(p) \/ ReadFails(p)
    <3>1. reading[p] # None
      BY <2>2, VerificationAssumption DEF ReadSource, EndRead, ReadFails
    <3>. QED
      BY <3>1, NoViewType DEF VInv, Located
  <2>. QED
    BY <2>1, <2>2
<1>6. Located'
  BY <1>1, <1>5 DEF VInv, Located, evidenceVars, runVars
<1>7. Shown'
  BY <1>1, <1>3 DEF VInv, Shown, Readable, In, Faithful, evidenceVars
<1>8. Recorded'
  BY <1>1 DEF VInv, Recorded, evidenceVars
<1>. QED
  BY <1>4, <1>6, <1>7, <1>8 DEF VInv

LEMMA SubmitStep ==
  ASSUME VInv, NEW decision \in Decisions, NEW paths \in SUBSET Paths, Submit(decision, paths)
  PROVE  VInv'
<1>. DEFINE o == [check |-> check, decision |-> decision, paths |-> paths,
                  views |-> IF decision = "PASS" THEN seen ELSE NoView]
<1>1. check \in Reviews /\ pc = "awaiting"
  BY DEF VInv, Located, Submit, ReviewOpen
<1>2. o \in Offers
  BY <1>1, NoViewType DEF VInv, VerTypeOK, Offers
<1>3. decision = "PASS" => Faithful(seen, paths, check)
  <2>. SUFFICES ASSUME decision = "PASS" PROVE Faithful(seen, paths, check)
    OBVIOUS
  <2>1. In(seen) = In(expected.entries) /\ paths \subseteq In(expected.entries)
        /\ (check = Diff => paths # {})
    BY DEF Submit, Valid
  <2>2. seen \in [Paths -> Contents \cup {None}] /\ expected.entries \in [Paths -> Contents \cup {None}]
    BY DEF VInv, VerTypeOK, Snapshots, Views
  <2>3. \A p \in Paths : seen[p] = expected.entries[p]
    BY <2>1 DEF In, VInv, Shown
  <2>4. Readable
    <3>1. \A p \in In(expected.entries) : seen[p] # None
      BY <2>1 DEF In
    <3>. QED
      BY <3>1 DEF Readable, In, VInv, Shown
  <2>. QED
    BY <2>1, <2>2, <2>3, <2>4 DEF Faithful
<1>4. offers' = offers \cup {o}
  BY DEF Submit
<1>5. UNCHANGED <<treeVars, evidenceVars, review, entry, fresh, seen, reading, runVars, leased, agent>>
  BY DEF Submit
<1>6. VerTypeOK'
  BY <1>2, <1>4, <1>5 DEF VInv, VerTypeOK, treeVars, evidenceVars, runVars
<1>7. Located'
  BY <1>1, <1>5 DEF VInv, Located, evidenceVars, runVars
<1>8. o.decision = "PASS" => Faithful(o.views, o.paths, o.check)
  BY <1>3
<1>. HIDE DEF o
<1>9. Shown'
  BY <1>4, <1>5, <1>8 DEF VInv, Shown, Readable, In, Faithful, evidenceVars
<1>10. Recorded'
  BY <1>5 DEF VInv, Recorded, evidenceVars
<1>. QED
  BY <1>6, <1>7, <1>9, <1>10 DEF VInv

(* An entry that is gone has shown nothing.                                *)
LEMMA NothingShown ==
  /\ NoView \in Views
  /\ \A p \in Paths : NoView[p] = None
BY DEF NoView, Views

LEMMA AcceptStep ==
  ASSUME VInv, NEW o \in offers, Accept(o)
  PROVE  VInv'
<1>1. /\ o \in Offers /\ o.check = check /\ check \in Reviews /\ check \in Checks
      /\ status[check] = "PENDING" /\ ~sealed
  BY Numbers DEF VInv, VerTypeOK, Located, Accept, AcceptRow, ReviewOpen, Checks
<1>2. /\ review'[check] = [state |-> "ACCEPTED", decision |-> o.decision, views |-> o.views, paths |-> o.paths]
      /\ \A k \in Reviews \ {check} : review'[k] = review[k]
  BY <1>1 DEF VInv, VerTypeOK, Accept, AcceptRow
<1>3. review' \in [Reviews -> Rows]
  BY <1>1 DEF VInv, VerTypeOK, Accept, AcceptRow, Rows, Offers, Decisions
<1>4. VerTypeOK'
  BY <1>3, NothingShown DEF VInv, VerTypeOK, Accept, AcceptRow, Awaits, treeVars, evidenceVars
<1>5. Located'
  BY <1>1, <1>2 DEF VInv, Located, Accept, AcceptRow, Offers, evidenceVars
<1>6. o.decision = "PASS" => Faithful(o.views, o.paths, check)
  BY <1>1 DEF VInv, Shown, Readable, In
<1>7. Shown'
  <2>1. \A p \in Paths : seen'[p] = None /\ reading'[p] = reading[p]
    BY NothingShown DEF Accept
  <2>. QED
    BY <1>1, <1>2, <1>6, <2>1
       DEF VInv, Shown, Readable, In, Faithful, Accept, AcceptRow, evidenceVars
<1>8. Recorded'
  BY <1>1, <1>2, Numbers DEF VInv, Recorded, Accept, AcceptRow, evidenceVars, Reviews
<1>. QED
  BY <1>4, <1>5, <1>7, <1>8 DEF VInv

LEMMA SubmitFailsStep ==
  ASSUME VInv, NEW o \in offers, SubmitFails(o)
  PROVE  VInv'
<1>1. VerTypeOK'
  BY DEF VInv, VerTypeOK, SubmitFails, treeVars, evidenceVars, runVars
<1>2. Located'
  BY DEF VInv, Located, SubmitFails, evidenceVars, runVars
<1>3. Shown' /\ Recorded'
  BY DEF VInv, Shown, Readable, In, Recorded, Faithful, SubmitFails, evidenceVars
<1>. QED
  BY <1>1, <1>2, <1>3 DEF VInv

LEMMA StopReviewStep ==
  ASSUME VInv, entry, NEW s \in {"FAILED", "INTERRUPTED"}, StopReview(s),
         agent' \in {"up", "closed", "down"}
  PROVE  VInv'
<1>1. check \in Reviews /\ check \in Checks /\ status[check] = "PENDING" /\ ~sealed
  <2>1. check \in Reviews /\ check \in Checks
    BY Numbers DEF VInv, Located
  <2>2. check >= check
    BY <2>1 DEF Checks
  <2>. QED
    BY <2>1, <2>2, Numbers DEF VInv, Located
<1>2. /\ review' \in [Reviews -> Rows]
      /\ review'[check].state = s \/ review'[check] = review[check]
      /\ \A k \in Reviews \ {check} : review'[k] = review[k]
  <2>1. CASE review[check].state = "PENDING"
    <3>1. review' = [review EXCEPT ![check].state = s]
      BY <2>1 DEF StopReview, StopRow
    <3>. QED
      BY <1>1, <3>1 DEF VInv, VerTypeOK, Rows
  <2>2. CASE review[check].state # "PENDING"
    <3>1. review' = review
      BY <2>2 DEF StopReview, StopRow
    <3>. QED
      BY <3>1 DEF VInv, VerTypeOK
  <2>. QED
    BY <2>1, <2>2
<1>3. review' \in [Reviews -> Rows]
  BY <1>2
<1>4. VerTypeOK'
  BY <1>3, NothingShown DEF VInv, VerTypeOK, StopReview, StopRow, treeVars, evidenceVars
<1>5. Located'
  BY <1>1 DEF VInv, Located, StopReview, StopRow, evidenceVars
<1>6. Shown'
  <2>1. \A p \in Paths : seen'[p] = None /\ reading'[p] = reading[p]
    BY NothingShown DEF StopReview
  <2>. QED
    BY <1>1, <1>2, <2>1 DEF VInv, Shown, Readable, In, Faithful, StopReview, StopRow, evidenceVars
<1>7. Recorded'
  BY <1>1, <1>2, Numbers DEF VInv, Recorded, StopReview, StopRow, evidenceVars, Reviews
<1>. QED
  BY <1>4, <1>5, <1>6, <1>7 DEF VInv

LEMMA CloseStep ==
  ASSUME VInv, Close
  PROVE  VInv'
<1>1. CASE entry
  BY <1>1, StopReviewStep DEF Close
<1>2. CASE ~entry
  <2>1. VerTypeOK'
    BY <1>2 DEF VInv, VerTypeOK, Close, treeVars, evidenceVars, reviewVars, runVars
  <2>. QED
    BY <1>2, <2>1, WorldStep DEF Close, reviewVars
<1>. QED
  BY <1>1, <1>2

LEMMA CrashStep ==
  ASSUME VInv, Crash
  PROVE  VInv'
<1>1. VerTypeOK'
  BY NoViewType DEF VInv, VerTypeOK, Crash, treeVars, evidenceVars, Views
<1>2. Located'
  BY DEF VInv, Located, Crash, evidenceVars
<1>3. Shown'
  BY NoViewType, VerificationAssumption DEF VInv, Shown, Readable, In, Faithful, Crash, evidenceVars
<1>4. Recorded'
  BY DEF VInv, Recorded, Crash, evidenceVars
<1>. QED
  BY <1>1, <1>2, <1>3, <1>4 DEF VInv

LEMMA RestartStep ==
  ASSUME VInv, Restart
  PROVE  VInv'
<1>1. \A k \in Reviews :
        /\ review'[k] \in Rows
        /\ review[k].state # "PENDING" => review'[k] = review[k]
        /\ review[k].state = "PENDING" => review'[k].state = "INTERRUPTED" /\ review'[k].paths = review[k].paths
  BY DEF VInv, VerTypeOK, Restart, Rows
<1>2. VerTypeOK'
  BY <1>1 DEF VInv, VerTypeOK, Restart, treeVars, evidenceVars, runVars
<1>3. Located'
  BY <1>1 DEF VInv, Located, Restart, evidenceVars, runVars
<1>4. Shown'
  BY <1>1 DEF VInv, Shown, Readable, In, Faithful, Restart, evidenceVars
<1>5. Recorded'
  BY <1>1, Numbers DEF VInv, Recorded, Restart, evidenceVars, Reviews
<1>. QED
  BY <1>2, <1>3, <1>4, <1>5 DEF VInv

LEMMA NextVInv == VInv /\ [VerNext]_verVars => VInv'
<1>. SUFFICES ASSUME VInv, [VerNext]_verVars PROVE VInv'
  OBVIOUS
<1>1. CASE Progress
  BY <1>1, PlanStep, MoveStep, SealStep, RecordCommandStep, RequestReviewStep, FinishReviewStep DEF Progress
<1>2. CASE Control \/ Timeout
  BY <1>2, ReadStep, SubmitStep, AcceptStep, SubmitFailsStep, StopReviewStep
     DEF Control, Timeout, ControllerFails, ReviewOpen, VInv, VerTypeOK
<1>3. CASE UNCHANGED verVars
  <2>1. VerTypeOK'
    BY <1>3 DEF VInv, VerTypeOK, verVars, treeVars, evidenceVars, reviewVars, runVars
  <2>. QED
    BY <1>3, <2>1, WorldStep DEF verVars, reviewVars
<1>. QED
  BY <1>1, <1>2, <1>3, DriftStep, ClockStep, CloseStep, CrashStep, RestartStep DEF VerNext

(* The inductive invariant of verification.                                 *)
THEOREM VerificationInvariant == VerSpec => []VInv
<1>. QED
  BY InitVInv, NextVInv, PTL DEF VerSpec

LEMMA VInvSealed == VInv => SealedProof
BY Numbers DEF VInv, Located, Shown, Recorded, Faithful, SealedProof, Reviews

(* VerificationRepository.sealSnapshot: whatever interleaves, a sealed plan *)
(* has passed every check and both reviews saw the whole snapshot.          *)
THEOREM SealedEvidence == VerSpec => []SealedProof
<1>. QED
  BY VerificationInvariant, VInvSealed, PTL

-----------------------------------------------------------------------------
(* Reviews are awaited and decided once.                                   *)

(* Steps that leave reviews, the execution and the process alone.           *)
LEMMA QuietStep ==
  ASSUME RInv, UNCHANGED <<review, entry, pc, check, agent>>
  PROVE  ReviewsAwaited' /\ Unrequested' /\ \A k \in Reviews : review'[k] = review[k]
BY DEF RInv, ReviewsAwaited, Unrequested

(* The execution moves on between reviews.                                  *)
LEMMA RunningStep ==
  ASSUME RInv, UNCHANGED <<review, entry, agent>>,
         pc \notin {"awaiting", "failed"}, pc' # "awaiting", ~entry,
         check \in Nat,
         \/ check' = check /\ (pc = "reviewed" => pc' \in {"reviewed", "failed"})
         \/ check' = check + 1
  PROVE  ReviewsAwaited' /\ Unrequested' /\ \A k \in Reviews : review'[k] = review[k]
<1>1. ReviewsAwaited'
  BY DEF RInv, ReviewsAwaited
<1>2. \A k \in Reviews : k \in Nat
  BY VerificationAssumption DEF Reviews, Secret, Diff
<1>3. Unrequested'
  BY <1>2 DEF RInv, Unrequested
<1>. QED
  BY <1>1, <1>3

LEMMA ReviewTypes ==
  ASSUME RInv
  PROVE  /\ check \in Nat
         /\ \A k \in Reviews : k \in Nat /\ review[k] \in Rows
         /\ entry => pc = "awaiting" /\ check \in Reviews
         /\ pc = "awaiting" <=> entry
BY VerificationAssumption DEF RInv, VInv, VerTypeOK, Located, ReviewsAwaited, Over, Reviews, Secret, Diff

LEMMA StopOnce ==
  ASSUME RInv, entry, agent # "down", NEW s \in {"FAILED", "INTERRUPTED"}, StopReview(s)
  PROVE  /\ ReviewsAwaited' /\ Unrequested'
         /\ \A k \in Reviews : review[k].state \notin {"NONE", "PENDING"} => review'[k] = review[k]
<1>2. review[check].state = "PENDING" /\ check' = check /\ pc' = "failed" /\ entry' = FALSE
  BY DEF StopReview, RInv, ReviewsAwaited
<1>1. /\ review'[check].state = s
      /\ \A k \in Reviews \ {check} : review'[k] = review[k]
  <2>1. review' = [review EXCEPT ![check].state = s]
    BY <1>2 DEF StopReview, StopRow
  <2>. QED
    BY <2>1, ReviewTypes DEF RInv, VInv, VerTypeOK, Rows
<1>3. ReviewsAwaited'
  <2>1. \A k \in Reviews : review[k].state = "PENDING" /\ agent # "down" => k = check
    BY DEF RInv, ReviewsAwaited
  <2>. QED
    BY <1>1, <1>2, <2>1 DEF ReviewsAwaited
<1>4. Unrequested'
  BY <1>1, <1>2, ReviewTypes DEF RInv, Unrequested
<1>. QED
  BY <1>1, <1>2, <1>3, <1>4

LEMMA RequestOnce ==
  ASSUME RInv, RequestReview
  PROVE  /\ ReviewsAwaited' /\ Unrequested'
         /\ \A k \in Reviews : review[k].state \notin {"NONE", "PENDING"} => review'[k] = review[k]
<1>1. check \in Reviews /\ review[check].state = "NONE" /\ ~entry /\ check' = check
  BY ReviewTypes DEF RequestReview, OpenReview, CreateRow, RInv, Unrequested
<1>2. /\ review'[check].state = "PENDING"
      /\ \A k \in Reviews \ {check} : review'[k] = review[k]
  BY <1>1, ReviewTypes DEF RequestReview, OpenReview, CreateRow, RInv, VInv, VerTypeOK, Rows
<1>3. agent # "down"
  BY DEF RequestReview, OpenReview, CreateRow, Unmoved, Active
<1>4. ReviewsAwaited'
  BY <1>1, <1>2, <1>3 DEF RequestReview, OpenReview, CreateRow, RInv, ReviewsAwaited
<1>5. Unrequested'
  BY <1>1, <1>2, ReviewTypes DEF RequestReview, OpenReview, CreateRow, RInv, Unrequested
<1>. QED
  BY <1>1, <1>2, <1>4, <1>5

LEMMA AcceptOnce ==
  ASSUME RInv, NEW o \in offers, Accept(o)
  PROVE  /\ ReviewsAwaited' /\ Unrequested'
         /\ \A k \in Reviews : review[k].state \notin {"NONE", "PENDING"} => review'[k] = review[k]
<1>1. /\ entry /\ pc = "awaiting" /\ check \in Reviews /\ o.check = check
      /\ review[check].state = "PENDING" /\ check' = check /\ pc' = "reviewed" /\ entry' = FALSE
  BY ReviewTypes DEF Accept, AcceptRow, ReviewOpen
<1>2. /\ review'[check].state = "ACCEPTED"
      /\ \A k \in Reviews \ {check} : review'[k] = review[k]
  BY <1>1 DEF Accept, AcceptRow, RInv, VInv, VerTypeOK
<1>3. agent # "down" /\ agent' = agent
  BY DEF Accept, AcceptRow, ReviewOpen, Active
<1>4. ReviewsAwaited'
  BY <1>1, <1>2, <1>3 DEF RInv, ReviewsAwaited
<1>5. Unrequested'
  BY <1>1, <1>2, ReviewTypes DEF RInv, Unrequested
<1>. QED
  BY <1>1, <1>2, <1>4, <1>5

LEMMA RestartOnce ==
  ASSUME RInv, Crash \/ Restart
  PROVE  /\ ReviewsAwaited' /\ Unrequested'
         /\ \A k \in Reviews : review[k].state \notin {"NONE", "PENDING"} => review'[k] = review[k]
<1>1. CASE Crash
  BY <1>1 DEF Crash, RInv, ReviewsAwaited, Unrequested
<1>2. CASE Restart
  <2>1. \A k \in Reviews :
          /\ review[k].state # "PENDING" => review'[k] = review[k]
          /\ review[k].state = "PENDING" => review'[k].state = "INTERRUPTED"
    BY <1>2, ReviewTypes DEF Restart, Rows
  <2>2. ~entry /\ entry' = entry /\ pc' = pc /\ check' = check
    BY <1>2 DEF Restart, RInv, ReviewsAwaited, runVars
  <2>3. ReviewsAwaited'
    BY <2>1, <2>2 DEF RInv, ReviewsAwaited
  <2>4. Unrequested'
    BY <2>1, <2>2 DEF RInv, Unrequested
  <2>. QED
    BY <2>1, <2>3, <2>4
<1>. QED
  BY <1>1, <1>2

LEMMA NextOnce ==
  ASSUME RInv, [VerNext]_verVars
  PROVE  /\ ReviewsAwaited' /\ Unrequested'
         /\ \A k \in Reviews : review[k].state \notin {"NONE", "PENDING"} => review'[k] = review[k]
<1>1. CASE Plan \/ StartChecks \/ BeginCommand \/ SpawnCommand \/ CommandEnds \/ RecordCommand
             \/ FinishReview \/ Seal \/ Finish \/ Reject
  <2>1. UNCHANGED <<review, entry, agent>> /\ pc' # "awaiting"
    BY <1>1 DEF Plan, PersistPlan, StartChecks, BeginCommand, SpawnCommand, CommandEnds, RecordCommand, FinishCheck,
                FinishReview, AcceptedAs, Seal, SealSnapshot, Finish, Reject, reviewVars
  <2>2. pc \notin {"awaiting", "failed"}
    BY <1>1 DEF Plan, PersistPlan, StartChecks, BeginCommand, SpawnCommand, CommandEnds, RecordCommand, FinishCheck,
                FinishReview, AcceptedAs, Seal, SealSnapshot, Finish, Reject, Awaits
  <2>3. \/ check' = check /\ (pc = "reviewed" => pc' \in {"reviewed", "failed"})
        \/ check' = check + 1
    BY <1>1 DEF Plan, PersistPlan, StartChecks, BeginCommand, SpawnCommand, CommandEnds, RecordCommand, FinishCheck,
                FinishReview, AcceptedAs, Seal, SealSnapshot, Finish, Reject
  <2>4. ~entry /\ check \in Nat
    BY <2>2, ReviewTypes
  <2>. QED
    BY <2>1, <2>2, <2>3, <2>4, RunningStep
<1>2. CASE RequestReview
  BY <1>2, RequestOnce
<1>3. CASE Control \/ Timeout \/ Close
  <2>1. ASSUME NEW p \in Paths, BeginRead(p) \/ ReadSource(p) \/ EndRead(p) \/ ReadFails(p)
        PROVE  UNCHANGED <<review, entry, pc, check, agent>>
    BY <2>1 DEF BeginRead, ReadSource, EndRead, ReadFails, runVars
  <2>2. ASSUME NEW decision \in Decisions, NEW paths \in SUBSET Paths, Submit(decision, paths)
        PROVE  UNCHANGED <<review, entry, pc, check, agent>>
    BY <2>2 DEF Submit, runVars
  <2>3. ASSUME NEW o \in offers, SubmitFails(o)
        PROVE  UNCHANGED <<review, entry, pc, check, agent>>
    BY <2>3 DEF SubmitFails, runVars
  <2>4. CASE ControllerFails \/ Timeout
    BY <2>4, StopOnce DEF ControllerFails, ReviewOpen, Active, Timeout
  <2>5. CASE Close
    <3>1. CASE entry
      BY <2>5, <3>1, StopOnce DEF Close
    <3>2. CASE ~entry
      BY <2>5, <3>2 DEF Close, RInv, ReviewsAwaited, Unrequested, reviewVars, runVars
    <3>. QED
      BY <3>1, <3>2
  <2>. QED
    BY <1>3, <2>1, <2>2, <2>3, <2>4, <2>5, QuietStep, AcceptOnce DEF Control
<1>4. CASE Drift \/ Expire \/ LoseLease \/ UNCHANGED verVars
  <2>1. UNCHANGED <<review, entry, pc, check, agent>>
    BY <1>4 DEF Drift, MoveHead, Edit, CommandWrites, Expire, LoseLease, verVars, reviewVars, runVars
  <2>. QED
    BY <2>1, QuietStep
<1>5. CASE Crash \/ Restart
  BY <1>5, RestartOnce
<1>. QED
  BY <1>1, <1>2, <1>3, <1>4, <1>5 DEF VerNext, Progress

LEMMA InitRInv == VerInit => RInv
BY InitVInv DEF VerInit, RInv, ReviewsAwaited, Unrequested, NoReview

THEOREM ReviewInvariant == VerSpec => []RInv
<1>1. RInv /\ [VerNext]_verVars => RInv'
  BY NextVInv, NextOnce DEF RInv
<1>. QED
  BY <1>1, InitRInv, PTL DEF VerSpec

(* ExternalVerificationReview: every pending row has an execution waiting   *)
(* for it, whatever timers, shutdowns and failures come between.            *)
THEOREM PendingAwaited == VerSpec => []ReviewsAwaited
<1>1. RInv => ReviewsAwaited
  BY DEF RInv
<1>. QED
  BY <1>1, ReviewInvariant, PTL

(* VerificationReviewRepository: an accepted, failed or interrupted review  *)
(* never changes again.                                                     *)
THEOREM ReviewDecidedOnce == VerSpec => DecidedOnce
<1>1. RInv /\ [VerNext]_verVars =>
        [\A k \in Reviews : review[k].state \notin {"NONE", "PENDING"} => review'[k] = review[k]]_verVars
  BY NextOnce
<1>. QED
  BY <1>1, ReviewInvariant, PTL DEF VerSpec, DecidedOnce

-----------------------------------------------------------------------------
(* What the commands saw, as long as nobody but them wrote.                *)

Saw(k) == span[k] = [from |-> expected, to |-> expected]

(* Between the last capture before a command and the first one after it    *)
(* only the command writes.                                                *)
SawInv ==
  /\ pc = "idle" => check = 1
  /\ drift = 0 =>
       /\ pc = "queued" => Snapshot = expected
       /\ pc \in {"running", "ended"} => span[check].from = expected
       /\ pc = "ended" => span[check].to = Snapshot
       /\ \A k \in 1..Commands : k < check => Saw(k)

(* Steps that start and end no command.                                    *)
LEMMA SawStays ==
  ASSUME SawInv, UNCHANGED <<work, log, head, drift, expected, span, check>>,
         pc' = pc \/ pc' \notin {"idle", "queued", "running", "ended"}
  PROVE  SawInv'
BY DEF SawInv, Saw, Snapshot, Changed

LEMMA SawCommand ==
  ASSUME VInv, SawInv, BeginCommand \/ SpawnCommand \/ CommandEnds \/ RecordCommand
  PROVE  SawInv'
<1>a. span \in [1..Commands -> [from : Snapshots, to : Snapshots]] /\ check \in Nat
  BY DEF VInv, VerTypeOK
<1>b. /\ work' = work /\ log' = log /\ head' = head /\ drift' = drift
      /\ expected' = expected /\ sealed' = sealed
  <2>1. CASE BeginCommand
    BY <2>1 DEF BeginCommand, treeVars, evidenceVars
  <2>2. CASE SpawnCommand
    BY <2>2 DEF SpawnCommand, treeVars, evidenceVars
  <2>3. CASE CommandEnds
    BY <2>3 DEF CommandEnds, treeVars, evidenceVars
  <2>4. CASE RecordCommand
    BY <2>4 DEF RecordCommand, treeVars
  <2>. QED
    BY <2>1, <2>2, <2>3, <2>4
<1>c. Snapshot' = Snapshot
  BY <1>b DEF Snapshot, Changed
<1>1. /\ span \in [1..Commands -> [from : Snapshots, to : Snapshots]] /\ check \in Nat
      /\ UNCHANGED <<work, log, head, drift, expected>> /\ Snapshot' = Snapshot
  BY <1>a, <1>b, <1>c
<1>2. CASE BeginCommand
  BY <1>1, <1>2 DEF BeginCommand, Unmoved, SawInv, Saw
<1>3. CASE SpawnCommand
  <2>1. check \in 1..Commands /\ pc = "queued"
    BY <1>3 DEF SpawnCommand, VInv, Located
  <2>2. /\ span' = [span EXCEPT ![check].from = Snapshot] /\ pc' = "running" /\ check' = check
    BY <1>3 DEF SpawnCommand
  <2>3. /\ span'[check].from = Snapshot
        /\ \A k \in 1..Commands : k < check => span'[k] = span[k]
    BY <1>1, <2>1, <2>2
  <2>. QED
    BY <1>1, <2>1, <2>2, <2>3 DEF SawInv, Saw
<1>4. CASE CommandEnds
  <2>1. check \in 1..Commands /\ pc = "running"
    BY <1>4 DEF CommandEnds, VInv, Located
  <2>2. /\ span' = [span EXCEPT ![check].to = Snapshot] /\ pc' = "ended" /\ check' = check
    BY <1>4 DEF CommandEnds
  <2>3. /\ span'[check].to = Snapshot /\ span'[check].from = span[check].from
        /\ \A k \in 1..Commands : k < check => span'[k] = span[k]
    BY <1>1, <2>1, <2>2
  <2>. QED
    BY <1>1, <2>1, <2>2, <2>3 DEF SawInv, Saw
<1>5. CASE RecordCommand
  <2>1. check \in 1..Commands /\ pc = "ended" /\ Snapshot = expected
    BY <1>5 DEF RecordCommand, Unmoved, VInv, Located
  <2>2. span' = span /\ pc' = "check" /\ check' = check + 1
    BY <1>5 DEF RecordCommand
  <2>3. drift = 0 => Saw(check)
    BY <1>1, <2>1 DEF SawInv, Saw
  <2>4. \A k \in 1..Commands : k < check + 1 => k < check \/ k = check
    BY <1>1
  <2>. QED
    BY <1>1, <2>1, <2>2, <2>3, <2>4 DEF SawInv, Saw
<1>. QED
  BY <1>2, <1>3, <1>4, <1>5

LEMMA NextSaw ==
  ASSUME VInv, SawInv, [VerNext]_verVars
  PROVE  SawInv'
<1>1. CASE BeginCommand \/ SpawnCommand \/ CommandEnds \/ RecordCommand
  BY <1>1, SawCommand
<1>2. CASE Plan
  BY <1>2 DEF Plan, PersistPlan, SawInv
<1>3. CASE FinishReview
  <2>1. /\ UNCHANGED <<work, log, head, drift, expected, span>> /\ pc' = "check"
        /\ check \in Reviews /\ check' = check + 1
    BY <1>3 DEF FinishReview, treeVars, VInv, Located
  <2>2. \A k \in 1..Commands : k < check
    BY <2>1, VerificationAssumption DEF Reviews, Secret, Diff
  <2>. QED
    BY <2>1, <2>2 DEF SawInv, Saw
<1>4. CASE Drift
  <2>1. drift \in Nat
    BY DEF VInv, VerTypeOK
  <2>2. CASE drift' = drift + 1 /\ UNCHANGED <<pc, check>>
    BY <2>1, <2>2 DEF SawInv
  <2>3. CASE pc = "running" /\ UNCHANGED <<drift, expected, span, check, pc>>
    BY <2>3 DEF SawInv, Saw
  <2>. QED
    BY <1>4, <2>2, <2>3 DEF Drift, MoveHead, Edit, CommandWrites, evidenceVars, runVars
<1>5. CASE StartChecks \/ RequestReview \/ Seal \/ Finish \/ Reject \/ Timeout \/ Close \/ Crash
  BY <1>5, SawStays
  DEF StartChecks, RequestReview, OpenReview, CreateRow, Seal, Finish, Reject, Timeout, Close,
      Crash, StopReview, StopRow, treeVars, evidenceVars, runVars
<1>6. CASE Control \/ Expire \/ LoseLease \/ Restart \/ UNCHANGED verVars
  BY <1>6, SawStays
  DEF Control, BeginRead, ReadSource, EndRead, ReadFails, Submit, Accept, SubmitFails,
      ControllerFails, StopReview, Expire, LoseLease, Restart, verVars, treeVars, evidenceVars,
      runVars
<1>. QED
  BY <1>1, <1>2, <1>3, <1>4, <1>5, <1>6 DEF VerNext, Progress

LEMMA SealedSaw == VInv /\ SawInv => CommandsSawSnapshot
<1>. SUFFICES ASSUME VInv, SawInv, sealed, drift = 0, NEW k \in 1..Commands PROVE Saw(k)
  BY DEF CommandsSawSnapshot, Saw
<1>1. k < check
  BY VerificationAssumption DEF VInv, Located, Over, Diff
<1>. QED
  BY <1>1 DEF SawInv

-----------------------------------------------------------------------------
(* Publication.                                                            *)

LEMMA InitPInv == PubInit => PInv
<1>. SUFFICES ASSUME PubInit PROVE PInv
  OBVIOUS
<1>1. VInv /\ log \in Seq([parent : Nat, tree : Trees]) /\ ~sealed
  BY InitVInv DEF PubInit, VerInit, VInv, VerTypeOK
<1>2. 0 \in 0..Len(log)
  BY <1>1
<1>. QED
  BY <1>1, <1>2 DEF PubInit, PInv, PubTypeOK

(* Commits are only added, and a sealed plan stays what it is.              *)
LEMMA LogGrows ==
  ASSUME VInv, VerNext
  PROVE  Len(log) \in Nat /\ Len(log') \in Nat /\ Len(log') >= Len(log) /\ \A c \in 1..Len(log) : log'[c] = log[c]
<1>1. log \in Seq([parent : Nat, tree : Trees])
  BY DEF VInv, VerTypeOK
<1>2. CASE MoveHead
  <2>1. PICK entry_ : log' = Append(log, entry_)
    BY <1>2 DEF MoveHead
  <2>2. Len(log') = Len(log) + 1 /\ \A c \in 1..Len(log) : log'[c] = log[c]
    BY <1>1, <2>1
  <2>. QED
    BY <1>1, <2>2
<1>3. CASE ~MoveHead
  <2>1. log' = log
    BY <1>3 DEF VerNext, Progress, Control, Drift, Plan, PersistPlan, StartChecks, BeginCommand, SpawnCommand, CommandEnds,
                RecordCommand, FinishCheck, RequestReview, OpenReview, CreateRow, FinishReview, AcceptedAs, Seal, SealSnapshot, Finish, Reject, BeginRead, ReadSource,
                EndRead, ReadFails, Submit, Accept, AcceptRow, SubmitFails, ControllerFails, StopReview, StopRow, Timeout, Expire,
                LoseLease, Close, Crash, Restart, Edit, CommandWrites, treeVars
  <2>. QED
    BY <1>1, <2>1
<1>. QED
  BY <1>2, <1>3

LEMMA SealedStays ==
  ASSUME VInv, VerNext, sealed
  PROVE  UNCHANGED <<expected, approved, sealed>>
<1>1. pc \in {"sealed", "verified", "failed"}
  BY DEF VInv, Located
<1>2. ~Plan /\ ~RecordCommand /\ ~FinishReview /\ ~Seal
  BY <1>1 DEF Plan, PersistPlan, RecordCommand, FinishCheck, FinishReview, AcceptedAs, Seal, SealSnapshot
<1>. QED
  BY <1>2 DEF VerNext, Progress, Control, Drift, StartChecks, BeginCommand, SpawnCommand, CommandEnds,
              RequestReview, OpenReview, CreateRow, Finish, Reject, BeginRead, ReadSource, MoveHead,
              EndRead, ReadFails, Submit, Accept, AcceptRow, SubmitFails, ControllerFails, StopReview, StopRow, Timeout, Expire,
              LoseLease, Close, Crash, Restart, Edit, CommandWrites, evidenceVars

LEMMA SealedNow ==
  ASSUME VInv, VerNext, ~sealed, sealed'
  PROVE  expected'.head = head /\ head' = head
<1>1. Seal
  BY DEF VerNext, Progress, Control, Drift, Plan, PersistPlan, StartChecks, BeginCommand, SpawnCommand, CommandEnds,
         RecordCommand, FinishCheck, RequestReview, OpenReview, CreateRow, FinishReview, AcceptedAs, Finish, Reject, BeginRead, ReadSource, MoveHead,
         EndRead, ReadFails, Submit, Accept, AcceptRow, SubmitFails, ControllerFails, StopReview, StopRow, Timeout, Expire,
         LoseLease, Close, Crash, Restart, Edit, CommandWrites, evidenceVars
<1>. QED
  BY <1>1 DEF Seal, SealSnapshot, Unmoved, Snapshot, Changed, treeVars

LEMMA VerificationStep ==
  ASSUME PInv, VerNext, UNCHANGED pubVars
  PROVE  PInv'
<1>1. VInv /\ VInv'
  BY NextVInv DEF PInv
<1>2. /\ Len(log) \in Nat /\ Len(log') \in Nat /\ Len(log') >= Len(log)
      /\ \A c \in 1..Len(log) : log'[c] = log[c]
  BY <1>1, LogGrows
<1>3. sealed => UNCHANGED <<expected, approved, sealed>>
  BY <1>1, SealedStays
<1>4. stage' = stage /\ sha' = sha /\ remote' = remote /\ message' = message
  BY DEF pubVars
<1>5. PubTypeOK'
  BY <1>2, <1>4 DEF PInv, PubTypeOK
<1>6. sealed' => expected'.head \in 1..Len(log')
  <2>1. CASE sealed
    BY <2>1, <1>2, <1>3 DEF PInv
  <2>2. CASE ~sealed
    <3>1. head' \in 1..Len(log')
      BY <1>1 DEF VInv, VerTypeOK
    <3>. QED
      BY <2>2, <3>1, <1>1, SealedNow
  <2>. QED
    BY <2>1, <2>2
<1>7. stage' \notin {"off", "rejected"} => sealed' /\ message' \in Messages
  BY <1>3, <1>4 DEF PInv
<1>8. stage' = "named" => sha' \in 1..Len(log')
  BY <1>2, <1>4 DEF PInv
<1>9. stage' = "inspected" => Exact(sha)'
  BY <1>2, <1>3, <1>4 DEF PInv, Exact
<1>10. remote' # 0 => Exact(remote)'
  BY <1>2, <1>3, <1>4 DEF PInv, Exact
<1>. QED
  BY <1>1, <1>5, <1>6, <1>7, <1>8, <1>9, <1>10 DEF PInv

LEMMA CommitStep ==
  ASSUME PInv, CommitExplicit
  PROVE  PInv'
<1>1. log \in Seq([parent : Nat, tree : Trees]) /\ head \in 1..Len(log) /\ work \in Trees
  BY DEF PInv, VInv, VerTypeOK
<1>2. PICK tree \in Trees : log' = Append(log, [parent |-> head, tree |-> tree])
  <2>1. log[head].tree \in Trees
    BY <1>1, CommitType DEF PInv, VInv
  <2>2. [p \in Paths |-> IF p \in approved THEN work[p] ELSE log[head].tree[p]] \in Trees
    BY <1>1, <2>1 DEF Trees
  <2>. QED
    BY <2>2 DEF CommitExplicit
<1>3. [parent |-> head, tree |-> tree] \in [parent : Nat, tree : Trees]
  BY <1>1, <1>2
<1>4. /\ log' \in Seq([parent : Nat, tree : Trees])
      /\ Len(log) \in Nat /\ Len(log') = Len(log) + 1
      /\ \A c \in 1..Len(log) : log'[c] = log[c]
  BY <1>1, <1>2, <1>3
<1>5. VInv'
  <2>1. VerTypeOK'
    BY <1>1, <1>4 DEF PInv, VInv, VerTypeOK, CommitExplicit, evidenceVars, reviewVars, runVars
  <2>. QED
    BY <2>1, WorldStep DEF PInv, CommitExplicit, reviewVars
<1>6. /\ UNCHANGED <<expected, approved, sealed, sha, remote, message>> /\ stage' = "committed"
      /\ sealed /\ message \in Messages
  BY DEF CommitExplicit, evidenceVars, PInv
<1>7. PubTypeOK'
  BY <1>4, <1>6 DEF PInv, PubTypeOK
<1>8. sealed' => expected'.head \in 1..Len(log')
  BY <1>4, <1>6 DEF PInv
<1>9. remote' # 0 => Exact(remote)'
  BY <1>4, <1>6 DEF PInv, Exact
<1>. QED
  BY <1>5, <1>6, <1>7, <1>8, <1>9 DEF PInv

(* What assertCommitted compares decides the whole commit.                  *)
LEMMA InspectExact ==
  ASSUME PInv, Inspect
  PROVE  Exact(sha)
<1>1. sealed /\ sha \in 1..Len(log) /\ log[sha].parent = expected.head /\ VInv
  BY DEF PInv, Inspect
<1>2. log[sha].tree \in Trees
  BY <1>1, CommitType DEF VInv
<1>3. approved \subseteq In(expected.entries)
  BY <1>1, VInvSealed DEF SealedProof
<1>4. ASSUME NEW p \in Paths
      PROVE  log[sha].tree[p] = IF p \in approved THEN expected.entries[p] ELSE log[expected.head].tree[p]
  <2>1. Delta(sha)[p] = ApprovedView[p]
    BY DEF Inspect
  <2>2. (IF log[sha].tree[p] = log[expected.head].tree[p] THEN None ELSE log[sha].tree[p])
          = (IF p \in approved THEN expected.entries[p] ELSE None)
    BY <2>1, <1>1 DEF Delta, ApprovedView
  <2>3. log[sha].tree[p] # None
    BY <1>2, VerificationAssumption DEF Trees
  <2>4. p \in approved => expected.entries[p] # None
    BY <1>3 DEF In
  <2>. QED
    BY <2>2, <2>3, <2>4
<1>. QED
  BY <1>1, <1>4 DEF Exact

LEMMA PublishStep ==
  ASSUME PInv, Bind \/ Clear \/ NameCommit \/ Inspect \/ Push \/ PublishRejects
  PROVE  PInv'
<1>1. verVars' = verVars
  BY DEF Bind, Clear, NameCommit, Inspect, Push, PublishRejects
<1>2. VInv'
  <2>1. VerTypeOK'
    BY <1>1 DEF PInv, VInv, VerTypeOK, verVars, treeVars, evidenceVars, reviewVars, runVars
  <2>. QED
    BY <1>1, <2>1, WorldStep DEF PInv, verVars, reviewVars
<1>3. head \in 1..Len(log) /\ Len(log) \in Nat
  BY DEF PInv, VInv, VerTypeOK
<1>4. UNCHANGED <<log, head, expected, approved, sealed>>
  BY <1>1 DEF verVars, treeVars, evidenceVars
<1>5. PubTypeOK'
  BY <1>3, <1>4 DEF PInv, PubTypeOK, Bind, Clear, NameCommit, Inspect, Push, PublishRejects
<1>6. (sealed' => expected'.head \in 1..Len(log')) /\ (stage' \notin {"off", "rejected"} => sealed' /\ message' \in Messages)
  BY <1>4 DEF PInv, Bind, Clear, NameCommit, Inspect, Push, PublishRejects
<1>7. stage' = "named" => sha' \in 1..Len(log')
  BY <1>3, <1>4 DEF PInv, Bind, Clear, NameCommit, Inspect, Push, PublishRejects
<1>8. stage' = "inspected" => Exact(sha)'
  <2>1. stage' = "inspected" => Exact(sha) /\ sha' = sha
    BY InspectExact DEF Bind, Clear, NameCommit, Inspect, Push, PublishRejects
  <2>. QED
    BY <2>1, <1>4 DEF Exact
<1>9. remote' # 0 => Exact(remote)'
  BY <1>4 DEF PInv, Exact, Bind, Clear, NameCommit, Inspect, Push, PublishRejects
<1>. QED
  BY <1>2, <1>5, <1>6, <1>7, <1>8, <1>9 DEF PInv

LEMMA StutterPInv ==
  ASSUME PInv, UNCHANGED allVars
  PROVE  PInv'
<1>1. VInv'
  BY NextVInv DEF PInv, allVars
<1>. QED
  BY <1>1 DEF PInv, PubTypeOK, Exact, allVars, pubVars, verVars, treeVars, evidenceVars

LEMMA NextPInv == PInv /\ [PubNext]_allVars => PInv'
BY VerificationStep, CommitStep, PublishStep, StutterPInv DEF PubNext, Publish

LEMMA PInvPublished == PInv => PublishedIsReviewed
<1>. SUFFICES ASSUME PInv, remote # 0 PROVE PublishedIsReviewed
  BY DEF PublishedIsReviewed
<1>1. Exact(remote)
  BY DEF PInv
<1>2. sealed /\ log[remote].parent = expected.head
  BY <1>1 DEF Exact
<1>3. /\ \A k \in Reviews : review[k].decision = "PASS" /\ review[k].views = expected.entries
      /\ approved = review[Diff].paths
  BY <1>2, VInvSealed DEF PInv, SealedProof
<1>. QED
  BY <1>1, <1>2, <1>3 DEF Exact, PublishedIsReviewed, Reviews

(* The inductive invariant of verification and publication together.        *)
THEOREM PublicationInvariant == PubSpec => []PInv
<1>. QED
  BY InitPInv, NextPInv, PTL DEF PubSpec

(* BoundPublishingVerification.assertCommitted: whatever other programs do  *)
(* to the worktree and its HEAD, what is pushed is what both reviewers saw, *)
(* on the commit that was verified.                                         *)
THEOREM ReviewedPublication == PubSpec => []PublishedIsReviewed
<1>. QED
  BY PublicationInvariant, PInvPublished, PTL

(* VerificationRunner: every command of a sealed plan began and ended on   *)
(* the snapshot the plan was made from, unless another program wrote; the  *)
(* commit that publication makes comes after the seal and changes nothing  *)
(* of that.                                                                *)
THEOREM SealedCommandsSawSnapshot == PubSpec => []CommandsSawSnapshot
<1>1. PubInit => PInv /\ SawInv
  <2>1. PubInit => SawInv
    BY DEF PubInit, VerInit, SawInv
  <2>. QED
    BY <2>1, InitPInv
<1>2. PInv /\ SawInv /\ [PubNext]_allVars => PInv' /\ SawInv'
  <2>. SUFFICES ASSUME PInv, SawInv, [PubNext]_allVars PROVE SawInv'
    BY NextPInv
  <2>1. VInv
    BY DEF PInv
  <2>2. CASE [VerNext]_verVars
    BY <2>1, <2>2, NextSaw
  <2>3. CASE CommitExplicit
    <3>1. sealed /\ UNCHANGED <<expected, span, check, pc>>
      BY <2>3 DEF CommitExplicit, PInv, evidenceVars, runVars
    <3>2. pc \in {"sealed", "verified", "failed"} /\ check = Over
      BY <2>1, <3>1 DEF VInv, Located
    <3>3. drift' = drift
      BY <2>3 DEF CommitExplicit
    <3>. QED
      BY <3>1, <3>2, <3>3 DEF SawInv, Saw
  <2>. QED
    BY <2>2, <2>3
    DEF PubNext, Publish, Bind, Clear, NameCommit, Inspect, Push, PublishRejects, allVars
<1>3. PInv /\ SawInv => CommandsSawSnapshot
  BY SealedSaw DEF PInv
<1>. QED
  BY <1>1, <1>2, <1>3, PTL DEF PubSpec

-----------------------------------------------------------------------------
(* The tables of Git commands.                                              *)

(* A read or an edit has no worktree for a target.                          *)
LEMMA PlainCommand ==
  ASSUME NEW cwd, NEW args, args # <<>>, Head(args) \in GitReads \cup GitEdits,
         args \in Admitted(cwd)
  PROVE  CarriedOut(cwd, args)
<1>1. Head(args) \notin {"reset", "clean", "push", "worktree"}
  BY DEF GitReads, GitEdits
<1>2. ClassifyGit(args, TaskContext) = "ALLOW"
  BY <1>1 DEF ClassifyGit
<1>3. ClassifyRisk(Op("git", args), TaskContext) = "ALLOW"
  BY <1>2 DEF ClassifyRisk, Op
<1>4. WorktreeTargetFor(args) = NoTarget /\ GitTarget(args) = NoTarget
  BY <1>1 DEF WorktreeTargetFor, GitTarget
<1>5. Preflight(Op("git", args), TaskContext)
  BY <1>4 DEF Preflight, Op
<1>. QED
  BY <1>3, <1>4, <1>5 DEF CarriedOut

(* Commands of the agent are carried out together when each of them is.     *)
LEMMA KindPasses ==
  ASSUME NEW kind \in SUBSET OwnCommands, NEW cwd, \A args \in kind : CarriedOut(cwd, args)
  PROVE  kind \subseteq CarriedOutIn(cwd)
BY DEF CarriedOutIn

LEMMA Kinds ==
  /\ HeadCommands \in SUBSET OwnCommands /\ SnapshotCommands \in SUBSET OwnCommands
  /\ PushCommands \in SUBSET OwnCommands /\ ConfirmCommands \in SUBSET OwnCommands
  /\ \A f \in RepoFiles : ReviewCommands(f) \in SUBSET OwnCommands
  /\ \A f \in RepoFiles, m \in Messages : CommitCommands(f, m) \in SUBSET OwnCommands
<1>1. HeadCommands \subseteq SnapshotCommands
  BY DEF SnapshotCommands
<1>2. /\ SnapshotCommands \subseteq OwnCommands /\ PushCommands \subseteq OwnCommands
      /\ ConfirmCommands \subseteq OwnCommands
  BY DEF OwnCommands
<1>3. \A f \in RepoFiles : ReviewCommands(f) \subseteq OwnCommands
  BY DEF OwnCommands
<1>4. \A f \in RepoFiles, m \in Messages : CommitCommands(f, m) \subseteq OwnCommands
  BY DEF OwnCommands
<1>. QED
  BY <1>1, <1>2, <1>3, <1>4

LEMMA HeadPasses == HeadCommands \subseteq InWorktree
<1>1. ASSUME NEW args \in HeadCommands PROVE CarriedOut(Worktree, args)
  BY PlainCommand DEF HeadCommands, GitReads, Admitted
<1>. QED
  BY <1>1, Kinds, KindPasses DEF InWorktree

LEMMA ReadsPass == SnapshotCommands \subseteq InWorktree
<1>1. ASSUME NEW args \in SnapshotCommands PROVE CarriedOut(Worktree, args)
  BY PlainCommand DEF SnapshotCommands, HeadCommands, GitReads, Admitted
<1>. QED
  BY <1>1, Kinds, KindPasses DEF InWorktree

(* A file that a reviewer is shown can be read, ...                         *)
LEMMA ReviewsPass ==
  ASSUME NEW f \in Names, f \in Ordinary
  PROVE  ReviewCommands(f) \subseteq InWorktree
<1>1. f \in RepoFiles /\ f \in SafePaths
  BY OrdinaryIsSafe
<1>2. ASSUME NEW args \in ReviewCommands(f) PROVE CarriedOut(Worktree, args)
  BY <1>1, PlainCommand DEF ReviewCommands, GitReads, Admitted
<1>. QED
  BY <1>1, <1>2, Kinds, KindPasses DEF InWorktree

(* ... and committed, if the message is short enough, ...                   *)
LEMMA CommitsPass ==
  ASSUME NEW f \in Names, f \in Ordinary, NEW m \in Messages, m \in ShortMessages
  PROVE  CommitCommands(f, m) \subseteq InWorktree
<1>1. f \in RepoFiles /\ f \in SafePaths
  BY OrdinaryIsSafe
<1>2. ASSUME NEW args \in CommitCommands(f, m) PROVE CarriedOut(Worktree, args)
  BY <1>1, PlainCommand DEF CommitCommands, GitReads, GitEdits, Admitted
<1>. QED
  BY <1>1, <1>2, Kinds, KindPasses DEF InWorktree

(* ... and not otherwise.                                                   *)
LEMMA LongMessageStops ==
  ASSUME NEW f, NEW m, m \notin ShortMessages
  PROVE  ~(CommitCommands(f, m) \subseteq InWorktree)
<1>. DEFINE commit == <<"commit", "--only", "-m", m, "--", f>>
<1>1. commit \in CommitCommands(f, m)
  BY DEF CommitCommands
<1>2. commit \notin Admitted(Worktree)
  BY DEF Admitted
<1>. QED
  BY <1>1, <1>2 DEF InWorktree, CarriedOutIn, CarriedOut

LEMMA ConfirmationsPass == ConfirmCommands \subseteq InWorktree
<1>1. ASSUME NEW args \in ConfirmCommands PROVE CarriedOut(Worktree, args)
  <2>1. PICK b \in TaskBranches : args = <<"ls-remote", "origin", b>>
    BY DEF ConfirmCommands
  <2>2. b \in Branches
    BY NamesAreNotOptions
  <2>3. args \in Admitted(Worktree)
    BY <2>1, <2>2 DEF Admitted
  <2>. QED
    BY <2>1, <2>3, PlainCommand DEF GitReads
<1>. QED
  BY <1>1, Kinds, KindPasses DEF InWorktree

(* A push of a commit under its full id to the branch of a task has one     *)
(* refspec, which neither forces nor deletes nor names a protected branch.  *)
LEMMA PushesPass == PushCommands \subseteq InWorktree
<1>1. ASSUME NEW args \in PushCommands PROVE CarriedOut(Worktree, args)
  <2>1. PICK r \in DOMAIN Parsed : /\ args = <<"push", "origin", r>>
                                   /\ Parsed[r].source \in Shas /\ Parsed[r].destination \in TaskBranches
                                   /\ ~Parsed[r].force
    BY DEF PushCommands
  <2>2. /\ ~Parsed[r].delete /\ ~Parsed[r].any /\ Parsed[r].destination \in Branches
        /\ Parsed[r].destination \notin Protected /\ r \notin Options
    <3>1. r \notin Options
      BY <2>1, NamesAreNotOptions
    <3>2. Parsed[r].destination \in Branches \ Protected
      BY <2>1, NamesAreNotOptions
    <3>3. ~Parsed[r].delete
      BY <2>1, NamesAreNotOptions
    <3>4. ~Parsed[r].any
      BY <2>1, NamesAreNotOptions
    <3>. QED
      BY <3>1, <3>2, <3>3, <3>4
  <2>3. DOMAIN args = 1..3 /\ args[1] = "push" /\ args[2] = "origin" /\ args[3] = r /\ Head(args) = "push"
        /\ args # <<>>
    BY <2>1
  <2>4. { i \in DOMAIN args : args[i] \notin Options } = 1..3
    BY <2>2, <2>3 DEF Options
  <2>5. Refspecs(args) = {Parsed[r]}
    <3>1. { k \in 1..3 : \E j, l \in 1..3 : j < l /\ l < k } = {3}
      OBVIOUS
    <3>. QED
      BY <2>1, <2>3, <2>4, <3>1 DEF Refspecs
  <2>6. \A t \in Options : ~Has(args, t)
    BY <2>3, <2>4 DEF Has
  <2>7. ClassifyPush(args, TaskContext) = "ALLOW"
    BY <2>1, <2>2, <2>5, <2>6 DEF ClassifyPush, Options
  <2>8. ClassifyRisk(Op("git", args), TaskContext) = "ALLOW"
    BY <2>3, <2>7 DEF ClassifyRisk, ClassifyGit, Op
  <2>9. WorktreeTargetFor(args) = NoTarget /\ GitTarget(args) = NoTarget
    BY <2>3 DEF WorktreeTargetFor, GitTarget
  <2>10. Preflight(Op("git", args), TaskContext)
    BY <2>9 DEF Preflight, Op
  <2>11. args \in Admitted(Worktree)
    BY <2>1, <2>2 DEF Admitted
  <2>. QED
    BY <2>8, <2>9, <2>10, <2>11 DEF CarriedOut
<1>. QED
  BY <1>1, Kinds, KindPasses DEF InWorktree

(* Where the tables of commands stop a task, and where they cannot, for all *)
(* branches, commits, files, names and messages (PublishingIsCarriedOut):   *)
(* a plan is sealed only if both reviewers were shown its files, so their   *)
(* names are such that the spawner admits their commit, and only its        *)
(* message can be refused.                                                  *)
THEOREM PublishingCommandsPass == PubSpec => []PublishingIsCarriedOut
<1>1. ASSUME PInv PROVE PublishingIsCarriedOut
  <2>1. name \in [Paths -> Names]
    BY <1>1, VerificationAssumption DEF PInv, VInv, VerTypeOK
  <2>2. ASSUME NEW p \in Paths, p \in In(expected.entries), Readable
        PROVE  ReviewCommands(name[p]) \subseteq InWorktree
    BY <2>1, <2>2, ReviewsPass DEF Readable
  <2>3. ASSUME stage = "cleared" PROVE CommitAdmitted <=> message \in ShortMessages
    <3>1. sealed /\ message \in Messages
      BY <1>1, <2>3 DEF PInv
    <3>2. approved # {} /\ approved \subseteq In(expected.entries)
      BY <1>1, <3>1, VInvSealed DEF PInv, SealedProof
    <3>3. approved \subseteq Paths /\ Readable
      <4>1. /\ status[Secret] = "PASS" /\ Secret \in Reviews
        BY <1>1, <3>1, Numbers DEF PInv, VInv, Recorded, Reviews
      <4>2. Readable
        BY <1>1, <4>1 DEF PInv, VInv, Shown, Faithful
      <4>. QED
        BY <1>1, <4>2 DEF PInv, VInv, VerTypeOK
    <3>4. ASSUME message \in ShortMessages PROVE CommitAdmitted
      <4>1. ASSUME NEW p \in approved PROVE CommitCommands(name[p], message) \subseteq InWorktree
        <5>1. name[p] \in Names /\ name[p] \in Ordinary
          BY <2>1, <3>2, <3>3 DEF Readable
        <5>. QED
          BY <3>1, <3>4, <5>1, CommitsPass
      <4>. QED
        BY <4>1 DEF CommitAdmitted
    <3>5. ASSUME CommitAdmitted PROVE message \in ShortMessages
      <4>1. PICK p \in approved : TRUE
        BY <3>2
      <4>. QED
        BY <3>5, <4>1, LongMessageStops DEF CommitAdmitted
    <3>. QED
      BY <3>4, <3>5
  <2>. QED
    BY <2>2, <2>3, HeadPasses, ReadsPass, ConfirmationsPass, PushesPass DEF PublishingIsCarriedOut
<1>. QED
  BY <1>1, PublicationInvariant, PTL

=============================================================================
