--------------------------- MODULE DeliveryProofs ---------------------------
(***************************************************************************)
(* Proofs about the end of a run, for any number of tasks, repositories,   *)
(* checks and polls, and whatever GitHub answers: it implements the        *)
(* promise, a task is observed under a pull request of its own, the pages  *)
(* of a poll skip nothing, and SUCCESS is earned.                          *)
(***************************************************************************)
EXTENDS Delivery, SequenceTheorems, FiniteSetTheorems, TLAPS

Numbered == [task : Tasks, repo : Repos, number : Nat]
Pulls    == [head : Tasks, open : BOOLEAN]

LEMMA GotoMoves ==
  ASSUME DeliveryTyped, NEW t \in Tasks, NEW from, NEW to, Goto(t, from, to)
  PROVE  /\ at[t] = from /\ at'[t] = to
         /\ \A u \in Tasks : u # t => at'[u] = at[u]
BY DEF Goto, DeliveryTyped

-----------------------------------------------------------------------------
(* Recording a pull request.                                               *)

(* Pull requests are only added, and keep their branch.                     *)
PullsKept ==
  \A r \in Repos : \A n \in DOMAIN prs[r] :
    n \in DOMAIN prs'[r] /\ prs'[r][n].head = prs[r][n].head

LEMMA AppendPull ==
  ASSUME DeliveryTyped, NEW t \in Tasks, NEW b \in BOOLEAN,
         prs' = [prs EXCEPT ![RepoOf[t]] = Append(@, [head |-> t, open |-> b])]
  PROVE  /\ prs' \in [Repos -> Seq(Pulls)]
         /\ PullsKept
         /\ LET n == Len(prs[RepoOf[t]]) + 1
            IN /\ n \in Nat /\ n \notin DOMAIN prs[RepoOf[t]]
               /\ n \in DOMAIN prs'[RepoOf[t]] /\ prs'[RepoOf[t]][n].head = t
<1> DEFINE r == RepoOf[t]
           x == [head |-> t, open |-> b]
<1>1. r \in Repos
  BY TasksHaveRepositories
<1>2. prs \in [Repos -> Seq(Pulls)] /\ x \in Pulls
  BY DEF DeliveryTyped, Pulls
<1>3. prs[r] \in Seq(Pulls)
  BY <1>1, <1>2
<1>4. /\ Append(prs[r], x) \in Seq(Pulls)
      /\ Len(Append(prs[r], x)) = Len(prs[r]) + 1
      /\ \A i \in 1..Len(prs[r]) : Append(prs[r], x)[i] = prs[r][i]
      /\ Append(prs[r], x)[Len(prs[r]) + 1] = x
  BY <1>2, <1>3, AppendProperties
<1>5. prs'[r] = Append(prs[r], x) /\ \A q \in Repos : q # r => prs'[q] = prs[q]
  BY <1>1, <1>2
<1>6. prs' \in [Repos -> Seq(Pulls)]
  BY <1>1, <1>2, <1>4
<1>7. /\ Len(prs[r]) \in Nat /\ DOMAIN prs[r] = 1..Len(prs[r])
      /\ DOMAIN prs'[r] = 1..(Len(prs[r]) + 1)
  BY <1>3, <1>4, <1>5, LenProperties
<1>8. x.head = t
  OBVIOUS
<1> HIDE DEF x, r
<1>9. PullsKept
  BY <1>4, <1>5, <1>7 DEF PullsKept
<1>10. /\ Len(prs[r]) + 1 \in Nat /\ Len(prs[r]) + 1 \notin DOMAIN prs[r]
       /\ Len(prs[r]) + 1 \in DOMAIN prs'[r] /\ prs'[r][Len(prs[r]) + 1].head = t
  BY <1>4, <1>5, <1>7, <1>8
<1>. QED
  BY <1>6, <1>9, <1>10 DEF r

(* A run without a row that records a pull request of its own appends one:  *)
(* the number cannot be taken, since rows name pull requests of their tasks.*)
LEMMA PersistAppends ==
  ASSUME DeliveryTyped, RowsTrue, NEW t \in Tasks, RowsOf(t) = {}, NEW n \in Nat,
         Persist(t, n),
         n \in DOMAIN prs[RepoOf[t]] => prs[RepoOf[t]][n].head = t
  PROVE  rows' = Append(rows, [task |-> t, repo |-> RepoOf[t], number |-> n])
<1>1. \A i \in DOMAIN rows : ~(rows[i].repo = RepoOf[t] /\ rows[i].number = n)
  BY DEF RowsTrue, RowTrue, RowsOf
<1>2. { i \in DOMAIN rows : rows[i].repo = RepoOf[t] /\ rows[i].number = n } = {}
  BY <1>1
<1>. QED
  BY <1>2 DEF Persist

(* The rows after such a record.                                            *)
LEMMA AppendRow ==
  ASSUME DeliveryTyped, RowsTrue, NEW t \in Tasks, RowsOf(t) = {}, NEW n \in Nat,
         rows' = Append(rows, [task |-> t, repo |-> RepoOf[t], number |-> n]),
         PullsKept, n \in DOMAIN prs'[RepoOf[t]], prs'[RepoOf[t]][n].head = t
  PROVE  /\ rows' \in Seq(Numbered)
         /\ RowsTrue'
         /\ RowsOf(t)' # {}
         /\ \A u \in Tasks : u # t => (RowsOf(u)' = {} <=> RowsOf(u) = {})
<1> DEFINE x == [task |-> t, repo |-> RepoOf[t], number |-> n]
<1>1. rows \in Seq(Numbered) /\ x \in Numbered /\ x.task = t /\ x.repo = RepoOf[t] /\ x.number = n
  BY TasksHaveRepositories DEF DeliveryTyped, Numbered
<1> HIDE DEF x
<1>2. /\ rows' \in Seq(Numbered)
      /\ Len(rows') = Len(rows) + 1
      /\ \A i \in 1..Len(rows) : rows'[i] = rows[i]
      /\ rows'[Len(rows) + 1] = x
  BY <1>1, AppendProperties DEF x
<1>3. /\ Len(rows) \in Nat /\ DOMAIN rows = 1..Len(rows)
      /\ DOMAIN rows' = 1..(Len(rows) + 1)
  BY <1>1, <1>2, LenProperties
<1>4. /\ DOMAIN rows' = DOMAIN rows \cup {Len(rows) + 1}
      /\ Len(rows) + 1 \notin DOMAIN rows
  BY <1>3
<1>5. \A i \in DOMAIN rows : rows'[i] = rows[i] /\ rows[i].task # t
  BY <1>2, <1>3 DEF RowsOf
<1>6. \A i \in DOMAIN rows : RowTrue(rows[i])'
  <2>1. ASSUME NEW i \in DOMAIN rows PROVE RowTrue(rows[i]) /\ rows[i].repo \in Repos
    <3>1. rows[i] \in Numbered
      BY <1>1, <1>3, ElementOfSeq
    <3>. QED
      BY <3>1 DEF RowsTrue, Numbered
  <2>. QED
    BY <1>5, <2>1 DEF RowTrue, PullsKept
<1>7. RowTrue(x)'
  BY <1>1 DEF RowTrue, x
<1>8. RowsTrue'
  <2>1. \A i \in DOMAIN rows' : RowTrue(rows[i])'
    BY <1>2, <1>4, <1>6, <1>7 DEF RowTrue
  <2>2. \A i, j \in DOMAIN rows' : rows'[i].task = rows'[j].task => i = j
    BY <1>1, <1>2, <1>4, <1>5 DEF RowsTrue
  <2>. QED
    BY <2>1, <2>2 DEF RowsTrue
<1>9. RowsOf(t)' # {}
  BY <1>1, <1>2, <1>4 DEF RowsOf
<1>10. ASSUME NEW u \in Tasks, u # t PROVE RowsOf(u)' = {} <=> RowsOf(u) = {}
  BY <1>1, <1>2, <1>4, <1>5, <1>10 DEF RowsOf
<1>. QED
  BY <1>2, <1>8, <1>9, <1>10

-----------------------------------------------------------------------------
(* One lemma per kind of step.  A step of run(t) leaves the other runs      *)
(* where they are.                                                         *)

(* The run of t moves on, and records nothing.                              *)
LEMMA MoveInv ==
  ASSUME DeliveryInv, DeliveryTyped', NEW t \in Tasks,
         UNCHANGED rows, PullsKept,
         \A u \in Tasks : u # t =>
           at'[u] = at[u] /\ outcome'[u] = outcome[u] /\ status'[u] = status[u],
         RunAt(t)'
  PROVE  DeliveryInv'
<1>1. RowsTrue'
  <2>1. ASSUME NEW i \in DOMAIN rows PROVE RowTrue(rows[i])'
    <3>1. rows \in Seq(Numbered) /\ RowTrue(rows[i])
      BY DEF DeliveryInv, DeliveryTyped, RowsTrue, Numbered
    <3>2. rows[i] \in Numbered
      BY <3>1, ElementOfSeq, LenProperties
    <3>. QED
      BY <3>1, <3>2 DEF RowTrue, PullsKept, Numbered
  <2>. QED
    BY <2>1 DEF DeliveryInv, RowsTrue
<1>2. ASSUME NEW u \in Tasks PROVE RunAt(u)'
  BY DEF DeliveryInv, RunAt, RowsOf
<1>. QED
  BY <1>1, <1>2 DEF DeliveryInv

(* The run of t records its pull request.                                   *)
LEMMA RecordInv ==
  ASSUME DeliveryInv, DeliveryTyped', NEW t \in Tasks, NEW n \in Nat,
         at[t] \in BeforeRecord, at'[t] = "context",
         \A u \in Tasks : u # t => at'[u] = at[u],
         UNCHANGED <<outcome, status>>,
         rows' = Append(rows, [task |-> t, repo |-> RepoOf[t], number |-> n]),
         PullsKept, n \in DOMAIN prs'[RepoOf[t]], prs'[RepoOf[t]][n].head = t
  PROVE  DeliveryInv' /\ Promise!Record(t)
<1>1. RowsOf(t) = {} /\ outcome[t] = "none" /\ status[t] = "PUBLISHING"
  BY DEF DeliveryInv, RunAt, BeforeRecord
<1>2. /\ RowsTrue' /\ RowsOf(t)' # {}
      /\ \A u \in Tasks : u # t => (RowsOf(u)' = {} <=> RowsOf(u) = {})
  BY <1>1, AppendRow DEF DeliveryInv
<1>3. ASSUME NEW u \in Tasks PROVE RunAt(u)'
  BY <1>1, <1>2 DEF DeliveryInv, RunAt, BeforeRecord, UnderRecord
<1>4. { u \in Tasks : RowsOf(u) # {} }' = { u \in Tasks : RowsOf(u) # {} } \cup {t}
  BY <1>2
<1>5. Promise!Record(t)
  BY <1>1, <1>4 DEF Promise!Record
<1>. QED
  BY <1>2, <1>3, <1>5 DEF DeliveryInv

LEMMA FindInv ==
  ASSUME DeliveryInv, NEW t \in Tasks, Find(t)
  PROVE  DeliveryInv' /\ (Promise!Record(t) \/ UNCHANGED <<rows, outcome, status>>)
<1>1. /\ DeliveryTyped /\ RunAt(t) /\ UNCHANGED <<prs, outcome, status>>
      /\ PullsKept
  BY DEF DeliveryInv, Find, github, PullsKept
<1>2. CASE OpenFor(t) = {}
  <2>1. Goto(t, "find", "describe") /\ UNCHANGED rows
    BY <1>2 DEF Find
  <2>2. /\ at[t] = "find" /\ at'[t] = "describe"
        /\ \A u \in Tasks : u # t => at'[u] = at[u]
    BY <1>1, <2>1, GotoMoves
  <2>3. DeliveryTyped'
    BY <1>1, <2>1 DEF Goto, DeliveryTyped, BeforeRecord
  <2>4. RunAt(t)'
    BY <1>1, <2>1, <2>2 DEF RunAt, RowsOf, BeforeRecord, UnderRecord
  <2>. QED
    BY <1>1, <2>1, <2>2, <2>3, <2>4, MoveInv
<1>3. CASE OpenFor(t) # {}
  <2>1. Goto(t, "find", "context") /\ \E n \in OpenFor(t) : Persist(t, n)
    BY <1>3 DEF Find
  <2>2. /\ at[t] = "find" /\ at'[t] = "context"
        /\ \A u \in Tasks : u # t => at'[u] = at[u]
    BY <1>1, <2>1, GotoMoves
  <2>3. PICK n \in OpenFor(t) : Persist(t, n)
    BY <2>1
  <2>4. RepoOf[t] \in Repos /\ prs[RepoOf[t]] \in Seq(Pulls)
    BY <1>1, TasksHaveRepositories DEF DeliveryTyped, Pulls
  <2>5. n \in DOMAIN prs[RepoOf[t]] /\ n \in Nat /\ prs[RepoOf[t]][n].head = t
    BY <2>3, <2>4, LenProperties DEF OpenFor
  <2>6. RowsOf(t) = {}
    BY <1>1, <2>2 DEF RunAt, BeforeRecord
  <2>7. rows' = Append(rows, [task |-> t, repo |-> RepoOf[t], number |-> n])
    BY <1>1, <2>3, <2>5, <2>6, PersistAppends DEF DeliveryInv
  <2>8. rows' \in Seq(Numbered)
    BY <1>1, <2>5, <2>6, <2>7, AppendRow DEF DeliveryInv
  <2>9. DeliveryTyped'
    BY <1>1, <2>1, <2>8 DEF Goto, DeliveryTyped, UnderRecord, Numbered
  <2>. QED
    BY <1>1, <2>2, <2>5, <2>7, <2>9, RecordInv DEF BeforeRecord
<1>. QED
  BY <1>2, <1>3

LEMMA CreateInv ==
  ASSUME DeliveryInv, NEW t \in Tasks, Create(t)
  PROVE  DeliveryInv' /\ Promise!Record(t)
<1> DEFINE n == Len(prs[RepoOf[t]]) + 1
<1>1. /\ DeliveryTyped /\ RunAt(t) /\ UNCHANGED <<outcome, status>>
      /\ Goto(t, "create", "context") /\ Persist(t, n)
      /\ prs' = [prs EXCEPT ![RepoOf[t]] = Append(@, [head |-> t, open |-> TRUE])]
  BY DEF DeliveryInv, Create
<1>2. /\ prs' \in [Repos -> Seq(Pulls)] /\ PullsKept
      /\ n \in Nat /\ n \notin DOMAIN prs[RepoOf[t]]
      /\ n \in DOMAIN prs'[RepoOf[t]] /\ prs'[RepoOf[t]][n].head = t
  BY <1>1, AppendPull
<1> HIDE DEF n
<1>3. /\ at[t] = "create" /\ at'[t] = "context"
      /\ \A u \in Tasks : u # t => at'[u] = at[u]
  BY <1>1, GotoMoves
<1>4. RowsOf(t) = {}
  BY <1>1, <1>3 DEF RunAt, BeforeRecord
<1>5. rows' = Append(rows, [task |-> t, repo |-> RepoOf[t], number |-> n])
  BY <1>1, <1>2, <1>4, PersistAppends DEF DeliveryInv
<1>6. rows' \in Seq(Numbered)
  BY <1>2, <1>4, <1>5, AppendRow DEF DeliveryInv
<1>7. DeliveryTyped'
  BY <1>1, <1>2, <1>6 DEF Goto, DeliveryTyped, UnderRecord, Numbered, Pulls
<1>. QED
  BY <1>1, <1>2, <1>3, <1>5, <1>7, RecordInv DEF BeforeRecord

LEMMA CreateUnansweredInv ==
  ASSUME DeliveryInv, NEW t \in Tasks, CreateUnanswered(t)
  PROVE  DeliveryInv'
<1>1. /\ DeliveryTyped /\ RunAt(t) /\ UNCHANGED <<rows, outcome, status>>
      /\ Goto(t, "create", "rejected")
      /\ prs' = [prs EXCEPT ![RepoOf[t]] = Append(@, [head |-> t, open |-> TRUE])]
  BY DEF DeliveryInv, CreateUnanswered
<1>2. prs' \in [Repos -> Seq(Pulls)] /\ PullsKept
  BY <1>1, AppendPull
<1>3. /\ at[t] = "create" /\ at'[t] = "rejected"
      /\ \A u \in Tasks : u # t => at'[u] = at[u]
  BY <1>1, GotoMoves
<1>4. DeliveryTyped'
  BY <1>1, <1>2 DEF Goto, DeliveryTyped, Pulls
<1>5. RunAt(t)'
  BY <1>1, <1>3 DEF RunAt, RowsOf, BeforeRecord, UnderRecord
<1>. QED
  BY <1>1, <1>2, <1>3, <1>4, <1>5, MoveInv

LEMMA VerdictTyped ==
  ASSUME NEW latest
  PROVE  Verdict(latest) \in {"SUCCESS", "FAILURE", "PENDING"}
BY DEF Verdict

(* The observation: requests that leave GitHub, the rows and the durable    *)
(* status alone, and one decision.                                          *)
LEMMA ObserveInv ==
  ASSUME DeliveryInv, NEW t \in Tasks,
         \/ Describe(t) \/ ResolveContext(t) \/ ReadRules(t) \/ ReadRuns(t) \/ Wait(t)
         \/ Reject(t)
  PROVE  /\ DeliveryInv'
         /\ \/ UNCHANGED <<rows, outcome, status>>
            \/ \E v \in {"SUCCESS", "FAILURE", "PENDING"} : Promise!Judge(t, v)
<1>1. /\ DeliveryTyped /\ RunAt(t) /\ UNCHANGED <<prs, rows, status>>
      /\ PullsKept
  BY DEF DeliveryInv, Describe, ResolveContext, BeginPoll, ReadRules, ReadRuns, Wait, Reject,
     github, PullsKept
<1>2. CASE \/ Describe(t) \/ ResolveContext(t) \/ ReadRules(t) \/ Wait(t) \/ Reject(t)
  <2>1. UNCHANGED outcome
    BY <1>2 DEF Describe, ResolveContext, BeginPoll, ReadRules, Wait, Reject
  <2>2. \/ Goto(t, "describe", "create")
        \/ Goto(t, "context", "rules")
        \/ Goto(t, "wait", "rules")
        \/ Goto(t, "rules", "runs")
        \/ \E from \in Requests : Goto(t, from, "rejected")
    BY <1>2 DEF Describe, ResolveContext, BeginPoll, ReadRules, Wait, Reject
  <2>3. DeliveryTyped'
    BY <1>1, <2>1, <2>2 DEF Goto, DeliveryTyped, BeforeRecord, UnderRecord
  <2>4. /\ \A u \in Tasks : u # t => at'[u] = at[u]
        /\ \/ at[t] = "describe" /\ at'[t] = "create"
           \/ at[t] \in UnderRecord /\ at'[t] \in {"rules", "runs"}
           \/ at[t] \in Requests /\ at'[t] = "rejected"
    BY <1>1, <2>2, GotoMoves DEF UnderRecord
  <2>5. RunAt(t)'
    BY <1>1, <2>1, <2>4 DEF RunAt, RowsOf, BeforeRecord, UnderRecord, Requests
  <2>. QED
    BY <1>1, <2>1, <2>3, <2>4, <2>5, MoveInv
<1>3. CASE ReadRuns(t) /\ UNCHANGED at
  <2>1. UNCHANGED outcome
    <3>1. \A seen : ~Judge(t, seen)
      BY <1>1, <1>3, GotoMoves DEF Judge, After
    <3>. QED
      BY <1>3, <3>1 DEF ReadRuns
  <2>2. DeliveryTyped' /\ RunAt(t)'
    BY <1>1, <1>3, <2>1 DEF DeliveryTyped, RunAt, RowsOf
  <2>. QED
    BY <1>1, <1>3, <2>1, <2>2, MoveInv
<1>4. CASE ReadRuns(t) /\ ~UNCHANGED at
  <2>1. PICK seen : Judge(t, seen)
    BY <1>4 DEF ReadRuns
  <2>2. PICK v \in {"SUCCESS", "FAILURE", "PENDING"}, over \in BOOLEAN :
          /\ Goto(t, "runs", IF over THEN After(v) ELSE "wait")
          /\ outcome' = [outcome EXCEPT ![t] = IF over THEN v ELSE @]
    BY <2>1, VerdictTyped DEF Judge
  <2>3. /\ at[t] = "runs" /\ outcome[t] = "none" /\ RowsOf(t) # {} /\ status[t] = "PUBLISHING"
        /\ at'[t] = IF over THEN After(v) ELSE "wait"
        /\ \A u \in Tasks : u # t => at'[u] = at[u] /\ outcome'[u] = outcome[u]
    BY <1>1, <2>2, GotoMoves DEF RunAt, UnderRecord, DeliveryTyped
  <2>4. CASE over
    <3>1. /\ at'[t] = After(v) /\ outcome'[t] = v
          /\ outcome' = [outcome EXCEPT ![t] = v]
      BY <1>1, <2>2, <2>3, <2>4 DEF DeliveryTyped
    <3>2. DeliveryTyped'
      BY <1>1, <2>2, <2>4, <3>1 DEF Goto, DeliveryTyped, After
    <3>3. RunAt(t)'
      BY <1>1, <2>3, <3>1 DEF RunAt, RowsOf, After, BeforeRecord, UnderRecord
    <3>4. Promise!Judge(t, v)
      BY <1>1, <2>3, <3>1 DEF Promise!Judge, RowsOf
    <3>. QED
      BY <1>1, <2>3, <3>2, <3>3, <3>4, MoveInv
  <2>5. CASE ~over
    <3>1. at'[t] = "wait" /\ outcome' = outcome
      BY <1>1, <2>2, <2>3, <2>5 DEF DeliveryTyped
    <3>2. DeliveryTyped'
      BY <1>1, <2>2, <2>5, <3>1 DEF Goto, DeliveryTyped, UnderRecord
    <3>3. RunAt(t)'
      BY <1>1, <2>3, <3>1 DEF RunAt, RowsOf, BeforeRecord, UnderRecord
    <3>. QED
      BY <1>1, <2>3, <3>1, <3>2, <3>3, MoveInv
  <2>. QED
    BY <2>4, <2>5
<1>. QED
  BY <1>2, <1>3, <1>4

LEMMA EndInv ==
  ASSUME DeliveryInv, NEW t \in Tasks, Complete(t) \/ FailTask(t)
  PROVE  DeliveryInv' /\ (Promise!Complete(t) \/ Promise!Fail(t))
<1>1. /\ DeliveryTyped /\ RunAt(t) /\ UNCHANGED <<prs, rows, outcome>>
      /\ PullsKept
  BY DEF DeliveryInv, Complete, FailTask, github, PullsKept
<1>2. PICK s \in {"COMPLETED", "FAILED"} :
        /\ status' = [status EXCEPT ![t] = s]
        /\ s = "COMPLETED" => Complete(t)
        /\ s = "FAILED" => FailTask(t)
  BY DEF Complete, FailTask
<1>3. /\ at[t] = IF s = "COMPLETED" THEN "complete" ELSE "rejected"
      /\ at'[t] = "resolved" /\ at' = [at EXCEPT ![t] = "resolved"]
      /\ \A u \in Tasks : u # t => at'[u] = at[u] /\ status'[u] = status[u]
  BY <1>1, <1>2, GotoMoves DEF Complete, FailTask, DeliveryTyped, Goto
<1>4. DeliveryTyped'
  BY <1>1, <1>2, <1>3 DEF DeliveryTyped
<1>5. RunAt(t)'
  BY <1>1, <1>2, <1>3 DEF RunAt, RowsOf, DeliveryTyped, BeforeRecord, UnderRecord
<1>6. Promise!Complete(t) \/ Promise!Fail(t)
  BY <1>1, <1>2, <1>3 DEF RunAt, RowsOf, Promise!Complete, Promise!Fail
<1>. QED
  BY <1>1, <1>3, <1>4, <1>5, <1>6, MoveInv

(* A crash and whatever happens on GitHub.                                  *)
LEMMA OutsideInv ==
  ASSUME DeliveryInv, Crash \/ GitHub \/ UNCHANGED deliveryVars
  PROVE  DeliveryInv' /\ UNCHANGED <<rows, outcome, status>>
<1>1. /\ DeliveryTyped /\ UNCHANGED <<rows, outcome, status>>
  BY DEF DeliveryInv, Crash, GitHub, HumanOpens, HumanCloses, NewRequirement, RunAdvances,
     deliveryVars
<1>2. prs' \in [Repos -> Seq(Pulls)] /\ PullsKept
  <2>1. CASE UNCHANGED prs
    BY <1>1, <2>1 DEF DeliveryTyped, Pulls, PullsKept
  <2>2. ASSUME NEW t \in Tasks, HumanOpens(t) PROVE prs' \in [Repos -> Seq(Pulls)] /\ PullsKept
    BY <1>1, <2>2, AppendPull DEF HumanOpens
  <2>3. ASSUME NEW t \in Tasks, HumanCloses(t)
        PROVE  prs' \in [Repos -> Seq(Pulls)] /\ PullsKept
    <3>1. PICK n \in OpenFor(t) : prs' = [prs EXCEPT ![RepoOf[t]][n].open = FALSE]
      BY <2>3 DEF HumanCloses
    <3>2. RepoOf[t] \in Repos /\ prs \in [Repos -> Seq(Pulls)]
      BY <1>1, TasksHaveRepositories DEF DeliveryTyped, Pulls
    <3>3. PICK s \in Seq(Pulls) : s = prs[RepoOf[t]]
      BY <3>2
    <3>4. n \in 1..Len(s) /\ DOMAIN s = 1..Len(s) /\ s[n] \in Pulls
      BY <3>3, ElementOfSeq, LenProperties DEF OpenFor
    <3>5. PICK x \in Pulls : x = [s[n] EXCEPT !.open = FALSE] /\ x.head = s[n].head
      <4>1. PICK e \in Pulls : e = s[n]
        BY <3>4
      <4>2. [e EXCEPT !.open = FALSE] \in Pulls
        BY DEF Pulls
      <4>3. [e EXCEPT !.open = FALSE].head = e.head
        BY DEF Pulls
      <4>. QED
        BY <4>1, <4>2, <4>3
    <3>6. PICK w \in Seq(Pulls) : w = [s EXCEPT ![n] = x]
      BY <3>4, ExceptSeq
    <3>7. prs' = [prs EXCEPT ![RepoOf[t]] = w]
      BY <3>1, <3>3, <3>5, <3>6
    <3>8. prs' \in [Repos -> Seq(Pulls)]
      BY <3>2, <3>6, <3>7
    <3>9. PullsKept
      BY <3>2, <3>3, <3>4, <3>5, <3>6, <3>7 DEF PullsKept
    <3>. QED
      BY <3>8, <3>9
  <2>. QED
    BY <2>1, <2>2, <2>3 DEF Crash, GitHub, NewRequirement, RunAdvances, deliveryVars
<1>3. /\ at' \in [Tasks -> BeforeRecord \cup UnderRecord
                            \cup {"complete", "rejected", "resolved", "gone"}]
      /\ \A t \in Tasks : at'[t] = at[t] \/ at'[t] = "gone"
  BY <1>1 DEF DeliveryTyped, Crash, GitHub, HumanOpens, HumanCloses, NewRequirement,
     RunAdvances, deliveryVars
<1>4. DeliveryTyped'
  BY <1>1, <1>2, <1>3 DEF DeliveryTyped, Pulls
<1>5. RowsTrue'
  <2>1. ASSUME NEW i \in DOMAIN rows PROVE RowTrue(rows[i])'
    <3>1. rows \in Seq(Numbered) /\ RowTrue(rows[i])
      BY DEF DeliveryInv, DeliveryTyped, RowsTrue, Numbered
    <3>2. rows[i] \in Numbered
      BY <3>1, ElementOfSeq, LenProperties
    <3>. QED
      BY <1>1, <1>2, <3>1, <3>2 DEF RowTrue, PullsKept, Numbered
  <2>. QED
    BY <1>1, <2>1 DEF DeliveryInv, RowsTrue
<1>6. ASSUME NEW t \in Tasks PROVE RunAt(t)'
  BY <1>1, <1>3 DEF DeliveryInv, RunAt, RowsOf, BeforeRecord, UnderRecord
<1>. QED
  BY <1>1, <1>4, <1>5, <1>6 DEF DeliveryInv

-----------------------------------------------------------------------------
(* The theorems.                                                           *)

LEMMA DeliveryInitInv == DeliveryInit => DeliveryInv
<1>. SUFFICES ASSUME DeliveryInit PROVE DeliveryInv
  OBVIOUS
<1>1. DeliveryTyped
  BY EmptySeq DEF DeliveryInit, DeliveryTyped, BeforeRecord
<1>2. DOMAIN rows = {}
  BY DEF DeliveryInit
<1>3. RowsTrue /\ \A t \in Tasks : RowsOf(t) = {}
  BY <1>2 DEF RowsTrue, RowsOf
<1>4. ASSUME NEW t \in Tasks PROVE RunAt(t)
  BY <1>3 DEF DeliveryInit, RunAt, BeforeRecord, UnderRecord
<1>. QED
  BY <1>1, <1>3, <1>4 DEF DeliveryInv

(* Every step keeps the invariant, and is a step of the promise or leaves   *)
(* what the promise speaks of alone.                                        *)
LEMMA DeliveryStep ==
  DeliveryInv /\ [DeliveryNext]_deliveryVars => DeliveryInv' /\ [Promise!Next]_(Promise!vars)
<1>. SUFFICES ASSUME DeliveryInv, [DeliveryNext]_deliveryVars
              PROVE  DeliveryInv' /\ [Promise!Next]_(Promise!vars)
  OBVIOUS
<1>1. UNCHANGED <<rows, outcome, status>> => UNCHANGED Promise!vars
  BY DEF Promise!vars, RowsOf
<1>2. CASE Crash \/ GitHub \/ UNCHANGED deliveryVars
  BY <1>1, <1>2, OutsideInv
<1>3. ASSUME NEW t \in Tasks, RunStep(t) PROVE DeliveryInv' /\ [Promise!Next]_(Promise!vars)
  <2>1. CASE Find(t)
    BY <1>1, <2>1, FindInv DEF Promise!Next
  <2>2. CASE Create(t)
    BY <2>2, CreateInv DEF Promise!Next
  <2>3. CASE CreateUnanswered(t)
    BY <1>1, <2>3, CreateUnansweredInv DEF CreateUnanswered
  <2>4. CASE \/ Describe(t) \/ ResolveContext(t) \/ ReadRules(t) \/ ReadRuns(t) \/ Wait(t)
             \/ Reject(t)
    BY <1>1, <2>4, ObserveInv DEF Promise!Next
  <2>5. CASE Complete(t) \/ FailTask(t)
    BY <2>5, EndInv DEF Promise!Next
  <2>. QED
    BY <1>3, <2>1, <2>2, <2>3, <2>4, <2>5 DEF RunStep
<1>. QED
  BY <1>2, <1>3 DEF DeliveryNext

(* In every reachable state the rows name pull requests of their tasks, and *)
(* each run is where its record, its verdict and its status say.            *)
THEOREM DeliveryInvariant == DeliverySpec => []DeliveryInv
<1>. QED
  BY DeliveryInitInv, DeliveryStep, PTL DEF DeliverySpec

(* The end of a run implements its promise: whatever GitHub does and        *)
(* wherever the agent is killed, a task is recorded once, judged once, and  *)
(* COMPLETED only after SUCCESS.                                            *)
THEOREM ImplementsPromise == DeliverySpec => DeliversAsPromised
<1>1. DeliveryInit => Promise!Init
  <2>. SUFFICES ASSUME DeliveryInit PROVE Promise!Init
    OBVIOUS
  <2>1. \A t \in Tasks : RowsOf(t) = {}
    BY DEF DeliveryInit, RowsOf
  <2>. QED
    BY <2>1 DEF DeliveryInit, Promise!Init
<1>. QED
  BY <1>1, DeliveryStep, DeliveryInvariant, PTL DEF DeliverySpec, DeliversAsPromised,
     Promise!Spec

(* The pull request a task is observed under, and completed under, is one   *)
(* of its own branch in its own repository.                                 *)
THEOREM ObservedOnOwnPull == DeliverySpec => []ObservedUnderItsOwn
<1>1. DeliveryInv => ObservedUnderItsOwn
  <2>. SUFFICES ASSUME DeliveryInv, NEW t \in Tasks,
                       at[t] \in {"rules", "runs", "wait", "complete"} \/ status[t] = "COMPLETED"
                PROVE  /\ RowsOf(t) # {}
                       /\ LatestRow(t).repo = RepoOf[t]
                       /\ prs[RepoOf[t]][LatestRow(t).number].head = t
    BY DEF ObservedUnderItsOwn
  <2>1. RunAt(t)
    BY DEF DeliveryInv
  <2>2. RowsOf(t) # {}
    BY <2>1 DEF RunAt, UnderRecord
  <2>3. PICK i \in DOMAIN rows : rows[i].task = t
    BY <2>2 DEF RowsOf
  <2>4. RowsOf(t) = {i}
    BY <2>3 DEF RowsOf, DeliveryInv, RowsTrue
  <2>5. i \in Nat
    BY <2>3, LenProperties DEF DeliveryInv, DeliveryTyped
  <2>6. LatestRow(t) = rows[i]
    BY <2>4, <2>5 DEF LatestRow
  <2>. QED
    BY <2>2, <2>3, <2>6 DEF DeliveryInv, RowsTrue, RowTrue
<1>. QED
  BY <1>1, DeliveryInvariant, PTL

-----------------------------------------------------------------------------
(* Counting places.  Sets of natural numbers, and how many of a set come    *)
(* before a place.                                                         *)

Below(S, i) == {j \in S : j < i}
CountBelow(S, i) == Cardinality(Below(S, i))

LEMMA LeastOf ==
  ASSUME NEW T \in SUBSET Nat, T # {}
  PROVE  \E m \in T : \A k \in T : m <= k
<1> DEFINE R == OpToRel(<, Nat)
<1>1. IsWellFoundedOn(R, Nat)
  BY NatLessThanWellFounded
<1>2. \A x, y \in Nat : <<y, x>> \in R <=> y < x
  BY DEF OpToRel
<1> HIDE DEF R
<1>3. PICK m \in T : \A k \in T : ~(<<k, m>> \in R)
  BY <1>1, WFMin
<1>4. ASSUME NEW k \in T PROVE m <= k
  <2>1. m \in Nat /\ k \in Nat
    OBVIOUS
  <2>2. ~(<<k, m>> \in R)
    BY <1>3
  <2>3. ~(k < m)
    BY <1>2, <2>1, <2>2
  <2>. QED
    BY <2>1, <2>3
<1>. QED
  BY <1>4

LEMMA GreatestOf ==
  ASSUME NEW b \in Nat, NEW T \in SUBSET Nat, T # {}, \A k \in T : k <= b
  PROVE  \E m \in T : \A k \in T : k <= m
<1> DEFINE D == {b - k : k \in T}
<1>1. D \in SUBSET Nat /\ D # {}
  <2>1. \A k \in T : k \in Nat /\ k <= b
    OBVIOUS
  <2>2. \A k \in T : b - k \in Nat
    BY <2>1
  <2>3. PICK k \in T : TRUE
    OBVIOUS
  <2>4. b - k \in D
    OBVIOUS
  <2>. QED
    BY <2>2, <2>4
<1>2. PICK d \in D : \A e \in D : d <= e
  BY <1>1, LeastOf
<1>3. PICK m \in T : d = b - m
  OBVIOUS
<1>4. ASSUME NEW k \in T PROVE k <= m
  <2>1. b - m <= b - k
    BY <1>2, <1>3
  <2>2. m \in Nat /\ k \in Nat
    OBVIOUS
  <2>. QED
    BY <2>1, <2>2
<1>. QED
  BY <1>4

LEMMA CountsGrow ==
  ASSUME NEW S \in SUBSET Nat, IsFiniteSet(S), NEW i \in Nat, NEW j \in Nat, i <= j
  PROVE  /\ IsFiniteSet(Below(S, i)) /\ CountBelow(S, i) \in Nat
         /\ CountBelow(S, i) <= CountBelow(S, j)
<1>1. Below(S, i) \in SUBSET Below(S, j) /\ Below(S, j) \in SUBSET S /\ Below(S, i) \in SUBSET S
  <2>1. \A k \in S : k < i => k < j
    <3>1. \A k \in S : k \in Nat
      OBVIOUS
    <3>. QED
      BY <3>1
  <2>. QED
    BY <2>1 DEF Below
<1>2. IsFiniteSet(Below(S, i)) /\ IsFiniteSet(Below(S, j))
  BY <1>1, FS_Subset
<1>3. Cardinality(Below(S, i)) \in Nat /\ Cardinality(Below(S, i)) <= Cardinality(Below(S, j))
  BY <1>1, <1>2, FS_Subset, FS_CardinalityType
<1>. QED
  BY <1>2, <1>3 DEF CountBelow

(* When n elements come before some element, the first n are those with      *)
(* fewer than n before them.                                               *)
LEMMA FirstOnes ==
  ASSUME NEW S \in SUBSET Nat, IsFiniteSet(S), NEW n \in Nat, NEW i \in S, n <= CountBelow(S, i)
  PROVE  LET F == {j \in S : CountBelow(S, j) < n} IN IsFiniteSet(F) /\ Cardinality(F) = n
<1> DEFINE F == {j \in S : CountBelow(S, j) < n}
           G == {j \in S : n <= CountBelow(S, j)}
<1>1. \A j \in S : j \in Nat /\ IsFiniteSet(Below(S, j)) /\ CountBelow(S, j) \in Nat
  BY CountsGrow
<1>2. PICK m \in G : \A k \in G : m <= k
  <2>1. G \in SUBSET Nat /\ G # {}
    OBVIOUS
  <2>. QED
    BY <2>1, LeastOf
<1>3. F = Below(S, m)
  <2>1. ASSUME NEW j \in S PROVE j < m <=> CountBelow(S, j) < n
    <3>1. CASE j < m
      BY <1>1, <1>2, <3>1
    <3>2. CASE m <= j
      BY <1>1, <1>2, <3>2, CountsGrow
    <3>. QED
      BY <1>1, <1>2, <3>1, <3>2
  <2>. QED
    BY <2>1 DEF Below
<1>4. CountBelow(S, m) <= n
  <2>1. SUFFICES ASSUME n < CountBelow(S, m) PROVE FALSE
    BY <1>1, <1>2
  <2>2. /\ Below(S, m) # {} /\ Below(S, m) \in SUBSET Nat
        /\ m \in Nat /\ \A k \in Below(S, m) : k <= m
    <3>1. Below(S, m) # {}
      BY <1>2, <2>1, FS_EmptySet DEF CountBelow
    <3>2. m \in Nat /\ \A k \in Below(S, m) : k \in Nat /\ k < m
      BY <1>1 DEF Below
    <3>. QED
      BY <3>1, <3>2
  <2>3. PICK k \in Below(S, m) : \A j \in Below(S, m) : j <= k
    BY <2>2, GreatestOf
  <2>4. k \in S /\ k < m /\ k \in Nat
    BY <1>1, <2>3 DEF Below
  <2>5. Below(S, m) = Below(S, k) \cup {k} /\ k \notin Below(S, k)
    <3>1. \A j \in S : j < m <=> j < k \/ j = k
      <4>1. ASSUME NEW j \in S, j < m PROVE j < k \/ j = k
        <5>1. j \in Below(S, m) /\ j \in Nat
          BY <1>1, <4>1 DEF Below
        <5>. QED
          BY <2>3, <2>4, <5>1
      <4>2. \A j \in S : j \in Nat /\ m \in Nat
        BY <1>1
      <4>. QED
        BY <2>4, <4>1, <4>2
    <3>2. ~(k < k)
      BY <2>4
    <3>. QED
      BY <2>4, <3>1, <3>2 DEF Below
  <2>6. CountBelow(S, m) = CountBelow(S, k) + 1
    BY <1>1, <2>4, <2>5, FS_AddElement DEF CountBelow
  <2>. QED
    BY <1>1, <1>2, <2>1, <2>4, <2>6
<1>. QED
  BY <1>1, <1>2, <1>3, <1>4 DEF CountBelow

(* A page that somebody comes after is full.                                *)
LEMMA FullPage ==
  ASSUME NEW S \in SUBSET Nat, IsFiniteSet(S), NEW a \in Nat, NEW b \in Nat, a <= b,
         NEW i \in S, b <= CountBelow(S, i)
  PROVE  Cardinality({j \in S : a <= CountBelow(S, j) /\ CountBelow(S, j) < b}) = b - a
<1> DEFINE A == {j \in S : CountBelow(S, j) < a}
           B == {j \in S : CountBelow(S, j) < b}
<1>1. \A j \in S : CountBelow(S, j) \in Nat
  BY CountsGrow
<1>2. IsFiniteSet(B) /\ Cardinality(B) = b
  BY FirstOnes
<1>3. Cardinality(A) = a
  BY <1>1, FirstOnes
<1>4. /\ B \cap A = A
      /\ B \ A = {j \in S : a <= CountBelow(S, j) /\ CountBelow(S, j) < b}
  <2>1. \A x \in Nat : (x < a => x < b) /\ (~(x < a) <=> a <= x)
    OBVIOUS
  <2>. QED
    BY <1>1, <2>1
<1> HIDE DEF A, B
<1>5. Cardinality(B \ A) = Cardinality(B) - Cardinality(B \cap A)
  BY <1>2, FS_Difference
<1>. QED
  BY <1>2, <1>3, <1>4, <1>5

-----------------------------------------------------------------------------
(* The pages of a poll while the listing grows.                             *)

LEMMA MoreBelow ==
  ASSUME NEW T, IsFiniteSet(T), NEW S \in SUBSET T, NEW i
  PROVE  CountBelow(S, i) \in Nat /\ CountBelow(T, i) \in Nat /\ CountBelow(S, i) <= CountBelow(T, i)
<1>1. Below(S, i) \in SUBSET Below(T, i) /\ Below(T, i) \in SUBSET T
  BY DEF Below
<1>2. IsFiniteSet(Below(T, i)) /\ IsFiniteSet(Below(S, i))
  BY <1>1, FS_Subset
<1>. QED
  BY <1>1, <1>2, FS_Subset, FS_CardinalityType DEF CountBelow

LEMMA ListingPlaces ==
  /\ DOMAIN Listing \in SUBSET Nat /\ IsFiniteSet(DOMAIN Listing)
  /\ \A i \in DOMAIN Listing : Listing[i] \in Slots
<1>1. DOMAIN Listing = 1..Len(Listing) /\ Len(Listing) \in Nat
  BY SlotsAreListed, LenProperties
<1>. QED
  BY <1>1, SlotsAreListed, ElementOfSeq, FS_Interval

LEMMA Places ==
  ASSUME NEW t
  PROVE  /\ Listed(t) \in SUBSET Nat /\ IsFiniteSet(Listed(t))
         /\ \A i \in Listed(t) : /\ i \in DOMAIN Listing /\ Listing[i] \in Slots
                                 /\ SlotOf[Listing[i]].task = t /\ run[Listing[i]] # Absent
         /\ \A i : Before(t, i) = CountBelow(Listed(t), i) /\ Before(t, i) \in Nat
<1>2. IsFiniteSet(DOMAIN Listing) /\ DOMAIN Listing \in SUBSET Nat
  BY ListingPlaces
<1>3. Listed(t) \in SUBSET DOMAIN Listing
  BY DEF Listed
<1>4. IsFiniteSet(Listed(t))
  BY <1>2, <1>3, FS_Subset
<1>5. \A i \in Listed(t) : /\ i \in DOMAIN Listing /\ Listing[i] \in Slots
                           /\ SlotOf[Listing[i]].task = t /\ run[Listing[i]] # Absent
  BY ListingPlaces DEF Listed
<1>6. ASSUME NEW i PROVE Before(t, i) = CountBelow(Listed(t), i) /\ Before(t, i) \in Nat
  BY <1>4, MoreBelow DEF Before, CountBelow, Below
<1>. QED
  BY <1>2, <1>3, <1>4, <1>5, <1>6

(* A run whose poll nothing touches.                                        *)
LEMMA PollKept ==
  ASSUME NEW t, PollAt(t), run' = run, at'[t] = at[t], poll'[t] = poll[t],
         changed'[t] = changed[t], extra'[t] = extra[t]
  PROVE  PollAt(t)'
<1>1. Listed(t)' = Listed(t)
  BY DEF Listed
<1>2. \A i : Before(t, i)' = Before(t, i) /\ Answer({i})' = Answer({i})
  BY <1>1 DEF Before, Answer
<1>3. ASSUME at[t] = "runs", NEW i \in Listed(t)', Before(t, i)' < (poll'[t].page - 1) * PageSize
      PROVE  Listing[i] \in changed'[t] \/ Answer({i})' \subseteq poll'[t].seen
  <2>1. i \in Listed(t) /\ Before(t, i) < (poll[t].page - 1) * PageSize
    BY <1>1, <1>2, <1>3
  <2>2. Listing[i] \in changed[t] \/ Answer({i}) \subseteq poll[t].seen
    BY <1>3, <2>1 DEF PollAt
  <2>. QED
    BY <1>2, <2>2
<1>. QED
  BY <1>3 DEF PollAt

LEMMA PollOver ==
  ASSUME NEW t, at'[t] \notin {"rules", "runs"}
  PROVE  PollAt(t)'
BY DEF PollAt

(* A check run that appears, finishes or is run again.                      *)
LEMMA RunAdvancesPoll ==
  ASSUME DeliveryTyped, PollInv, NEW c \in Slots, RunAdvances(c)
  PROVE  PollInv'
<1>1. /\ UNCHANGED <<at, extra, poll, stored>> /\ PollTyped
      /\ Touch(SlotOf[c].task, c) /\ SlotOf[c].task \in Tasks
  BY SlotsAreListed DEF RunAdvances, PollInv
<1>2. PICK x \in Runs : run' = [run EXCEPT ![c] = x] /\ x.value # "absent"
  <2>1. run \in [Slots -> Runs] /\ run[c] \in Runs
    BY <1>1 DEF PollTyped
  <2>2. \A v \in {"queued", "success", "failure", "unheard_of"} :
          [run[c] EXCEPT !.value = v] \in Runs /\ [run[c] EXCEPT !.value = v].value = v
    BY <2>1 DEF Runs
  <2>3. CASE run' = [run EXCEPT ![c].value = "queued"]
    BY <2>1, <2>2, <2>3
  <2>4. CASE \E v \in {"success", "failure", "unheard_of"} : run' = [run EXCEPT ![c].value = v]
    BY <2>1, <2>2, <2>4
  <2>5. CASE run' = [run EXCEPT ![c] = [id |-> run[c].id + 1, value |-> "queued"]]
    <3>1. [id |-> run[c].id + 1, value |-> "queued"] \in Runs
      BY <2>1 DEF Runs
    <3>. QED
      BY <2>5, <3>1
  <2>. QED
    BY <2>3, <2>4, <2>5 DEF RunAdvances
<1>3. run \in [Slots -> Runs] /\ run'[c] = x /\ x # Absent /\ \A d \in Slots : d # c => run'[d] = run[d]
  BY <1>1, <1>2 DEF PollTyped, Absent
<1>4. /\ \A t \in Tasks : changed[t] \subseteq changed'[t]
      /\ Observing(SlotOf[c].task) => c \in changed'[SlotOf[c].task]
      /\ changed' \in [Tasks -> SUBSET (Slots \cup {"ruleset", "status"})]
  BY <1>1 DEF Touch, PollTyped
<1>5. PollTyped'
  BY <1>1, <1>2, <1>4 DEF PollTyped
<1>6. ASSUME NEW t \in Tasks PROVE PollAt(t)'
  <2>1. PollAt(t)
    BY DEF PollInv
  <2>2. CASE at[t] # "runs"
    BY <1>1, <2>1, <2>2 DEF PollAt
  <2>3. CASE at[t] = "runs"
    <3>1. SlotOf[c].task = t => c \in changed'[t]
      BY <1>4, <2>3 DEF Observing
    <3>2. poll[t].seen \in SUBSET [slot : Slots, run : Runs] /\ poll[t].page \in Nat
      BY <1>1 DEF PollTyped
    <3>3. \A y \in poll[t].seen : /\ SlotOf[y.slot].task = t /\ run'[y.slot] # Absent
                                  /\ y.slot \in changed'[t] \/ y.run = run'[y.slot]
      BY <1>3, <1>4, <2>1, <2>3, <3>1, <3>2 DEF PollAt
    <3>4. Listed(t) \in SUBSET Listed(t)'
      BY <1>3, Places DEF Listed
    <3>5. ASSUME NEW i \in Listed(t)', Before(t, i)' < (poll[t].page - 1) * PageSize
          PROVE  Listing[i] \in changed'[t] \/ Answer({i})' \subseteq poll[t].seen
      <4>1. Listing[i] \in Slots /\ SlotOf[Listing[i]].task = t
        BY ListingPlaces DEF Listed
      <4>2. CASE Listing[i] = c
        BY <3>1, <4>1, <4>2
      <4>3. CASE Listing[i] # c
        <5>1. run'[Listing[i]] = run[Listing[i]] /\ i \in Listed(t)
          BY <1>3, <4>1, <4>3 DEF Listed
        <5>2. Before(t, i) <= Before(t, i)' /\ Before(t, i) \in Nat /\ Before(t, i)' \in Nat
          <6>1. IsFiniteSet(Listed(t)')
            <7>1. Listed(t)' \in SUBSET DOMAIN Listing
              BY DEF Listed
            <7>. QED
              BY <7>1, ListingPlaces, FS_Subset
          <6>2. CountBelow(Listed(t), i) <= CountBelow(Listed(t)', i)
            BY <3>4, <6>1, MoreBelow
          <6>3. Before(t, i)' = CountBelow(Listed(t)', i)
            BY DEF Before, CountBelow, Below
          <6>4. Before(t, i)' \in Nat
            BY <3>4, <6>1, <6>3, MoreBelow
          <6>. QED
            BY <6>2, <6>3, <6>4, Places
        <5>3. (poll[t].page - 1) * PageSize \in Int
          BY <3>2, SlotsAreListed
        <5>4. Before(t, i) < (poll[t].page - 1) * PageSize
          BY <3>5, <5>2, <5>3
        <5>5. Answer({i})' = Answer({i})
          BY <5>1 DEF Answer
        <5>. QED
          BY <1>4, <2>1, <2>3, <5>1, <5>4, <5>5 DEF PollAt
      <4>. QED
        BY <4>2, <4>3
    <3>6. extra[t] \subseteq changed'[t] /\ poll[t].page >= 1
      BY <1>4, <2>1, <2>3 DEF PollAt
    <3>. QED
      BY <1>1, <2>3, <3>3, <3>5, <3>6 DEF PollAt
  <2>. QED
    BY <2>2, <2>3
<1>. QED
  BY <1>5, <1>6 DEF PollInv

(* With the next page, what was seen is still true, and covers that page.   *)
LEMMA SeenTrue ==
  ASSUME PollInv, NEW t \in Tasks, at[t] = "runs",
         NEW y \in poll[t].seen \cup Answer(Page(t, poll[t].page))
  PROVE  /\ y.slot \in Slots /\ y.run \in Runs
         /\ SlotOf[y.slot].task = t /\ run[y.slot] # Absent
         /\ y.slot \in changed[t] \/ y.run = run[y.slot]
<1>1. PollAt(t) /\ poll[t].seen \in SUBSET [slot : Slots, run : Runs] /\ run \in [Slots -> Runs]
  BY DEF PollInv, PollTyped
<1>2. CASE y \in poll[t].seen
  BY <1>1, <1>2 DEF PollAt
<1>3. CASE y \in Answer(Page(t, poll[t].page))
  <2>1. PICK i \in Page(t, poll[t].page) : y = [slot |-> Listing[i], run |-> run[Listing[i]]]
    BY <1>3 DEF Answer
  <2>2. i \in Listed(t)
    BY <2>1 DEF Page
  <2>. QED
    BY <1>1, <2>1, <2>2, Places
<1>. QED
  BY <1>2, <1>3

LEMMA SeenAll ==
  ASSUME PollInv, NEW t \in Tasks, at[t] = "runs",
         NEW i \in Listed(t), Before(t, i) < poll[t].page * PageSize
  PROVE  \/ Listing[i] \in changed[t]
         \/ Answer({i}) \subseteq poll[t].seen \cup Answer(Page(t, poll[t].page))
<1> DEFINE p == poll[t].page
<1>1. PollAt(t) /\ p \in Nat
  BY DEF PollInv, PollTyped
<1>2. CASE Before(t, i) < (p - 1) * PageSize
  BY <1>1, <1>2 DEF PollAt
<1>3. CASE ~(Before(t, i) < (p - 1) * PageSize)
  <2>1. (p - 1) * PageSize \in Int /\ Before(t, i) \in Nat
    BY <1>1, SlotsAreListed, Places
  <2>2. i \in Page(t, p)
    BY <1>3, <2>1 DEF Page
  <2>. QED
    BY <2>2 DEF Answer
<1>. QED
  BY <1>2, <1>3

(* A page that is full: the next one begins behind it.                      *)
LEMMA NextPage ==
  ASSUME PollInv, NEW t \in Tasks, at[t] = "runs", run' = run, changed' = changed, extra' = extra,
         at' = at,
         poll'[t].page = poll[t].page + 1,
         poll'[t].seen = poll[t].seen \cup Answer(Page(t, poll[t].page))
  PROVE  PollAt(t)'
<1> DEFINE p == poll[t].page
<1>1. PollAt(t) /\ p \in Nat /\ p + 1 >= 1
  BY DEF PollInv, PollTyped
<1>2. Listed(t)' = Listed(t) /\ \A i : Before(t, i)' = Before(t, i) /\ Answer({i})' = Answer({i})
  BY DEF Listed, Before, Answer
<1>3. ASSUME NEW y \in poll'[t].seen
      PROVE  /\ SlotOf[y.slot].task = t /\ run'[y.slot] # Absent
             /\ y.slot \in changed'[t] \/ y.run = run'[y.slot]
  BY SeenTrue
<1>4. ASSUME NEW i \in Listed(t)', Before(t, i)' < (poll'[t].page - 1) * PageSize
      PROVE  Listing[i] \in changed'[t] \/ Answer({i})' \subseteq poll'[t].seen
  <2>1. poll'[t].page - 1 = p
    BY <1>1
  <2>2. i \in Listed(t) /\ Before(t, i)' = Before(t, i)
    BY <1>2, <1>4
  <2>3. Before(t, i) < p * PageSize
    BY <1>4, <2>1, <2>2
  <2>4. Listing[i] \in changed[t] \/ Answer({i}) \subseteq poll'[t].seen
    BY <2>2, <2>3, SeenAll
  <2>. QED
    BY <1>2, <2>4
<1>5. extra'[t] \subseteq changed'[t] /\ poll'[t].page >= 1 /\ at'[t] = "runs"
  BY <1>1 DEF PollAt
<1>. QED
  BY <1>3, <1>4, <1>5 DEF PollAt

(* A page that is not full: nothing comes behind it.                        *)
LEMMA LastPage ==
  ASSUME PollInv, NEW t \in Tasks, at[t] = "runs",
         Cardinality(Page(t, poll[t].page)) # PageSize, NEW i \in Listed(t)
  PROVE  Before(t, i) < poll[t].page * PageSize
<1> DEFINE p == poll[t].page
           a == (p - 1) * PageSize
           b == p * PageSize
<1>1. p \in Nat /\ p >= 1 /\ PageSize \in Nat
  BY SlotsAreListed DEF PollInv, PollTyped, PollAt
<1>2. a \in Nat /\ b \in Nat /\ b - a = PageSize /\ a <= b
  <2>1. PICK q \in Nat : p = q + 1
    <3>1. p - 1 \in Nat /\ p = (p - 1) + 1
      BY <1>1
    <3>. QED
      BY <3>1
  <2>2. q * PageSize \in Nat /\ (q + 1) * PageSize = q * PageSize + PageSize
    BY <1>1
  <2>3. p - 1 = q
    BY <2>1
  <2>4. a = q * PageSize /\ b = (q + 1) * PageSize
    BY <2>1, <2>3
  <2>. HIDE DEF a, b
  <2>5. a \in Nat /\ b = a + PageSize
    <3>. DEFINE x == q * PageSize
                y == (q + 1) * PageSize
    <3>1. x \in Nat /\ y = x + PageSize
      BY <2>2
    <3>2. a = x /\ b = y
      BY <2>4
    <3>. HIDE DEF x, y
    <3>. QED
      BY <3>1, <3>2
  <2>. QED
    BY <1>1, <2>5
<1>3. SUFFICES ASSUME b <= Before(t, i) PROVE FALSE
  BY <1>2, Places
<1> HIDE DEF a, b, p
<1>4. Cardinality({j \in Listed(t) : a <= CountBelow(Listed(t), j) /\ CountBelow(Listed(t), j) < b})
        = b - a
  BY <1>2, <1>3, Places, FullPage
<1>5. Page(t, p) = {j \in Listed(t) : a <= CountBelow(Listed(t), j) /\ CountBelow(Listed(t), j) < b}
  BY Places DEF Page, a, b
<1>. QED
  BY <1>2, <1>4, <1>5 DEF p

(* The requests of a run.                                                   *)
LEMMA RequestPoll ==
  ASSUME DeliveryTyped, PollInv, NEW t \in Tasks, RunStep(t)
  PROVE  PollInv'
<1>1. PollTyped /\ run' = run /\ extra' = extra
  BY DEF PollInv, RunStep, Find, Describe, Create, CreateUnanswered, ResolveContext, ReadRules, ReadRuns,
     Wait, BeginPoll, Complete, Reject, FailTask, github
<1>2. ASSUME /\ PollTyped' /\ PollAt(t)'
             /\ \A u \in Tasks : u # t =>
                  at'[u] = at[u] /\ poll'[u] = poll[u] /\ changed'[u] = changed[u]
      PROVE  PollInv'
  <2>1. ASSUME NEW u \in Tasks, u # t PROVE PollAt(u)'
    BY <1>1, <1>2, <2>1, PollKept DEF PollInv
  <2>. QED
    BY <1>2, <2>1 DEF PollInv
<1>3. CASE \/ Find(t) \/ Describe(t) \/ Create(t) \/ CreateUnanswered(t)
           \/ Complete(t) \/ Reject(t) \/ FailTask(t)
  <2>1. /\ UNCHANGED <<poll, changed, stored>>
        /\ \E from, to : Goto(t, from, to) /\ to \notin {"rules", "runs"}
    BY <1>3 DEF Find, Describe, Create, CreateUnanswered, Complete, Reject, FailTask, github
  <2>2. at'[t] \notin {"rules", "runs"} /\ \A u \in Tasks : u # t => at'[u] = at[u]
    BY <2>1, GotoMoves
  <2>3. PollTyped'
    BY <1>1, <2>1 DEF PollTyped
  <2>. QED
    BY <1>2, <2>1, <2>2, <2>3, PollOver
<1>4. CASE ResolveContext(t) \/ Wait(t)
  <2>1. /\ \E from : Goto(t, from, "rules")
        /\ poll' = [poll EXCEPT ![t] = [attempt |-> @.attempt + 1, page |-> 1, seen |-> {}]]
        /\ changed' = [changed EXCEPT ![t] = {}] /\ stored' = stored
    BY <1>4 DEF ResolveContext, Wait, BeginPoll
  <2>2. at'[t] = "rules" /\ \A u \in Tasks : u # t => at'[u] = at[u]
    BY <2>1, GotoMoves
  <2>3. /\ poll'[t].page = 1 /\ poll'[t].seen = {}
        /\ \A u \in Tasks : u # t => poll'[u] = poll[u] /\ changed'[u] = changed[u]
    BY <1>1, <2>1 DEF PollTyped
  <2>4. PollTyped'
    BY <1>1, <2>1 DEF PollTyped
  <2>5. PollAt(t)'
    BY <2>2, <2>3 DEF PollAt
  <2>. QED
    BY <1>2, <2>2, <2>3, <2>4, <2>5
<1>5. CASE ReadRules(t)
  <2>1. /\ Goto(t, "rules", "runs") /\ extra[t] = {} /\ UNCHANGED <<poll, changed, stored>>
    BY <1>5 DEF ReadRules, github
  <2>2. at[t] = "rules" /\ at'[t] = "runs" /\ \A u \in Tasks : u # t => at'[u] = at[u]
    BY <2>1, GotoMoves
  <2>3. poll'[t].page = 1 /\ poll'[t].seen = {}
    BY <2>1, <2>2 DEF PollInv, PollAt
  <2>4. ASSUME NEW i \in Listed(t)', Before(t, i)' < (poll'[t].page - 1) * PageSize PROVE FALSE
    <3>1. (poll'[t].page - 1) * PageSize = 0
      BY <2>3, SlotsAreListed
    <3>2. Before(t, i)' = Before(t, i) /\ Before(t, i) \in Nat
      BY <1>1, Places DEF Before, Listed
    <3>. QED
      BY <2>4, <3>1, <3>2
  <2>5. extra'[t] \subseteq changed'[t] /\ poll'[t].page >= 1
    BY <1>1, <2>1, <2>3
  <2>6. PollAt(t)'
    BY <2>2, <2>3, <2>4, <2>5 DEF PollAt
  <2>7. PollTyped'
    BY <1>1, <2>1 DEF PollTyped
  <2>. QED
    BY <1>2, <2>1, <2>2, <2>6, <2>7
<1>6. CASE ReadRuns(t)
  <2> DEFINE p == poll[t].page
             seen == poll[t].seen \cup Answer(Page(t, p))
  <2>1. at[t] = "runs" /\ changed' = changed
    BY <1>6 DEF ReadRuns, github
  <2>2. seen \in SUBSET [slot : Slots, run : Runs]
    <3>1. ASSUME NEW i \in Page(t, p) PROVE [slot |-> Listing[i], run |-> run[Listing[i]]] \in [slot : Slots, run : Runs]
      <4>1. Listing[i] \in Slots
        BY Places DEF Page
      <4>. QED
        BY <1>1, <4>1 DEF PollTyped
    <3>. QED
      BY <1>1, <3>1 DEF PollTyped, Answer
  <2> HIDE DEF seen
  <2>3. CASE Cardinality(Page(t, p)) = PageSize
    <3>1. /\ poll' = [poll EXCEPT ![t].page = p + 1, ![t].seen = seen]
          /\ UNCHANGED <<at, stored>>
      BY <1>6, <2>3 DEF ReadRuns, seen
    <3>2. /\ poll'[t].page = p + 1 /\ poll'[t].seen = seen
          /\ \A u \in Tasks : u # t => poll'[u] = poll[u]
      BY <1>1, <3>1 DEF PollTyped
    <3>3. PollTyped'
      <4> DEFINE Polls == [attempt : Nat, page : Nat, seen : SUBSET [slot : Slots, run : Runs]]
      <4>1. poll \in [Tasks -> Polls] /\ poll[t] \in Polls /\ p + 1 \in Nat
        BY <1>1 DEF PollTyped
      <4>2. PICK q \in Polls : q = [poll[t] EXCEPT !.page = p + 1, !.seen = seen]
        BY <2>2, <4>1
      <4>3. poll' = [poll EXCEPT ![t] = q]
        BY <3>1, <4>1, <4>2
      <4>4. poll' \in [Tasks -> Polls]
        BY <4>1, <4>2, <4>3
      <4>. QED
        BY <1>1, <2>1, <3>1, <4>4 DEF PollTyped
    <3>4. PollAt(t)'
      BY <1>1, <2>1, <3>1, <3>2, NextPage DEF seen
    <3>. QED
      BY <1>2, <2>1, <3>1, <3>2, <3>3, <3>4
  <2>4. CASE Cardinality(Page(t, p)) # PageSize
    <3>1. /\ poll' = [poll EXCEPT ![t].page = 0, ![t].seen = {}]
          /\ Judge(t, seen)
      BY <1>6, <2>4 DEF ReadRuns, seen
    <3>2. PICK to : Goto(t, "runs", to) /\ to \notin {"rules", "runs"}
      BY <3>1 DEF Judge, After
    <3>3. at'[t] \notin {"rules", "runs"} /\ \A u \in Tasks : u # t => at'[u] = at[u]
      BY <3>2, GotoMoves
    <3>4. \A u \in Tasks : u # t => poll'[u] = poll[u]
      BY <1>1, <3>1 DEF PollTyped
    <3>5. DOMAIN stored' = Tasks
      BY <1>1, <3>1 DEF Judge, Store, PollTyped
    <3>6. PollTyped'
      BY <1>1, <2>1, <3>1, <3>5 DEF PollTyped
    <3>. QED
      BY <1>2, <2>1, <3>3, <3>4, <3>6, PollOver
  <2>. QED
    BY <2>3, <2>4
<1>. QED
  BY <1>3, <1>4, <1>5, <1>6 DEF RunStep

LEMMA OutsidePoll ==
  ASSUME DeliveryTyped, PollInv, Crash \/ GitHub \/ UNCHANGED deliveryVars
  PROVE  PollInv'
<1>1. PollTyped
  BY DEF PollInv
<1>2. CASE Crash
  <2>1. /\ UNCHANGED <<run, extra, changed, stored>> /\ poll' = [t \in Tasks |-> NoPoll]
        /\ \A t \in Tasks : at'[t] \notin {"rules", "runs"}
    BY <1>2 DEF Crash
  <2>2. PollTyped'
    BY <1>1, <2>1 DEF PollTyped, NoPoll
  <2>. QED
    BY <2>1, <2>2, PollOver DEF PollInv
<1>3. CASE UNCHANGED deliveryVars \/ \E t \in Tasks : HumanOpens(t) \/ HumanCloses(t)
  <2>1. UNCHANGED <<at, run, extra, poll, changed, stored>>
    BY <1>3 DEF HumanOpens, HumanCloses, deliveryVars
  <2>2. PollTyped'
    BY <1>1, <2>1 DEF PollTyped
  <2>. QED
    BY <2>1, <2>2, PollKept DEF PollInv
<1>4. ASSUME NEW t \in Tasks, NEW what \in {"ruleset", "status"}, NewRequirement(t, what)
      PROVE  PollInv'
  <2>1. /\ UNCHANGED <<at, run, poll, stored>> /\ Touch(t, what)
        /\ extra' = [extra EXCEPT ![t] = @ \cup {what}]
    BY <1>4 DEF NewRequirement
  <2>2. /\ extra'[t] = extra[t] \cup {what}
        /\ changed'[t] = IF Observing(t) THEN changed[t] \cup {what} ELSE changed[t]
        /\ \A u \in Tasks : u # t => extra'[u] = extra[u] /\ changed'[u] = changed[u]
    BY <1>1, <2>1 DEF Touch, PollTyped
  <2>3. PollTyped'
    <3>1. /\ extra[t] \cup {what} \in SUBSET {"ruleset", "status"}
          /\ changed'[t] \in SUBSET (Slots \cup {"ruleset", "status"})
      BY <1>1, <2>2 DEF PollTyped
    <3>2. changed' \in [Tasks -> SUBSET (Slots \cup {"ruleset", "status"})]
      BY <1>1, <2>1, <2>2, <3>1 DEF Touch, PollTyped
    <3>. QED
      BY <1>1, <2>1, <3>1, <3>2 DEF PollTyped
  <2>4. PollAt(t)'
    <3>1. PollAt(t)
      BY DEF PollInv
    <3>2. CASE at[t] # "runs"
      BY <2>1, <3>1, <3>2 DEF PollAt
    <3>3. CASE at[t] = "runs"
      <4>1. /\ changed[t] \subseteq changed'[t] /\ extra'[t] \subseteq changed'[t]
            /\ poll'[t].page >= 1
        BY <2>1, <2>2, <3>1, <3>3 DEF Observing, PollAt
      <4>2. ASSUME NEW y \in poll'[t].seen
            PROVE  /\ SlotOf[y.slot].task = t /\ run'[y.slot] # Absent
                   /\ y.slot \in changed'[t] \/ y.run = run'[y.slot]
        BY <2>1, <3>1, <3>3, <4>1 DEF PollAt
      <4>3. ASSUME NEW i \in Listed(t)', Before(t, i)' < (poll'[t].page - 1) * PageSize
            PROVE  Listing[i] \in changed'[t] \/ Answer({i})' \subseteq poll'[t].seen
        <5>1. /\ i \in Listed(t) /\ Before(t, i) < (poll[t].page - 1) * PageSize
              /\ Answer({i})' = Answer({i})
          BY <2>1, <4>3 DEF Listed, Before, Answer
        <5>2. Listing[i] \in changed[t] \/ Answer({i}) \subseteq poll[t].seen
          BY <3>1, <3>3, <5>1 DEF PollAt
        <5>. QED
          BY <2>1, <4>1, <5>1, <5>2
      <4>. QED
        BY <2>1, <3>3, <4>1, <4>2, <4>3 DEF PollAt
    <3>. QED
      BY <3>2, <3>3
  <2>5. ASSUME NEW u \in Tasks, u # t PROVE PollAt(u)'
    BY <2>1, <2>2, <2>5, PollKept DEF PollInv
  <2>. QED
    BY <2>3, <2>4, <2>5 DEF PollInv
<1>. QED
  BY <1>2, <1>3, <1>4, RunAdvancesPoll DEF GitHub

LEMMA PollInit == DeliveryInit => PollInv
<1>. SUFFICES ASSUME DeliveryInit PROVE PollInv
  OBVIOUS
<1>1. run \in [Slots -> Runs]
  <2>1. run \in [Slots -> [id : {0}, value : UNION {Pushed[c] : c \in Slots}]]
    BY DEF DeliveryInit
  <2>. QED
    BY <2>1 DEF Runs
<1>2. PollTyped
  BY <1>1 DEF DeliveryInit, PollTyped, NoPoll
<1>3. ASSUME NEW t \in Tasks PROVE PollAt(t)
  BY DEF DeliveryInit, PollAt
<1>. QED
  BY <1>2, <1>3 DEF PollInv

(* In every reachable state, what a poll has seen is there, unchanged or     *)
(* known to have changed, and it has seen everything on the pages it read:  *)
(* the listing may grow between two pages, nothing is skipped.              *)
THEOREM PagesSkipNothing == DeliverySpec => []PollInv
<1>1. DeliveryInv /\ PollInv /\ [DeliveryNext]_deliveryVars => PollInv'
  BY RequestPoll, OutsidePoll DEF DeliveryInv, DeliveryNext
<1>. QED
  BY <1>1, PollInit, DeliveryInvariant, PTL DEF DeliverySpec

(* The verdict of a poll that has read its last page.                       *)
LEMMA EarnedStep ==
  ASSUME DeliveryInv, PollInv, NEW t \in Tasks, ReadRuns(t),
         outcome'[t] = "SUCCESS", outcome[t] # "SUCCESS"
  PROVE  /\ extra[t] \subseteq changed[t]
         /\ \A rule \in Rules(t) :
              LET mine == {c \in Slots : SlotOf[c].task = t /\ Matches(rule, c) /\ run[c] # Absent}
              IN /\ mine # {}
                 /\ \A c \in mine \ changed[t] : run[c].value \in Acceptable
                 /\ \E x \in stored'[t] : x.key \in mine \X Nat /\ x.value \in Acceptable
<1> DEFINE page == Page(t, poll[t].page)
           seen == poll[t].seen \cup Answer(page)
           latest == Snapshots(t, seen)
<1>1. at[t] = "runs" /\ PollTyped /\ PollAt(t) /\ outcome \in [Tasks -> {"none", "SUCCESS", "FAILURE", "PENDING"}]
  BY DEF ReadRuns, PollInv, DeliveryInv, DeliveryTyped
<1>2. Cardinality(page) # PageSize /\ Judge(t, seen)
  BY DEF ReadRuns
<1>3. \A y \in seen : /\ y.slot \in Slots /\ y.run \in Runs
                      /\ SlotOf[y.slot].task = t /\ run[y.slot] # Absent
  BY <1>1, SeenTrue
<1>4. ASSUME NEW c \in Slots, SlotOf[c].task = t, run[c] # Absent, c \notin changed[t]
      PROVE  [slot |-> c, run |-> run[c]] \in seen
  <2>1. PICK i \in DOMAIN Listing : Listing[i] = c
    BY SlotsAreListed
  <2>2. i \in Listed(t)
    BY <1>4, <2>1 DEF Listed
  <2>3. Answer({i}) \subseteq seen
    BY <1>1, <1>2, <1>4, <2>1, <2>2, LastPage, SeenAll
  <2>. QED
    BY <2>1, <2>3 DEF Answer
<1> HIDE DEF seen
<1>5. Verdict(latest) = "SUCCESS"
  BY <1>1, <1>2 DEF Judge
<1> HIDE DEF latest
<1>6. (\A x \in latest : x.value \in Acceptable) /\ latest \subseteq stored'[t]
  <2>1. \A x \in latest : x.value \in Acceptable
    BY <1>5 DEF Verdict
  <2>2. Store(t, latest)
    BY <1>2 DEF Judge, latest
  <2>. QED
    BY <1>1, <2>1, <2>2 DEF Store, PollTyped
<1>7. ASSUME NEW rule \in Rules(t), NEW y \in seen, Matches(rule, y.slot)
      PROVE  [key |-> <<y.slot, y.run.id>>, value |-> y.run.value] \in latest
  BY <1>7 DEF latest, Snapshots
<1>8. ASSUME NEW rule \in Rules(t) PROVE \E y \in seen : Matches(rule, y.slot)
  <2>1. SUFFICES ASSUME \A y \in seen : ~Matches(rule, y.slot) PROVE FALSE
    OBVIOUS
  <2>2. [key |-> <<rule, 0>>, value |-> "queued"] \in latest
    <3>1. {y \in seen : Matches(rule, y.slot)} = {}
      BY <2>1
    <3>. QED
      BY <3>1 DEF latest, Snapshots
  <2>. QED
    BY <1>6, <2>2 DEF Acceptable
<1>9. ASSUME NEW rule \in Rules(t)
      PROVE  LET mine == {c \in Slots : SlotOf[c].task = t /\ Matches(rule, c) /\ run[c] # Absent}
             IN /\ mine # {}
                /\ \A c \in mine \ changed[t] : run[c].value \in Acceptable
                /\ \E x \in stored'[t] : x.key \in mine \X Nat /\ x.value \in Acceptable
  <2> DEFINE mine == {c \in Slots : SlotOf[c].task = t /\ Matches(rule, c) /\ run[c] # Absent}
  <2>1. PICK y \in seen : Matches(rule, y.slot)
    BY <1>8
  <2>2. y.slot \in mine /\ y.run.id \in Nat
    BY <1>3, <2>1 DEF Runs
  <2>3. \E x \in stored'[t] : x.key \in mine \X Nat /\ x.value \in Acceptable
    <3>1. [key |-> <<y.slot, y.run.id>>, value |-> y.run.value] \in latest
      BY <1>7, <2>1
    <3>. QED
      BY <1>6, <2>2, <3>1
  <2>4. ASSUME NEW c \in mine, c \notin changed[t] PROVE run[c].value \in Acceptable
    <3>1. [slot |-> c, run |-> run[c]] \in seen
      BY <1>4, <2>4
    <3>2. [key |-> <<c, run[c].id>>, value |-> run[c].value] \in latest
      BY <1>7, <3>1
    <3>. QED
      BY <1>6, <3>2
  <2>. QED
    BY <2>2, <2>3, <2>4
<1>10. extra[t] \subseteq changed[t]
  BY <1>1 DEF PollAt
<1>. QED
  BY <1>9, <1>10

(* SUCCESS is earned on GitHub: nothing that stayed as it was while the      *)
(* last poll read it speaks against it, on whatever page it is listed.      *)
THEOREM VerdictsAreEarned == DeliverySpec => SuccessIsEarned
<1> DEFINE Earned(t) ==
             outcome'[t] = "SUCCESS" /\ outcome[t] # "SUCCESS" =>
               /\ extra[t] \subseteq changed[t]
               /\ \A rule \in Rules(t) :
                    LET mine == {c \in Slots : SlotOf[c].task = t /\ Matches(rule, c) /\ run[c] # Absent}
                    IN /\ mine # {}
                       /\ \A c \in mine \ changed[t] : run[c].value \in Acceptable
                       /\ \E x \in stored'[t] : x.key \in mine \X Nat /\ x.value \in Acceptable
<1>1. ASSUME DeliveryInv, PollInv, [DeliveryNext]_deliveryVars, NEW t \in Tasks PROVE Earned(t)
  <2>1. SUFFICES ASSUME outcome'[t] # outcome[t] PROVE ReadRuns(t)
    BY <1>1, EarnedStep
  <2>2. \E u \in Tasks : ReadRuns(u)
    BY <1>1, <2>1 DEF DeliveryNext, RunStep, Find, Describe, Create, CreateUnanswered, ResolveContext,
       ReadRules, Wait, BeginPoll, Complete, Reject, FailTask, Crash, GitHub, HumanOpens, HumanCloses,
       NewRequirement, RunAdvances, deliveryVars
  <2>3. ASSUME NEW u \in Tasks, ReadRuns(u), u # t PROVE FALSE
    <3>1. outcome' = outcome \/ \E v : outcome' = [outcome EXCEPT ![u] = v]
      BY <2>3 DEF ReadRuns, Judge
    <3>. QED
      BY <1>1, <2>1, <2>3, <3>1 DEF DeliveryInv, DeliveryTyped
  <2>. QED
    BY <2>2, <2>3
<1>2. DeliveryInv /\ PollInv /\ [DeliveryNext]_deliveryVars => \A t \in Tasks : Earned(t)
  BY <1>1
<1>. QED
  BY <1>2, DeliveryInvariant, PagesSkipNothing, PTL DEF DeliverySpec, SuccessIsEarned

=============================================================================
