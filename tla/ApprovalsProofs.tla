-------------------------- MODULE ApprovalsProofs --------------------------
(***************************************************************************)
(* Proofs about approvals, for any commands, operations, gates and rows.   *)
(***************************************************************************)
EXTENDS Approvals, SequenceTheorems, TLAPS

LEMMA NoRowFields ==
  /\ NoRow.op = NoOp /\ NoRow.status = "UNUSED" /\ ~NoRow.fresh
  /\ Idle.at = "idle" /\ Idle.spent = <<>>
BY DEF NoRow, Idle

LEMMA InitAInv == ApprovalInit => AInv
<1>. SUFFICES ASSUME ApprovalInit PROVE AInv
  OBVIOUS
<1>. USE NoRowFields DEF ApprovalInit
<1>1. ApprovalTypeOK
  BY ApprovalAssumption DEF ApprovalTypeOK, Rows, Idle
<1>2. OneLive /\ SpentOnce
  BY DEF OneLive, SpentOnce, Live
<1>3. Backed
  <2>. SUFFICES ASSUME NEW c \in Calls
                PROVE  /\ Len(call[c].spent) <= Len(Gates[c])
                       /\ DOMAIN call[c].spent = {}
                       /\ call[c].at = "idle"
    BY DEF Backed
  <2>1. call[c].at = "idle" /\ call[c].spent = <<>>
    OBVIOUS
  <2>2. Gates[c] \in Seq(Ops)
    BY ApprovalAssumption
  <2>. QED
    BY <2>1, <2>2
<1>. QED
  BY <1>1, <1>2, <1>3 DEF AInv

-----------------------------------------------------------------------------
(* One lemma per way the table changes.                                    *)

(* Sweeping changes only statuses, from APPROVED to EXPIRED.                *)
LEMMA SweptRows ==
  ASSUME ApprovalTypeOK, NEW k \in Ops
  PROVE  /\ Swept(k) \in [Ids -> Rows]
         /\ \A i \in Ids : /\ Swept(k)[i].op = row[i].op
                           /\ Swept(k)[i].fresh = row[i].fresh
                           /\ Swept(k)[i].status \in {row[i].status, "EXPIRED"}
                           /\ Swept(k)[i].status # row[i].status => row[i].status = "APPROVED"
                           /\ Swept(k)[i].status = "APPROVED" /\ row[i].op = k => row[i].fresh
<1>1. ASSUME NEW i \in Ids, row[i].status = "APPROVED"
      PROVE  row[i] \in [op : Ops, status : Live \cup Resolved, fresh : BOOLEAN]
  BY <1>1, NoRowFields DEF ApprovalTypeOK, Rows
<1>2. ASSUME NEW i \in Ids, row[i].status = "APPROVED"
      PROVE  [row[i] EXCEPT !.status = "EXPIRED"]
               \in [op : Ops, status : Live \cup Resolved, fresh : BOOLEAN]
  BY <1>1, <1>2 DEF Live, Resolved
<1>3. \A i \in Ids : Swept(k)[i] \in Rows
  BY <1>2 DEF Swept, ApprovalTypeOK, Rows
<1>. QED
  BY <1>1, <1>3 DEF Swept, ApprovalTypeOK

(* A table in which rows only lose liveness, and no CONSUMED row that a     *)
(* command holds changes, keeps OneLive and what commands hold.             *)
LEMMA FewerLive ==
  ASSUME OneLive,
         \A i \in Ids : row'[i].status \in Live => row[i].status \in Live /\ row'[i].op = row[i].op
  PROVE  OneLive'
BY DEF OneLive

LEMMA GateInOps ==
  ASSUME ApprovalTypeOK, NEW c \in Calls, AtGate(c)
  PROVE  Gate(c) \in Ops /\ Len(call[c].spent) + 1 \in DOMAIN Gates[c]
BY ApprovalAssumption DEF ApprovalTypeOK, AtGate, Gate

LEMMA BeginAInv ==
  ASSUME AInv, NEW c \in Calls, Begin(c) PROVE AInv'
<1>. USE NoRowFields DEF AInv, Begin, NoSetback
<1>1. ApprovalTypeOK'
  BY DEF ApprovalTypeOK
<1>2. \A d \in Calls : call'[d].spent = call[d].spent
  BY DEF ApprovalTypeOK
<1>3. OneLive'
  BY DEF OneLive
<1>4. SpentOnce'
  BY <1>2 DEF SpentOnce
<1>5. Backed'
  BY <1>2 DEF Backed, ApprovalTypeOK
<1>. QED
  BY <1>1, <1>3, <1>4, <1>5

LEMMA ConsumeAInv ==
  ASSUME AInv, NEW c \in Calls, NEW i \in Ids, ConsumeHits(c, i) PROVE AInv'
<1>. USE DEF AInv, ConsumeHits, NoSetback
<1>. DEFINE k == Gate(c)
<1>1. k \in Ops
  BY GateInOps
<1>2. row[i].op = k /\ row[i].status = "APPROVED" /\ row[i].fresh
  BY DEF Usable
<1>3. row' \in [Ids -> Rows]
  <2>1. Swept(k)[i] \in [op : Ops, status : Live \cup Resolved, fresh : BOOLEAN]
    BY <1>1, <1>2, SweptRows, NoRowFields DEF Rows, Swept, ApprovalTypeOK
  <2>2. [Swept(k)[i] EXCEPT !.status = "CONSUMED"] \in Rows
    BY <2>1 DEF Rows, Resolved
  <2>. QED
    BY <1>1, <2>2, SweptRows
<1>4. call' \in [Calls -> [at : {"idle", "consume", "running"}, spent : Seq(Ids)]]
  <2>1. call[c] \in [at : {"idle", "consume", "running"}, spent : Seq(Ids)]
    BY DEF ApprovalTypeOK
  <2>2. [call[c] EXCEPT !.spent = Append(@, i)]
          \in [at : {"idle", "consume", "running"}, spent : Seq(Ids)]
    <3>1. Append(call[c].spent, i) \in Seq(Ids)
      BY <2>1
    <3>. QED
      BY <2>1, <3>1
  <2>. QED
    BY <2>2 DEF ApprovalTypeOK
<1>5. /\ \A d \in Calls \ {c} : call'[d] = call[d]
      /\ call'[c].at = "consume" /\ call[c].at = "consume"
      /\ call'[c].spent = Append(call[c].spent, i)
  BY DEF ApprovalTypeOK, AtGate
<1>6. ApprovalTypeOK'
  BY <1>3, <1>4, <1>5 DEF ApprovalTypeOK
<1>7. /\ row'[i].status = "CONSUMED" /\ row'[i].op = k
      /\ \A j \in Ids : row'[j].op = row[j].op
                        /\ row'[j].status \in {row[j].status, "EXPIRED", "CONSUMED"}
      /\ \A j \in Ids : row[j].status = "CONSUMED" => row'[j].status = "CONSUMED"
  <2>1. row'[i].status = "CONSUMED" /\ row'[i].op = k
    BY <1>1, <1>2, SweptRows DEF ApprovalTypeOK, Rows
  <2>2. \A j \in Ids \ {i} : row'[j] = Swept(k)[j]
    BY <1>1, SweptRows
  <2>3. row[i].status # "CONSUMED"
    BY <1>2
  <2>. QED
    BY <1>1, <1>2, <2>1, <2>2, <2>3, SweptRows
<1>8. OneLive'
  BY <1>7, FewerLive DEF Live
<1>9. \A d \in Calls : \A n \in DOMAIN call[d].spent : call[d].spent[n] # i
  BY <1>2 DEF Backed
<1>10. /\ DOMAIN call'[c].spent = DOMAIN call[c].spent \cup {Len(call[c].spent) + 1}
       /\ call'[c].spent[Len(call[c].spent) + 1] = i
       /\ \A n \in DOMAIN call[c].spent : call'[c].spent[n] = call[c].spent[n]
       /\ Len(call'[c].spent) = Len(call[c].spent) + 1
       /\ Len(call[c].spent) \in Nat
       /\ Len(call[c].spent) + 1 \notin DOMAIN call[c].spent
  BY <1>5 DEF ApprovalTypeOK
<1>11. SpentOnce'
  <2>. SUFFICES ASSUME NEW d \in Calls, NEW e \in Calls,
                       NEW m \in DOMAIN call'[d].spent, NEW n \in DOMAIN call'[e].spent,
                       call'[d].spent[m] = call'[e].spent[n]
                PROVE  d = e /\ m = n
    BY DEF SpentOnce
  <2>. QED
    BY <1>5, <1>9, <1>10 DEF SpentOnce
<1>12. Backed'
  <2>. SUFFICES ASSUME NEW d \in Calls
                PROVE  /\ Len(call'[d].spent) <= Len(Gates[d])
                       /\ \A n \in DOMAIN call'[d].spent :
                            row'[call'[d].spent[n]].op = Gates[d][n]
                            /\ row'[call'[d].spent[n]].status = "CONSUMED"
                       /\ call'[d].at # "idle" => d \notin Denied
                       /\ call'[d].at = "running" =>
                            Len(call'[d].spent) = Len(Gates[d]) /\ d \notin OutOfHome
    BY DEF Backed
  <2>1. CASE d # c
    <3>1. \A n \in DOMAIN call[d].spent : call[d].spent[n] \in Ids
      BY DEF ApprovalTypeOK
    <3>. QED
      BY <2>1, <3>1, <1>5, <1>7 DEF Backed
  <2>2. CASE d = c
    <3>1. \A n \in DOMAIN call[c].spent : call[c].spent[n] \in Ids
      BY DEF ApprovalTypeOK
    <3>2. Len(call'[c].spent) <= Len(Gates[c])
      BY <1>10, ApprovalAssumption DEF AtGate
    <3>3. \A n \in DOMAIN call'[c].spent :
             row'[call'[c].spent[n]].op = Gates[c][n]
             /\ row'[call'[c].spent[n]].status = "CONSUMED"
      <4>1. ASSUME NEW n \in DOMAIN call[c].spent
            PROVE  row'[call'[c].spent[n]].op = Gates[c][n]
                   /\ row'[call'[c].spent[n]].status = "CONSUMED"
        BY <3>1, <1>7, <1>10 DEF Backed
      <4>2. Gates[c][Len(call[c].spent) + 1] = k
        BY DEF Gate
      <4>. QED
        BY <4>1, <4>2, <1>7, <1>10
    <3>. QED
      BY <2>2, <3>2, <3>3, <1>5 DEF Backed
  <2>. QED
    BY <2>1, <2>2
<1>. QED
  BY <1>6, <1>8, <1>11, <1>12

(* The attempt of c ends; every CONSUMED row another command holds stays.   *)
LEMMA EndAInv ==
  ASSUME AInv, NEW c \in Calls, call' = [call EXCEPT ![c] = Idle],
         row' \in [Ids -> Rows], OneLive', setbacks' \in 0..MaxSetbacks,
         \A j \in Ids : Held(j) => row'[j].op = row[j].op
                                   /\ (row[j].status = "CONSUMED" => row'[j].status = "CONSUMED")
  PROVE  AInv'
<1>. USE NoRowFields DEF AInv
<1>1. call'[c] = Idle /\ \A d \in Calls \ {c} : call'[d] = call[d]
  BY DEF ApprovalTypeOK
<1>2. ApprovalTypeOK'
  BY <1>1 DEF ApprovalTypeOK, Idle
<1>3. SpentOnce'
  BY <1>1 DEF SpentOnce
<1>4. Backed'
  <2>1. \A d \in Calls : \A n \in DOMAIN call[d].spent :
           call[d].spent[n] \in Ids /\ Held(call[d].spent[n])
    BY DEF ApprovalTypeOK, Held
  <2>2. Len(call'[c].spent) = 0 /\ DOMAIN call'[c].spent = {} /\ call'[c].at = "idle"
    BY <1>1
  <2>3. Len(Gates[c]) \in Nat
    BY ApprovalAssumption
  <2>4. ASSUME NEW d \in Calls \ {c}, NEW n \in DOMAIN call'[d].spent
        PROVE  row'[call'[d].spent[n]].op = Gates[d][n]
               /\ row'[call'[d].spent[n]].status = "CONSUMED"
    BY <1>1, <2>1 DEF Backed
  <2>. QED
    BY <1>1, <2>2, <2>3, <2>4 DEF Backed
<1>. QED
  BY <1>2, <1>3, <1>4

LEMMA SweptAInv ==
  ASSUME AInv, NEW c \in Calls, Misses(c), row' = Swept(Gate(c)),
         call' = [call EXCEPT ![c] = Idle], setbacks' \in 0..MaxSetbacks
  PROVE  AInv'
<1>1. Gate(c) \in Ops
  BY GateInOps DEF AInv, Misses
<1>2. OneLive'
  BY <1>1, SweptRows, FewerLive DEF AInv, Live
<1>. QED
  BY <1>1, <1>2, SweptRows, EndAInv DEF AInv

LEMMA RequestAInv ==
  ASSUME AInv, NEW c \in Calls, NEW i \in Ids, Request(c, i) PROVE AInv'
<1>. USE DEF AInv, Request, NoSetback
<1>. DEFINE k == Gate(c)
            new == [op |-> k, status |-> "PENDING", fresh |-> FALSE]
<1>1. k \in Ops
  BY GateInOps DEF Misses
<1>2. new \in Rows /\ new.op = k /\ new.status = "PENDING"
  BY <1>1 DEF Rows, Live
<1>3. row' = [Swept(k) EXCEPT ![i] = new]
  OBVIOUS
<1>4. row' \in [Ids -> Rows] /\ row'[i] = new /\ \A j \in Ids \ {i} : row'[j] = Swept(k)[j]
  BY <1>1, <1>2, <1>3, SweptRows
<1>5. \A j \in Ids \ {i} : row'[j].op = k => row'[j].status \notin Live
  BY <1>1, <1>4, SweptRows DEF Live, Misses, Usable, Asked
<1>6. \A j \in Ids \ {i} : row'[j].op = row[j].op
                           /\ (row'[j].status \in Live => row[j].status \in Live)
                           /\ (row[j].status = "CONSUMED" => row'[j].status = "CONSUMED")
  BY <1>1, <1>4, SweptRows DEF Live
<1>7. OneLive'
  BY <1>2, <1>4, <1>5, <1>6 DEF OneLive
<1>. QED
  BY <1>4, <1>6, <1>7, EndAInv DEF Unused, ApprovalTypeOK

(* The owner and the clock change one row, which no command holds.          *)
LEMMA RowAInv ==
  ASSUME AInv, NEW i \in Ids, row[i].status \in Live,
         NEW s \in Live \cup Resolved, NEW f \in BOOLEAN,
         row' = [row EXCEPT ![i].status = s, ![i].fresh = f],
         UNCHANGED call, setbacks' \in 0..MaxSetbacks
  PROVE  AInv'
<1>. USE DEF AInv
<1>1. row[i] \in [op : Ops, status : Live \cup Resolved, fresh : BOOLEAN]
  BY NoRowFields DEF ApprovalTypeOK, Rows, Live
<1>2. [row[i] EXCEPT !.status = s, !.fresh = f] \in Rows
  BY <1>1 DEF Rows
<1>3. /\ row' \in [Ids -> Rows]
      /\ row'[i].op = row[i].op
      /\ \A j \in Ids \ {i} : row'[j] = row[j]
  BY <1>1, <1>2 DEF ApprovalTypeOK
<1>4. ApprovalTypeOK'
  BY <1>3 DEF ApprovalTypeOK
<1>5. OneLive'
  BY <1>3 DEF OneLive
<1>6. SpentOnce'
  BY DEF SpentOnce
<1>7. \A d \in Calls : \A n \in DOMAIN call[d].spent :
         call[d].spent[n] \in Ids /\ call[d].spent[n] # i
  BY DEF Backed, ApprovalTypeOK, Live
<1>8. Backed'
  BY <1>3, <1>7 DEF Backed
<1>. QED
  BY <1>4, <1>5, <1>6, <1>8

LEMMA SetbackType == ApprovalTypeOK /\ (Setback \/ NoSetback) => setbacks' \in 0..MaxSetbacks
BY ApprovalAssumption DEF ApprovalTypeOK, Setback, NoSetback

LEMMA NextAInv == AInv /\ [ApprovalNext]_vars => AInv'
<1>. SUFFICES ASSUME AInv, [ApprovalNext]_vars PROVE AInv'
  OBVIOUS
<1>. USE SetbackType
<1>1. ASSUME NEW c \in Calls, RunStep(c) \/ RequestFails(c) PROVE AInv'
  <2>1. CASE Begin(c)
    BY <2>1, BeginAInv
  <2>2. CASE \E i \in Ids : ConsumeHits(c, i) \/ Request(c, i)
    BY <2>2, ConsumeAInv, RequestAInv
  <2>3. CASE AlreadyAsked(c) \/ RequestFails(c)
    BY <2>3, SweptAInv DEF AlreadyAsked, RequestFails, AInv
  <2>4. CASE Spawn(c)
    <3>1. \A d \in Calls : call'[d].spent = call[d].spent /\ (d # c => call'[d] = call[d])
      BY <2>4 DEF Spawn, AInv, ApprovalTypeOK
    <3>2. ApprovalTypeOK' /\ call'[c].at = "running"
      BY <2>4, <3>1 DEF Spawn, AInv, ApprovalTypeOK
    <3>3. OneLive' /\ SpentOnce'
      BY <2>4, <3>1 DEF Spawn, AInv, OneLive, SpentOnce
    <3>4. Backed'
      BY <2>4, <3>1, <3>2 DEF Spawn, Cleared, AInv, Backed
    <3>. QED
      BY <3>2, <3>3, <3>4 DEF AInv
  <2>5. CASE PreflightDenies(c) \/ Finish(c)
    <3>1. row' \in [Ids -> Rows] /\ OneLive'
      BY <2>5 DEF PreflightDenies, Finish, AInv, ApprovalTypeOK, OneLive
    <3>. QED
      BY <2>5, <3>1, EndAInv DEF PreflightDenies, Finish, AInv
  <2>. QED
    BY <1>1, <2>1, <2>2, <2>3, <2>4, <2>5 DEF RunStep
<1>2. ASSUME NEW i \in Ids, Approve(i) \/ Deny(i) \/ Lapse(i) PROVE AInv'
  <2>1. row[i] \in Rows /\ row \in [Ids -> Rows] /\ setbacks' \in 0..MaxSetbacks
    BY <1>2 DEF AInv, ApprovalTypeOK, Approve, Deny, Lapse
  <2>2. row[i] \in [op : Ops, status : Live \cup Resolved, fresh : BOOLEAN]
    BY <1>2, <2>1, NoRowFields DEF Rows, Approve, Deny, Lapse
  <2>3. CASE Approve(i)
    BY <2>1, <2>3, RowAInv DEF Approve, Live
  <2>4. CASE Deny(i)
    <3>1. row' = [row EXCEPT ![i].status = "DENIED", ![i].fresh = row[i].fresh]
      BY <2>1, <2>2, <2>4 DEF Deny
    <3>. QED
      BY <2>1, <2>2, <2>4, <3>1, RowAInv DEF Deny, Live, Resolved
  <2>5. CASE Lapse(i)
    <3>1. row' = [row EXCEPT ![i].status = "APPROVED", ![i].fresh = FALSE]
      BY <2>1, <2>2, <2>5 DEF Lapse
    <3>. QED
      BY <2>1, <2>2, <2>5, <3>1, RowAInv DEF Lapse, Live
  <2>. QED
    BY <1>2, <2>3, <2>4, <2>5
<1>3. CASE Crash
  BY <1>3, NoRowFields, ApprovalAssumption
     DEF Crash, AInv, ApprovalTypeOK, OneLive, Backed, SpentOnce, Idle
<1>4. CASE UNCHANGED vars
  BY <1>4 DEF vars, AInv, ApprovalTypeOK, OneLive, Backed, SpentOnce
<1>. QED
  BY <1>1, <1>2, <1>3, <1>4 DEF ApprovalNext

(* Every reachable state keeps the types, one live row per operation, and   *)
(* the link between what commands have paid and the rows they paid with.    *)
THEOREM ApprovalInvariant == ApprovalSpec => []AInv
<1>. QED
  BY InitAInv, NextAInv, PTL DEF ApprovalSpec

(* The unique index of live pairs as a consequence of the transactions: no  *)
(* operation ever has two requests, two approvals or one of each.           *)
THEOREM LiveRowsDistinct == ApprovalSpec => []OneLive
<1>1. AInv => OneLive
  BY DEF AInv
<1>. QED
  BY <1>1, ApprovalInvariant, PTL

(* CommandRunner.run: nothing is spawned whose approvals were not all       *)
(* consumed, each by a row of its own operation.                            *)
THEOREM RunsAreBacked == ApprovalSpec => []Backed
<1>1. AInv => Backed
  BY DEF AInv
<1>. QED
  BY <1>1, ApprovalInvariant, PTL

(* SEC-POL-003: an approval is single-use, also across parallel attempts.   *)
THEOREM SingleUse == ApprovalSpec => []SpentOnce
<1>1. AInv => SpentOnce
  BY DEF AInv
<1>. QED
  BY <1>1, ApprovalInvariant, PTL

-----------------------------------------------------------------------------
(* What a step may do to a row.                                            *)

LEMMA ConsumedStep ==
  ASSUME AInv, [ApprovalNext]_vars, NEW i \in Ids,
         row'[i].status = "CONSUMED", row[i].status # "CONSUMED"
  PROVE  row[i].status = "APPROVED" /\ row[i].fresh
<1>. USE DEF AInv
<1>1. ASSUME NEW c \in Calls, NEW j \in Ids, ConsumeHits(c, j)
      PROVE  row[i].status = "APPROVED" /\ row[i].fresh
  <2>1. Gate(c) \in Ops
    BY <1>1, GateInOps DEF ConsumeHits
  <2>2. j = i
    BY <1>1, <2>1, SweptRows DEF ConsumeHits
  <2>. QED
    BY <1>1, <2>2 DEF ConsumeHits, Usable
<1>2. ASSUME NEW c \in Calls, NEW j \in Ids, Request(c, j) PROVE FALSE
  BY <1>2, GateInOps, SweptRows DEF Request, Misses
<1>3. ASSUME NEW c \in Calls, AlreadyAsked(c) \/ RequestFails(c) PROVE FALSE
  BY <1>3, GateInOps, SweptRows DEF AlreadyAsked, RequestFails, Misses
<1>4. ASSUME NEW j \in Ids, Approve(j) \/ Deny(j) \/ Lapse(j) PROVE FALSE
  <2>1. row[j] \in [op : Ops, status : Live \cup Resolved, fresh : BOOLEAN]
    BY <1>4, NoRowFields DEF Approve, Deny, Lapse, ApprovalTypeOK, Rows
  <2>2. row'[j].status # "CONSUMED" /\ \A n \in Ids \ {j} : row'[n] = row[n]
    BY <1>4, <2>1 DEF Approve, Deny, Lapse, ApprovalTypeOK
  <2>. QED
    BY <2>2
<1>. QED
  BY <1>1, <1>2, <1>3, <1>4
     DEF ApprovalNext, RunStep, Begin, Spawn, PreflightDenies, Finish, Crash, vars

(* ApprovalRepository.consume: only an approved, unexpired row is ever      *)
(* consumed, however long the approval waited.                              *)
THEOREM ConsumptionInTime == ApprovalSpec => ConsumedInTime
<1>1. AInv /\ [ApprovalNext]_vars =>
        [ \A i \in Ids :
            row'[i].status = "CONSUMED" /\ row[i].status # "CONSUMED"
            => row[i].status = "APPROVED" /\ row[i].fresh ]_vars
  BY ConsumedStep
<1>. QED
  BY <1>1, ApprovalInvariant, PTL DEF ApprovalSpec, ConsumedInTime

-----------------------------------------------------------------------------
(* Refinement of the ledger.                                               *)

GrantOf(k) == IF LiveRow(k, "APPROVED") THEN "granted"
              ELSE IF LiveRow(k, "PENDING") THEN "asked" ELSE "none"
Grants == [k \in Ops |-> GrantOf(k)]
Paid   == [c \in Calls |-> SubSeq(Gates[c], 1, Len(call[c].spent))]

LEMMA PaidMore ==
  ASSUME NEW c \in Calls, NEW n \in Nat, n < Len(Gates[c])
  PROVE  SubSeq(Gates[c], 1, n + 1) = Append(SubSeq(Gates[c], 1, n), Gates[c][n + 1])
<1>1. Gates[c] \in Seq(Ops) /\ n + 1 \in 1 .. Len(Gates[c]) + 1 /\ n + 1 \in 1 .. Len(Gates[c])
  BY ApprovalAssumption
<1>2. SubSeq(Gates[c], 1, n + 1) = SubSeq(Gates[c], 1, n) \o <<Gates[c][n + 1]>>
  BY <1>1, SubSeqRecursiveSecond
<1>3. SubSeq(Gates[c], 1, n) \in Seq(Ops) /\ Gates[c][n + 1] \in Ops
  BY <1>1, SubSeqProperties
<1>. QED
  BY <1>2, <1>3, AppendIsConcat

LEMMA PaidNothing ==
  ASSUME NEW c \in Calls PROVE SubSeq(Gates[c], 1, Len(Idle.spent)) = <<>>
<1>1. Gates[c] \in Seq(Ops) /\ Len(Idle.spent) = 0
  BY ApprovalAssumption DEF Idle
<1>. QED
  BY <1>1, SubSeqEmpty

(* The attempts of the commands of S end and no grant changes.              *)
LEMMA EndStep ==
  ASSUME AInv, NEW S \in SUBSET Calls, Grants' = Grants,
         call' = [c \in Calls |-> IF c \in S THEN Idle ELSE call[c]]
  PROVE  Ledger!End(S)
<1>1. Paid' = [c \in Calls |-> IF c \in S THEN <<>> ELSE Paid[c]]
  BY PaidNothing DEF Paid
<1>. QED
  BY <1>1 DEF Ledger!End, Paid, Grants, GrantOf

(* Rows of other operations do not matter to a grant.                       *)
LEMMA GrantLocal ==
  ASSUME NEW k \in Ops,
         \A i \in Ids : row'[i].op = k \/ row[i].op = k => row'[i] = row[i]
  PROVE  GrantOf(k)' = GrantOf(k)
BY DEF GrantOf, LiveRow

LEMMA SweptGrants ==
  ASSUME AInv, NEW k \in Ops, row' = Swept(k), Usable(k) = {}
  PROVE  Grants' = Grants
<1>1. ASSUME NEW j \in Ops PROVE GrantOf(j)' = GrantOf(j)
  <2>1. \A i \in Ids : /\ row'[i].op = row[i].op /\ row'[i].fresh = row[i].fresh
                       /\ row'[i].status # row[i].status
                            => row[i].status = "APPROVED" /\ ~row[i].fresh
                               /\ row'[i].status = "EXPIRED"
    BY SweptRows DEF Swept, AInv
  <2>2. LiveRow(j, "APPROVED")' <=> LiveRow(j, "APPROVED")
    BY <2>1 DEF LiveRow
  <2>3. LiveRow(j, "PENDING")' <=> LiveRow(j, "PENDING")
    BY <2>1 DEF LiveRow
  <2>. QED
    BY <2>2, <2>3 DEF GrantOf
<1>. QED
  BY <1>1 DEF Grants

LEMMA SpendStep ==
  ASSUME AInv, AInv', NEW c \in Calls, NEW i \in Ids, ConsumeHits(c, i)
  PROVE  \E k \in Ops : Ledger!Spend(c, k)
<1>. PICK k \in Ops : k = Gate(c)
  BY GateInOps DEF ConsumeHits, AInv
<1>1. k \in Ops /\ row[i].op = k /\ row[i].status = "APPROVED" /\ row[i].fresh
  BY GateInOps DEF ConsumeHits, Usable, AInv
<1>2. GrantOf(k) = "granted"
  BY <1>1 DEF GrantOf, LiveRow
<1>3. \A j \in Ids : row[j].op = k /\ row[j].status \in Live => j = i
  BY <1>1 DEF AInv, OneLive, Live
<1>4. /\ row'[i].status = "CONSUMED" /\ row'[i].op = k
      /\ \A j \in Ids \ {i} : row'[j] = Swept(k)[j] /\ row'[j].op = row[j].op
      /\ \A j \in Ids : row[j].op # k => row'[j] = row[j]
  <2>1. row' = [Swept(k) EXCEPT ![i].status = "CONSUMED"]
    BY DEF ConsumeHits
  <2>2. Swept(k) \in [Ids -> Rows] /\ \A j \in Ids : Swept(k)[j].op = row[j].op
    BY SweptRows DEF AInv
  <2>3. Swept(k)[i] \in [op : Ops, status : Live \cup Resolved, fresh : BOOLEAN]
    BY <1>1, <2>2, NoRowFields, ApprovalAssumption DEF Rows
  <2>4. row'[i].status = "CONSUMED" /\ row'[i].op = k
    BY <1>1, <2>1, <2>2, <2>3
  <2>5. \A j \in Ids \ {i} : row'[j] = Swept(k)[j]
    BY <2>1, <2>2
  <2>6. \A j \in Ids : row[j].op # k => Swept(k)[j] = row[j]
    BY DEF Swept
  <2>. QED
    BY <1>1, <2>2, <2>4, <2>5, <2>6
<1>5. GrantOf(k)' = "none"
  <2>1. \A j \in Ids : row'[j].op = k => row'[j].status \notin Live
    BY <1>1, <1>3, <1>4, SweptRows DEF Live, AInv
  <2>. QED
    BY <2>1 DEF GrantOf, LiveRow, Live
<1>6. \A j \in Ops \ {k} : GrantOf(j)' = GrantOf(j)
  BY <1>1, <1>4, GrantLocal
<1>7. Grants[k] = "granted" /\ Grants' = [Grants EXCEPT ![k] = "none"]
  BY <1>1, <1>2, <1>5, <1>6 DEF Grants
<1>8. Paid' = [Paid EXCEPT ![c] = Append(@, k)]
  <2>1. /\ Len(call'[c].spent) = Len(call[c].spent) + 1
        /\ Len(call[c].spent) \in Nat /\ Len(call[c].spent) < Len(Gates[c])
        /\ \A d \in Calls \ {c} : call'[d] = call[d]
    BY DEF ConsumeHits, AtGate, AInv, ApprovalTypeOK
  <2>2. Paid'[c] = Append(Paid[c], k)
    BY <2>1, PaidMore DEF Paid, Gate
  <2>3. \A d \in Calls \ {c} : Paid'[d] = Paid[d]
    BY <2>1 DEF Paid
  <2>. QED
    BY <2>2, <2>3 DEF Paid
<1>. QED
  BY <1>7, <1>8 DEF Ledger!Spend, Grants, GrantOf, Paid

LEMMA RefuseStep ==
  ASSUME AInv, AInv', NEW c \in Calls, NEW i \in Ids, Request(c, i)
  PROVE  \E k \in Ops : Ledger!Refuse(c, k)
<1>. PICK k \in Ops : k = Gate(c)
  BY GateInOps DEF Request, Misses, AInv
<1>. DEFINE new == [op |-> k, status |-> "PENDING", fresh |-> FALSE]
<1>1. k \in Ops /\ row \in [Ids -> Rows]
  BY GateInOps DEF Request, Misses, AInv, ApprovalTypeOK
<1>2. row' = [Swept(k) EXCEPT ![i] = new]
  BY DEF Request
<1>3. GrantOf(k) = "none"
  BY DEF Request, Misses, Usable, Asked, GrantOf, LiveRow
<1>4. /\ row'[i] = new
      /\ \A j \in Ids \ {i} : row'[j] = Swept(k)[j]
  BY <1>1, <1>2, SweptRows DEF AInv
<1>5. GrantOf(k)' = "asked"
  <2>1. LiveRow(k, "PENDING")'
    BY <1>4 DEF LiveRow
  <2>2. ~LiveRow(k, "APPROVED")'
    BY <1>1, <1>4, SweptRows DEF LiveRow, Request, Misses, Usable, AInv
  <2>. QED
    BY <2>1, <2>2 DEF GrantOf
<1>6. ASSUME NEW j \in Ops \ {k} PROVE GrantOf(j)' = GrantOf(j)
  <2>1. \A n \in Ids \ {i} : row'[n].op = row[n].op /\ (row[n].op = j => row'[n] = row[n])
    <3>1. \A n \in Ids : Swept(k)[n].op = row[n].op
      BY <1>1, SweptRows DEF AInv
    <3>2. \A n \in Ids : row[n].op # k => Swept(k)[n] = row[n]
      BY DEF Swept
    <3>. QED
      BY <1>4, <3>1, <3>2
  <2>2. row'[i].op # j /\ row[i].status \notin Live
    BY <1>4 DEF Request, Unused
  <2>3. LiveRow(j, "APPROVED")' <=> LiveRow(j, "APPROVED")
    BY <2>1, <2>2 DEF LiveRow, Live
  <2>4. LiveRow(j, "PENDING")' <=> LiveRow(j, "PENDING")
    BY <2>1, <2>2 DEF LiveRow, Live
  <2>. QED
    BY <2>3, <2>4 DEF GrantOf
<1>7. Grants[k] = "none" /\ Grants' = [Grants EXCEPT ![k] = "asked"]
  BY <1>1, <1>3, <1>5, <1>6 DEF Grants
<1>8. Paid' = [Paid EXCEPT ![c] = <<>>]
  <2>1. call'[c] = Idle /\ \A d \in Calls \ {c} : call'[d] = call[d]
    BY DEF Request, AInv, ApprovalTypeOK
  <2>. QED
    BY <2>1, PaidNothing DEF Paid
<1>. QED
  BY <1>7, <1>8 DEF Ledger!Refuse, Grants, GrantOf, Paid

(* The owner's decisions and the clock change the grant of one operation.   *)
LEMMA OwnerStep ==
  ASSUME AInv, NEW i \in Ids, Approve(i) \/ Deny(i) \/ Lapse(i)
  PROVE  [Ledger!LedgerNext]_(Ledger!ledgerVars)
<1>. DEFINE k == row[i].op
<1>1. row[i] \in [op : Ops, status : Live \cup Resolved, fresh : BOOLEAN]
  BY NoRowFields DEF Approve, Deny, Lapse, AInv, ApprovalTypeOK, Rows
<1>2. /\ k \in Ops
      /\ row'[i].op = k
      /\ \A j \in Ids \ {i} : row'[j] = row[j]
  BY <1>1 DEF Approve, Deny, Lapse, AInv, ApprovalTypeOK
<1>3. \A j \in Ids : row[j].op = k /\ row[j].status \in Live => j = i
  BY DEF Approve, Deny, Lapse, AInv, OneLive, Live
<1>4. \A j \in Ops \ {k} : GrantOf(j)' = GrantOf(j)
  BY <1>2, GrantLocal
<1>5. Paid' = Paid
  BY DEF Paid, Approve, Deny, Lapse
<1>6. CASE Approve(i)
  <2>1. row[i].status = "PENDING" /\ row'[i].status = "APPROVED" /\ row'[i].fresh
    BY <1>1, <1>6 DEF Approve, AInv, ApprovalTypeOK
  <2>2. GrantOf(k) = "asked" /\ GrantOf(k)' = "granted"
    BY <1>2, <1>3, <2>1 DEF GrantOf, LiveRow, Live
  <2>3. Grants[k] = "asked" /\ Grants' = [Grants EXCEPT ![k] = "granted"]
    BY <1>2, <1>4, <2>2 DEF Grants
  <2>4. Ledger!Give(k)
    BY <1>5, <2>3 DEF Ledger!Give, Grants, GrantOf, Paid
  <2>. QED
    BY <1>2, <2>4 DEF Ledger!LedgerNext
<1>7. CASE Deny(i) \/ Lapse(i)
  <2>1. row[i].status \in Live /\ (row[i].status = "APPROVED" => row[i].fresh)
        /\ ~(row'[i].status \in Live /\ (row'[i].status = "APPROVED" => row'[i].fresh))
    BY <1>1, <1>7 DEF Deny, Lapse, Live, AInv, ApprovalTypeOK
  <2>2. GrantOf(k) # "none" /\ GrantOf(k)' = "none"
    BY <1>2, <1>3, <2>1 DEF GrantOf, LiveRow, Live
  <2>3. Grants[k] # "none" /\ Grants' = [Grants EXCEPT ![k] = "none"]
    BY <1>2, <1>4, <2>2 DEF Grants
  <2>4. Ledger!Withdraw(k)
    BY <1>5, <2>3 DEF Ledger!Withdraw, Grants, GrantOf, Paid
  <2>. QED
    BY <1>2, <2>4 DEF Ledger!LedgerNext
<1>. QED
  BY <1>6, <1>7

LEMMA LedgerStep ==
  AInv /\ AInv' /\ [ApprovalNext]_vars => [Ledger!LedgerNext]_(Ledger!ledgerVars)
<1>. SUFFICES ASSUME AInv, AInv', [ApprovalNext]_vars
              PROVE  [Ledger!LedgerNext]_(Ledger!ledgerVars)
  OBVIOUS
<1>1. row' = row => Grants' = Grants
  BY DEF Grants, GrantOf, LiveRow
<1>2. ASSUME NEW c \in Calls, RunStep(c) \/ RequestFails(c)
      PROVE  [Ledger!LedgerNext]_(Ledger!ledgerVars)
  <2>1. CASE Begin(c) \/ Spawn(c)
    <3>1. \A d \in Calls : call'[d].spent = call[d].spent
      <4>1. Begin(c) => \A d \in Calls : call'[d].spent = call[d].spent
        BY DEF Begin, AInv, ApprovalTypeOK
      <4>2. Spawn(c) => \A d \in Calls : call'[d].spent = call[d].spent
        BY DEF Spawn, AInv, ApprovalTypeOK
      <4>. QED
        BY <2>1, <4>1, <4>2
    <3>2. Paid' = Paid /\ Grants' = Grants
      BY <1>1, <2>1, <3>1 DEF Paid, Begin, Spawn
    <3>. QED
      BY <3>2 DEF Ledger!ledgerVars, Paid, Grants, GrantOf
  <2>2. CASE \E i \in Ids : ConsumeHits(c, i)
    <3>1. \E k \in Ops : Ledger!Spend(c, k)
      BY <2>2, SpendStep
    <3>. QED
      BY <3>1 DEF Ledger!LedgerNext
  <2>3. CASE \E i \in Ids : Request(c, i)
    <3>1. \E k \in Ops : Ledger!Refuse(c, k)
      BY <2>3, RefuseStep
    <3>. QED
      BY <3>1 DEF Ledger!LedgerNext
  <2>4. CASE AlreadyAsked(c) \/ RequestFails(c) \/ PreflightDenies(c) \/ Finish(c)
    <3>1. Grants' = Grants
      <4>1. CASE AlreadyAsked(c) \/ RequestFails(c)
        BY <4>1, SweptGrants, GateInOps DEF AlreadyAsked, RequestFails, Misses, AInv
      <4>. QED
        BY <1>1, <2>4, <4>1 DEF PreflightDenies, Finish
    <3>2. call' = [d \in Calls |-> IF d \in {c} THEN Idle ELSE call[d]]
      BY <2>4 DEF AlreadyAsked, RequestFails, PreflightDenies, Finish, AInv, ApprovalTypeOK
    <3>3. Ledger!End({c})
      BY <3>1, <3>2, EndStep
    <3>. QED
      BY <3>3 DEF Ledger!LedgerNext
  <2>. QED
    BY <1>2, <2>1, <2>2, <2>3, <2>4 DEF RunStep
<1>3. CASE Crash
  <2>1. Ledger!End(Calls)
    BY <1>1, <1>3, EndStep DEF Crash
  <2>. QED
    BY <2>1 DEF Ledger!LedgerNext
<1>4. CASE UNCHANGED vars
  BY <1>1, <1>4 DEF vars, Ledger!ledgerVars, Paid, Grants, GrantOf
<1>. QED
  BY <1>2, <1>3, <1>4, OwnerStep DEF ApprovalNext

(* Rows, transactions and clocks implement the ledger: one grant at a time, *)
(* given by the owner, spent once.                                          *)
THEOREM ImplementsLedger == ApprovalSpec => LedgerSpec
<1>1. ApprovalInit => Ledger!LedgerInit
  <2>. SUFFICES ASSUME ApprovalInit PROVE Ledger!LedgerInit
    OBVIOUS
  <2>1. Grants = [k \in Ops |-> "none"]
    BY NoRowFields DEF ApprovalInit, Grants, GrantOf, LiveRow
  <2>2. Paid = [c \in Calls |-> <<>>]
    BY PaidNothing DEF ApprovalInit, Paid
  <2>. QED
    BY <2>1, <2>2 DEF Ledger!LedgerInit, Grants, GrantOf, Paid
<1>. QED
  BY <1>1, LedgerStep, ApprovalInvariant, PTL DEF ApprovalSpec, LedgerSpec, Ledger!LedgerSpec

=============================================================================
