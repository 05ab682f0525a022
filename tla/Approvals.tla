----------------------------- MODULE Approvals -----------------------------
(***************************************************************************)
(* Approvals of risky operations: ApprovalRepository, the consumption port *)
(* and the MCP control surface of main.ts, and the gate of                 *)
(* CommandRunner.run.                                                      *)
(*                                                                         *)
(* A command whose policy decision is NEEDS_APPROVAL for some operations   *)
(* consumes one approval per such operation, in order and one await each,  *)
(* before it spawns anything.  A miss records a PENDING request and throws *)
(* away the attempt.  Every repository call is one IMMEDIATE transaction   *)
(* of one process; other commands, the owner, the clock and a crash come   *)
(* between the awaits.                                                     *)
(*                                                                         *)
(* Ids are AUTOINCREMENT and never used again.  Here an id whose row is    *)
(* resolved and belongs to no command in progress may serve again: such a  *)
(* row is only ever compared with 'PENDING' and 'APPROVED', so nothing     *)
(* distinguishes it from no row.                                           *)
(***************************************************************************)
EXTENDS Naturals, Sequences

CONSTANTS
  Calls,      \* commands that are attempted, each again and again
  Ops,        \* operation hashes; a hash covers the task, so it names a task
  Ids,        \* approvals.id
  NoOp,
  Gates,      \* per command, its NEEDS_APPROVAL operations in order
  Denied,     \* the commands with an operation that policy denies
  OutOfHome,  \* the commands with a worktree target the preflight refuses
  MaxSetbacks \* bound on denials, expiries, crashes and SQLite errors

ASSUME ApprovalAssumption ==
  /\ Gates \in [Calls -> Seq(Ops)]
  /\ NoOp \notin Ops
  /\ MaxSetbacks \in Nat

VARIABLES
  row,       \* the approvals table; fresh: expires_at is in the future
  call,      \* CommandRunner.run: where it is, and the ids it has consumed
  setbacks   \* denials, expiries, crashes and errors so far

vars == <<row, call, setbacks>>

Live     == { "PENDING", "APPROVED" }
Resolved == { "CONSUMED", "DENIED", "EXPIRED" }
NoRow    == [op |-> NoOp, status |-> "UNUSED", fresh |-> FALSE]
Rows     == [op : Ops, status : Live \cup Resolved, fresh : BOOLEAN] \cup {NoRow}
Idle     == [at |-> "idle", spent |-> <<>>]

ApprovalTypeOK ==
  /\ row \in [Ids -> Rows]
  /\ call \in [Calls -> [at : {"idle", "consume", "running"}, spent : Seq(Ids)]]
  /\ \A c \in Calls : call[c].at = "idle" => call[c].spent = <<>>
  /\ setbacks \in 0..MaxSetbacks

ApprovalInit ==
  /\ row = [i \in Ids |-> NoRow]
  /\ call = [c \in Calls |-> Idle]
  /\ setbacks = 0

Setback   == setbacks < MaxSetbacks /\ setbacks' = setbacks + 1
NoSetback == setbacks' = setbacks

Held(i)   == \E c \in Calls : \E n \in DOMAIN call[c].spent : call[c].spent[n] = i
Unused(i) == row[i].status \notin Live /\ ~Held(i)

-----------------------------------------------------------------------------
(* CommandRunner.run.                                                      *)

(* Every operation is evaluated before anything is consumed: one DENY       *)
(* rejects the command at once.                                             *)
Begin(c) ==
  /\ call[c] = Idle
  /\ c \notin Denied
  /\ call' = [call EXCEPT ![c].at = "consume"]
  /\ NoSetback
  /\ UNCHANGED row

(* The operation the loop is at.                                            *)
AtGate(c) == call[c].at = "consume" /\ Len(call[c].spent) < Len(Gates[c])
Gate(c)   == Gates[c][Len(call[c].spent) + 1]

Usable(k) == { i \in Ids : row[i].op = k /\ row[i].status = "APPROVED" /\ row[i].fresh }

(* The first UPDATE of consume and of request: approved rows past their     *)
(* time become EXPIRED.                                                     *)
Swept(k) ==
  [i \in Ids |->
     IF row[i].op = k /\ row[i].status = "APPROVED" /\ ~row[i].fresh
     THEN [row[i] EXCEPT !.status = "EXPIRED"] ELSE row[i]]

(* Mutant: the approval is found and its row left as it is.                 *)
ConsumeHitsReadOnly(c, i) ==
  /\ AtGate(c)
  /\ Usable(Gate(c)) = {i}
  /\ call' = [call EXCEPT ![c].spent = Append(@, i)]
  /\ NoSetback
  /\ UNCHANGED row

(* ApprovalRepository.consume changed exactly one row.  (The unique index   *)
(* of live pairs leaves it no second one.)                                  *)
ConsumeHits(c, i) ==
  /\ AtGate(c)
  /\ Usable(Gate(c)) = {i}
  /\ row' = [Swept(Gate(c)) EXCEPT ![i].status = "CONSUMED"]
  /\ call' = [call EXCEPT ![c].spent = Append(@, i)]
  /\ NoSetback

Misses(c) == AtGate(c) /\ Usable(Gate(c)) = {}

(* The miss is recorded: a PENDING row unless a live one exists, and        *)
(* ApprovalRequiredError ends the attempt.  What it had consumed stays so.  *)
Asked(k) == \E i \in Ids : row[i].op = k /\ row[i].status = "PENDING"

Request(c, i) ==
  /\ Misses(c)
  /\ ~Asked(Gate(c))
  /\ Unused(i)
  /\ row' = [Swept(Gate(c)) EXCEPT ![i] =
               [op |-> Gate(c), status |-> "PENDING", fresh |-> FALSE]]
  /\ call' = [call EXCEPT ![c] = Idle]
  /\ NoSetback

AlreadyAsked(c) ==
  /\ Misses(c)
  /\ Asked(Gate(c))
  /\ row' = Swept(Gate(c))
  /\ call' = [call EXCEPT ![c] = Idle]
  /\ NoSetback

(* The transaction of the request fails after that of consume committed.    *)
RequestFails(c) ==
  /\ Misses(c)
  /\ row' = Swept(Gate(c))
  /\ call' = [call EXCEPT ![c] = Idle]
  /\ Setback

Cleared(c) == call[c].at = "consume" /\ Len(call[c].spent) = Len(Gates[c])

(* Mutant: one approval opens the whole command.                            *)
SpawnOnFirst(c) ==
  /\ call[c].at = "consume"
  /\ call[c].spent # <<>>
  /\ c \notin OutOfHome
  /\ call' = [call EXCEPT ![c].at = "running"]
  /\ NoSetback
  /\ UNCHANGED row

(* The worktree preflight passes, the run is recorded, the child spawned.   *)
Spawn(c) ==
  /\ Cleared(c)
  /\ c \notin OutOfHome
  /\ call' = [call EXCEPT ![c].at = "running"]
  /\ NoSetback
  /\ UNCHANGED row

PreflightDenies(c) ==
  /\ Cleared(c)
  /\ c \in OutOfHome
  /\ call' = [call EXCEPT ![c] = Idle]
  /\ NoSetback
  /\ UNCHANGED row

Finish(c) ==
  /\ call[c].at = "running"
  /\ call' = [call EXCEPT ![c] = Idle]
  /\ NoSetback
  /\ UNCHANGED row

-----------------------------------------------------------------------------
(* The owner, the clock, the process.                                      *)

(* Mutant: the UPDATE is not conditional on PENDING.                        *)
ApproveResolved(i) ==
  /\ row[i].status \in Resolved \cup {"PENDING"}
  /\ row' = [row EXCEPT ![i].status = "APPROVED", ![i].fresh = TRUE]
  /\ NoSetback
  /\ UNCHANGED call

(* approval_approve, by id and expected hash.  A stale id or a wrong hash   *)
(* is refused without effect.                                               *)
Approve(i) ==
  /\ row[i].status = "PENDING"
  /\ row' = [row EXCEPT ![i].status = "APPROVED", ![i].fresh = TRUE]
  /\ NoSetback
  /\ UNCHANGED call

Deny(i) ==
  /\ row[i].status = "PENDING"
  /\ row' = [row EXCEPT ![i].status = "DENIED"]
  /\ Setback
  /\ UNCHANGED call

(* Thirty minutes after the approval.  The row itself changes at the next   *)
(* consume or request of its operation.                                     *)
Lapse(i) ==
  /\ row[i].status = "APPROVED"
  /\ row[i].fresh
  /\ row' = [row EXCEPT ![i].fresh = FALSE]
  /\ Setback
  /\ UNCHANGED call

(* The process dies, also between a consumption and the spawn it was for.   *)
Crash ==
  /\ \E c \in Calls : call[c] # Idle
  /\ call' = [c \in Calls |-> Idle]
  /\ Setback
  /\ UNCHANGED row

-----------------------------------------------------------------------------

RunStep(c) ==
  \/ Begin(c)
  \/ \E i \in Ids : ConsumeHits(c, i) \/ Request(c, i)
  \/ AlreadyAsked(c)
  \/ Spawn(c)
  \/ PreflightDenies(c)
  \/ Finish(c)

ApprovalNext ==
  \/ \E c \in Calls : RunStep(c) \/ RequestFails(c)
  \/ \E i \in Ids : Approve(i) \/ Deny(i) \/ Lapse(i)
  \/ Crash

ApprovalSpec == ApprovalInit /\ [][ApprovalNext]_vars

(* A caller that tries again and an owner who decides in time.              *)
ApprovalFairSpec ==
  /\ ApprovalSpec
  /\ \A c \in Calls : WF_vars(RunStep(c))
  /\ \A i \in Ids : WF_vars(Approve(i))

-----------------------------------------------------------------------------
(* Correctness (SEC-POL-003).                                              *)

(* At most one live row per operation, which is what lets consume take      *)
(* "exactly one row changed" for "the owner approved this".                 *)
OneLive ==
  \A i, j \in Ids :
    /\ row[i].status \in Live
    /\ row[j].status \in Live
    /\ row[i].op = row[j].op
    => i = j

(* Whatever a command in progress has consumed is, gate by gate, a row of   *)
(* that very operation which is now CONSUMED; one that runs has them all.   *)
(* Nothing is consumed for a command with a denied operation, and one with  *)
(* a refused target never runs.                                             *)
Backed ==
  \A c \in Calls :
    /\ Len(call[c].spent) <= Len(Gates[c])
    /\ \A n \in DOMAIN call[c].spent :
         row[call[c].spent[n]].op = Gates[c][n] /\ row[call[c].spent[n]].status = "CONSUMED"
    /\ call[c].at # "idle" => c \notin Denied
    /\ call[c].at = "running" => Len(call[c].spent) = Len(Gates[c]) /\ c \notin OutOfHome

(* No row pays for two gates, of one command or of two.                     *)
SpentOnce ==
  \A c, d \in Calls : \A m \in DOMAIN call[c].spent, n \in DOMAIN call[d].spent :
    call[c].spent[m] = call[d].spent[n] => c = d /\ m = n

(* What the proofs use: these three need each other.                        *)
AInv == ApprovalTypeOK /\ OneLive /\ Backed /\ SpentOnce

(* A row is consumed only while it is approved and unexpired, whatever time *)
(* passes between the approval, the consumption and the spawn.              *)
ConsumedInTime ==
  [][ \A i \in Ids :
        row'[i].status = "CONSUMED" /\ row[i].status # "CONSUMED"
        => row[i].status = "APPROVED" /\ row[i].fresh ]_vars

(* The ledger: a grant exists only between the owner's approval and its     *)
(* single use, expiry or denial.                                            *)
LiveRow(k, s) == \E i \in Ids : row[i].op = k /\ row[i].status = s /\ (s = "APPROVED" => row[i].fresh)

Ledger == INSTANCE ApprovalLedger WITH
            grant <- [k \in Ops |-> IF LiveRow(k, "APPROVED") THEN "granted"
                                    ELSE IF LiveRow(k, "PENDING") THEN "asked" ELSE "none"],
            paid  <- [c \in Calls |-> SubSeq(Gates[c], 1, Len(call[c].spent))]

LedgerSpec == Ledger!LedgerSpec

(* A command the policy lets run, attempted again and again while the owner *)
(* approves what it asks for, runs in the end.                              *)
ApprovedCommandRuns ==
  \A c \in Calls \ (Denied \cup OutOfHome) : <>(call[c].at = "running")

=============================================================================
