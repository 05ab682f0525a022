----------------------------- MODULE CodingStep -----------------------------
(***************************************************************************)
(* The coding rendezvous: ExternalCodingCapability and                     *)
(* CodingStepRepository.                                                   *)
(*                                                                         *)
(* The run of a task asks the external controller three questions in order *)
(* (instructions, analysis, modification).  Each is a durable row and a    *)
(* live entry with a timer; an answer is validated, claims the row and is  *)
(* applied file by file in one turn of the event loop.  Inside a turn no   *)
(* other callback of this process runs, but between any two of its calls,  *)
(* an assertion and the write it allows among them, the clock goes on, the *)
(* lease may go, another agent may start on the same database and the      *)
(* process may die.                                                        *)
(***************************************************************************)
EXTENDS Naturals

CONSTANTS
  Tasks,
  NoTask,
  Patches,        \* files of a modification
  MaxFaults,      \* bound on crashes, calls of a turn that throw and second agents
  MaxStoreFaults  \* bound on terminal transitions that SQLite refuses

ASSUME CodingAssumption ==
  /\ NoTask \notin Tasks
  /\ Patches \in Nat \ {0}
  /\ MaxFaults \in Nat
  /\ MaxStoreFaults \in Nat

Phases == 1..3          \* INSTRUCTIONS, ANALYZE, MODIFY
MODIFY == 3
Live     == { "PENDING", "APPLYING" }
Terminal == { "SUCCEEDED", "FAILED", "INTERRUPTED" }

VARIABLES
  step,    \* coding_steps: the state of each phase's row, or "NONE"
  entry,   \* the capability's pending map: the phase a task waits in, or 0
  fresh,   \* expires_at of that entry is in the future
  runner,  \* the awaiting run
  next,    \* the phase the run asks for next; 4 when coding is done
  writes,  \* files of the modification that were written
  late,    \* of these, the files written when the claim did not stand any more
  busy,    \* the task whose answer is being applied in this turn
  turn,    \* the call that comes next in this turn
  owned,   \* RUNNING, with its workspace and a lease of this process
  agent,
  faults,
  storeFaults

vars == <<step, entry, fresh, runner, next, writes, late, busy, turn, owned, agent, faults, storeFaults>>

CodingTypeOK ==
  /\ step \in [Tasks -> [Phases -> Live \cup Terminal \cup {"NONE"}]]
  /\ entry \in [Tasks -> Phases \cup {0}]
  /\ fresh \in [Tasks -> BOOLEAN]
  /\ runner \in [Tasks -> {"ready", "waiting", "failed", "dead"}]
  /\ next \in [Tasks -> 1..4]
  /\ writes \in [Tasks -> 0..Patches]
  /\ late \in [Tasks -> Nat]
  /\ busy \in Tasks \cup {NoTask}
  /\ turn \in {"none", "check", "write", "finish", "catch"}
  /\ owned \in [Tasks -> BOOLEAN]
  /\ agent \in {"up", "closed", "down"}
  /\ faults \in 0..MaxFaults
  /\ storeFaults \in 0..MaxStoreFaults

CodingInit ==
  /\ step = [t \in Tasks |-> [n \in Phases |-> "NONE"]]
  /\ entry = [t \in Tasks |-> 0]
  /\ fresh = [t \in Tasks |-> FALSE]
  /\ runner = [t \in Tasks |-> "ready"]
  /\ next = [t \in Tasks |-> 1]
  /\ writes = [t \in Tasks |-> 0]
  /\ late = [t \in Tasks |-> 0]
  /\ busy = NoTask
  /\ turn = "none"
  /\ owned = [t \in Tasks |-> TRUE]
  /\ agent = "up"
  /\ faults = 0
  /\ storeFaults = 0

Fault   == faults < MaxFaults /\ faults' = faults + 1
NoFault == faults' = faults /\ storeFaults' = storeFaults

(* binding: the capability is open and the task, workspace and lease hold.  *)
Bound(t) == agent = "up" /\ owned[t]

(* assertPending, for the entry the task waits in.                          *)
Pending(t, s) ==
  /\ entry[t] # 0
  /\ step[t][entry[t]] = s
  /\ Bound(t)
  /\ fresh[t]

HasLiveRow(t) == \E n \in Phases : step[t][n] \in Live
InterruptedRows(t) == [n \in Phases |-> IF step[t][n] \in Live THEN "INTERRUPTED" ELSE step[t][n]]

-----------------------------------------------------------------------------
(* The run asks.                                                           *)

Request(t) ==
  /\ busy = NoTask
  /\ runner[t] = "ready"
  /\ next[t] \in Phases
  /\ Bound(t)
  /\ entry[t] = 0
  /\ ~HasLiveRow(t)
  /\ step' = [step EXCEPT ![t][next[t]] = "PENDING"]
  /\ entry' = [entry EXCEPT ![t] = next[t]]
  /\ fresh' = [fresh EXCEPT ![t] = TRUE]
  /\ runner' = [runner EXCEPT ![t] = "waiting"]
  /\ NoFault
  /\ UNCHANGED <<next, writes, late, busy, turn, owned, agent>>

(* binding throws, an entry is pending, or the index of live rows rejects.  *)
RequestRefused(t) ==
  /\ busy = NoTask
  /\ agent # "down"
  /\ runner[t] = "ready"
  /\ next[t] \in Phases
  /\ ~Bound(t) \/ entry[t] # 0 \/ HasLiveRow(t)
  /\ runner' = [runner EXCEPT ![t] = "failed"]
  /\ NoFault
  /\ UNCHANGED <<step, entry, fresh, next, writes, late, busy, turn, owned, agent>>

-----------------------------------------------------------------------------
(* The controller answers.  A submission that fails its validation changes *)
(* nothing and leaves the step pending.                                    *)

Claim(t) ==
  /\ busy = NoTask
  /\ Pending(t, "PENDING")
  /\ step' = [step EXCEPT ![t][entry[t]] = "APPLYING"]
  /\ busy' = t
  /\ turn' = "check"
  /\ NoFault
  /\ UNCHANGED <<entry, fresh, runner, next, writes, late, owned, agent>>

Unwritten(t) == entry[t] = MODIFY /\ writes[t] < Patches

(* beforeWrite, or the last assertion when no file is left.                 *)
Check(t) ==
  /\ busy = t
  /\ turn = "check"
  /\ Pending(t, "APPLYING")
  /\ turn' = IF Unwritten(t) THEN "write" ELSE "finish"
  /\ NoFault
  /\ UNCHANGED <<step, entry, fresh, runner, next, writes, late, busy, owned, agent>>

(* The next file, whatever has become of the claim since it was asserted.   *)
PutFile(t) ==
  /\ writes' = [writes EXCEPT ![t] = @ + 1]
  /\ late' = [late EXCEPT ![t] = IF Pending(t, "APPLYING") THEN @ ELSE @ + 1]

(* Mutant: the claim is asserted before the first file only.                *)
WriteWithoutAsking(t) ==
  /\ busy = t
  /\ turn = "write"
  /\ PutFile(t)
  /\ turn' = IF writes[t] + 1 < Patches THEN "write" ELSE "check"
  /\ NoFault
  /\ UNCHANGED <<step, entry, fresh, runner, next, busy, owned, agent>>

Write(t) ==
  /\ busy = t
  /\ turn = "write"
  /\ PutFile(t)
  /\ turn' = "check"
  /\ NoFault
  /\ UNCHANGED <<step, entry, fresh, runner, next, busy, owned, agent>>

(* The result is handed over; finish only asks for the state of the row.    *)
HandOver(t) ==
  /\ step[t][entry[t]] = "APPLYING"
  /\ step' = [step EXCEPT ![t][entry[t]] = "SUCCEEDED"]
  /\ entry' = [entry EXCEPT ![t] = 0]
  /\ runner' = [runner EXCEPT ![t] = "ready"]
  /\ next' = [next EXCEPT ![t] = @ + 1]
  /\ busy' = NoTask
  /\ turn' = "none"
  /\ NoFault
  /\ UNCHANGED <<fresh, writes, late, owned, agent>>

(* Mutant: the result is handed over before every file is written.          *)
AcceptEarly(t) ==
  /\ busy = t
  /\ turn \in {"write", "finish"}
  /\ HandOver(t)

Accept(t) ==
  /\ busy = t
  /\ turn = "finish"
  /\ HandOver(t)

(* stop: the entry goes, a live row becomes s, the run is rejected.         *)
Ended(t, s) == [step[t] EXCEPT ![entry[t]] = IF @ \in Live THEN s ELSE @]

(* Mutant: the row is finished whatever its state, so that finish throws on *)
(* an interrupted one and the run is never rejected.                        *)
StopAnyRow(t) ==
  /\ step[t][entry[t]] \in Live
  /\ step' = [step EXCEPT ![t] = Ended(t, "FAILED")]
  /\ entry' = [entry EXCEPT ![t] = 0]
  /\ runner' = [runner EXCEPT ![t] = "failed"]
  /\ UNCHANGED <<fresh, next, writes, late, owned, agent>>

Stop(t) ==
  /\ step' = [step EXCEPT ![t] = Ended(t, "FAILED")]
  /\ entry' = [entry EXCEPT ![t] = 0]
  /\ runner' = [runner EXCEPT ![t] = "failed"]
  /\ UNCHANGED <<fresh, next, writes, late, owned, agent>>

(* The same when the terminal transition throws, because SQLite refuses it  *)
(* or another agent took the row since it was read: the entry is gone and   *)
(* reject is never reached.                                                 *)
StopThrows(t) ==
  /\ step[t][entry[t]] \in Live
  /\ storeFaults < MaxStoreFaults
  /\ storeFaults' = storeFaults + 1
  /\ entry' = [entry EXCEPT ![t] = 0]
  /\ UNCHANGED <<step, runner, fresh, next, writes, late, owned, agent, faults>>

(* The assertion throws, finish finds the row taken, a file cannot be       *)
(* written, the database is busy.                                           *)
MutationThrows(t) ==
  /\ busy = t
  /\ turn \in {"check", "write", "finish"}
  /\ \/ turn = "check" /\ ~Pending(t, "APPLYING") /\ NoFault
     \/ turn = "finish" /\ step[t][entry[t]] # "APPLYING" /\ NoFault
     \/ Fault /\ UNCHANGED storeFaults
  /\ turn' = "catch"
  /\ UNCHANGED <<step, entry, fresh, runner, next, writes, late, busy, owned, agent>>

(* Its handler.                                                             *)
MutationFails(t) ==
  /\ busy = t
  /\ turn = "catch"
  /\ (Stop(t) /\ NoFault) \/ StopThrows(t)
  /\ busy' = NoTask
  /\ turn' = "none"

(* coding_step_fail.                                                        *)
ControllerFails(t) ==
  /\ busy = NoTask
  /\ Pending(t, "PENDING")
  /\ (Stop(t) /\ NoFault) \/ StopThrows(t)
  /\ UNCHANGED <<busy, turn>>

(* The timer.  A transition refused here is an uncaught exception: Crash.   *)
Timeout(t) ==
  /\ busy = NoTask
  /\ agent # "down"
  /\ entry[t] # 0
  /\ ~fresh[t]
  /\ Stop(t)
  /\ NoFault
  /\ UNCHANGED <<busy, turn>>

-----------------------------------------------------------------------------
(* Around the turns.                                                       *)

Expire(t) ==
  /\ entry[t] # 0
  /\ fresh[t]
  /\ fresh' = [fresh EXCEPT ![t] = FALSE]
  /\ NoFault
  /\ UNCHANGED <<step, entry, runner, next, writes, late, busy, turn, owned, agent>>

(* A failed heartbeat, an expired or replaced lease, a changed status.      *)
LoseLease(t) ==
  /\ owned[t]
  /\ owned' = [owned EXCEPT ![t] = FALSE]
  /\ NoFault
  /\ UNCHANGED <<step, entry, fresh, runner, next, writes, late, busy, turn, agent>>

(* close of the capability, first thing of the shutdown.                    *)
Close ==
  /\ busy = NoTask
  /\ agent = "up"
  /\ agent' = "closed"
  /\ step' = [t \in Tasks |-> IF entry[t] = 0 THEN step[t] ELSE Ended(t, "INTERRUPTED")]
  /\ entry' = [t \in Tasks |-> 0]
  /\ runner' = [t \in Tasks |-> IF entry[t] = 0 THEN runner[t] ELSE "failed"]
  /\ NoFault
  /\ UNCHANGED <<fresh, next, writes, late, busy, turn, owned>>

Crash ==
  /\ agent # "down"
  /\ agent' = "down"
  /\ entry' = [t \in Tasks |-> 0]
  /\ runner' = [t \in Tasks |-> IF runner[t] = "waiting" \/ (runner[t] = "ready" /\ next[t] > 1)
                                THEN "dead" ELSE runner[t]]
  /\ busy' = NoTask
  /\ turn' = "none"
  /\ Fault
  /\ UNCHANGED <<step, fresh, next, writes, late, owned, storeFaults>>

(* Mutant: the new process leaves the rows of the dead one alone.           *)
RestartKeepsRows ==
  /\ agent = "down"
  /\ agent' = "up"
  /\ NoFault
  /\ UNCHANGED <<step, entry, fresh, runner, next, writes, late, busy, turn, owned>>

(* The constructor: interruptPending.  Runs are not resumed.                *)
Restart ==
  /\ agent = "down"
  /\ agent' = "up"
  /\ step' = [t \in Tasks |-> InterruptedRows(t)]
  /\ NoFault
  /\ UNCHANGED <<entry, fresh, runner, next, writes, late, busy, turn, owned>>

(* Another process runs the same constructor on the same database.          *)
SecondAgent ==
  /\ \E t \in Tasks : HasLiveRow(t)
  /\ step' = [t \in Tasks |-> InterruptedRows(t)]
  /\ Fault
  /\ UNCHANGED <<entry, fresh, runner, next, writes, late, busy, turn, owned, agent, storeFaults>>

-----------------------------------------------------------------------------

(* What remains of a turn, and what a run and a timer do by themselves.     *)
Turn(t)   == Check(t) \/ Write(t) \/ Accept(t) \/ MutationThrows(t) \/ MutationFails(t)
Ask(t)    == Request(t) \/ RequestRefused(t)
Answer(t) == Claim(t) \/ ControllerFails(t)

CodingNext ==
  \/ \E t \in Tasks :
       Ask(t) \/ Answer(t) \/ Turn(t) \/ Timeout(t) \/ Expire(t) \/ LoseLease(t)
  \/ Close
  \/ Crash
  \/ Restart
  \/ SecondAgent

CodingSpec == CodingInit /\ [][CodingNext]_vars

(* Turns end, timers fire and runs go on; the controller need not answer.   *)
CodingFairSpec ==
  /\ CodingSpec
  /\ \A t \in Tasks :
       WF_vars(Ask(t)) /\ WF_vars(Turn(t)) /\ WF_vars(Expire(t)) /\ WF_vars(Timeout(t))

-----------------------------------------------------------------------------
(* Correctness.                                                            *)

(* The durable rows, the pending map and the awaiting runs of a living      *)
(* process agree: whoever waits has an entry, no row stays live without     *)
(* one (it would block the task's next question), a row of a closed or      *)
(* answered question is terminal.                                           *)
Agreement ==
  \A t \in Tasks :
    /\ runner[t] = "waiting" <=> entry[t] # 0
    /\ agent # "down" => \A n \in Phases : step[t][n] \in Live => entry[t] = n
    /\ agent # "up" => entry[t] = 0

(* They agree at all times, whoever answers, fails, expires, closes, dies   *)
(* or starts, as long as SQLite took every terminal transition of a step.   *)
NoOrphan == storeFaults = 0 => Agreement

(* The run gets past a question only with a row that SUCCEEDED, and past    *)
(* the modification only with every file written; a step that ended badly   *)
(* is the last of its run.                                                  *)
AnswersInOrder ==
  \A t \in Tasks :
    /\ \A n \in Phases : n < next[t] <=> step[t][n] = "SUCCEEDED"
    /\ \A n \in Phases : n > next[t] => step[t][n] = "NONE"
    /\ next[t] \in Phases /\ step[t][next[t]] \in Terminal => runner[t] # "ready"
    /\ next[t] = 4 => writes[t] = Patches
    /\ next[t] < MODIFY => writes[t] = 0

(* What the proofs add: an entry is the question the run is at, a run that  *)
(* is ready has not asked yet, a turn belongs to an entry, and its next     *)
(* call agrees with the files that are left.                                *)
Located ==
  /\ busy = NoTask <=> turn = "none"
  /\ \A t \in Tasks :
       /\ entry[t] # 0 => entry[t] = next[t] /\ runner[t] = "waiting" /\ agent = "up"
       /\ next[t] \in Phases /\ step[t][next[t]] # "NONE" => runner[t] # "ready"
       /\ busy = t => entry[t] # 0
       /\ busy = t /\ turn = "write" => Unwritten(t)
       /\ busy = t /\ turn = "finish" => ~Unwritten(t)

CInv == CodingTypeOK /\ AnswersInOrder /\ Located

(* beforeWrite asserts the claim before each file, and the claim may lapse  *)
(* between the assertion and the write: the lease goes, the step expires,   *)
(* another agent takes the row.  Then that one file is the last one, and    *)
(* the run never goes on as if the modification had been applied.           *)
LateWriteIsLast ==
  \A t \in Tasks :
    late[t] > 0 => /\ late[t] = 1
                   /\ next[t] = MODIFY
                   /\ step[t][MODIFY] # "SUCCEEDED"

(* What makes it inductive: after such a file the turn cannot pass another  *)
(* assertion, and when it has ended the run does not ask again.             *)
Lapsed ==
  \A t \in Tasks :
    late[t] > 0 => \/ busy = t /\ turn \in {"check", "catch"} /\ ~Pending(t, "APPLYING")
                   \/ entry[t] = 0 /\ runner[t] # "ready"

(* An answered, failed or interrupted step is never answered again, by a    *)
(* late or repeated submission, a timer or a new process.                   *)
TerminalForEver ==
  [][ \A t \in Tasks, n \in Phases : step[t][n] \in Terminal => step'[t][n] = step[t][n] ]_vars

(* Nobody waits for ever: an answer, the controller's failure, the timer,   *)
(* the shutdown or the end of the process settles every question, unless a  *)
(* terminal transition was refused: its waiter has no timer any more.       *)
RequestSettles ==
  \A t \in Tasks : runner[t] = "waiting" ~> runner[t] # "waiting" \/ storeFaults > 0

=============================================================================
