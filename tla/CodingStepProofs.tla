-------------------------- MODULE CodingStepProofs --------------------------
(***************************************************************************)
(* Theorems about the coding rendezvous, for any tasks, any number of      *)
(* files, crashes, second agents and refused transitions.  CInv is         *)
(* inductive; NoOrphan is too, as long as no terminal transition is        *)
(* refused by the store.                                                   *)
(***************************************************************************)
EXTENDS CodingStep, TLAPS

LEMMA InitCInv == CodingInit => CInv
BY CodingAssumption
   DEF CodingInit, CInv, CodingTypeOK, AnswersInOrder, Located, Phases, Live, Terminal, MODIFY

(* The row a stop writes, and no other row.                                 *)
LEMMA EndedRow ==
  ASSUME CInv, NEW t \in Tasks, entry[t] # 0, NEW s \in Terminal
  PROVE  /\ Ended(t, s) \in [Phases -> Live \cup Terminal \cup {"NONE"}]
         /\ entry[t] \in Phases
         /\ \A n \in Phases \ {entry[t]} : Ended(t, s)[n] = step[t][n]
         /\ Ended(t, s)[entry[t]] = IF step[t][entry[t]] \in Live THEN s ELSE step[t][entry[t]]
BY DEF CInv, CodingTypeOK, Ended, Live, Terminal

LEMMA RequestStep ==
  ASSUME CInv, NEW t \in Tasks, Request(t)
  PROVE  CInv'
<1>1. CodingTypeOK'
  BY DEF CInv, CodingTypeOK, Request, NoFault, Live
<1>2. /\ next[t] \in Phases
      /\ step'[t][next[t]] = "PENDING"
      /\ \A n \in Phases \ {next[t]} : step'[t][n] = step[t][n]
      /\ \A u \in Tasks \ {t} : step'[u] = step[u]
  BY DEF CInv, CodingTypeOK, Request
<1>3. AnswersInOrder'
  BY <1>1, <1>2 DEF CInv, CodingTypeOK, AnswersInOrder, Request, Terminal, Phases, MODIFY
<1>4. Located'
  BY <1>1, <1>2, CodingAssumption DEF CInv, CodingTypeOK, Located, Request, Bound, Phases
<1>. QED
  BY <1>1, <1>3, <1>4 DEF CInv

LEMMA ClaimStep ==
  ASSUME CInv, NEW t \in Tasks, Claim(t)
  PROVE  CInv'
<1>1. CodingTypeOK'
  BY DEF CInv, CodingTypeOK, Claim, Pending, NoFault, Live
<1>2. /\ entry[t] = next[t] /\ next[t] \in Phases
      /\ step[t][next[t]] = "PENDING"
      /\ step'[t][next[t]] = "APPLYING"
      /\ \A n \in Phases \ {next[t]} : step'[t][n] = step[t][n]
      /\ \A u \in Tasks \ {t} : step'[u] = step[u]
  BY DEF CInv, CodingTypeOK, Located, Claim, Pending
<1>3. AnswersInOrder'
  BY <1>1, <1>2 DEF CInv, CodingTypeOK, AnswersInOrder, Claim, Terminal, Phases, MODIFY
<1>4. Located'
  BY <1>1, <1>2, CodingAssumption DEF CInv, CodingTypeOK, Located, Claim, Pending, Phases
<1>. QED
  BY <1>1, <1>3, <1>4 DEF CInv

LEMMA CheckStep ==
  ASSUME CInv, NEW t \in Tasks, Check(t) \/ MutationThrows(t)
  PROVE  CInv'
<1>1. CodingTypeOK'
  BY CodingAssumption DEF CInv, CodingTypeOK, Check, MutationThrows, Fault, NoFault
<1>2. AnswersInOrder'
  BY DEF CInv, AnswersInOrder, Check, MutationThrows
<1>3. Located'
  <2>1. busy = t /\ t # NoTask /\ turn' # "none" /\ UNCHANGED <<entry, next, runner, step, busy, writes, agent>>
    BY CodingAssumption DEF Check, MutationThrows
  <2>2. turn' = "write" => Unwritten(t)
    BY DEF Check, MutationThrows
  <2>3. turn' = "finish" => ~Unwritten(t)
    BY DEF Check, MutationThrows
  <2>. QED
    BY <2>1, <2>2, <2>3 DEF CInv, Located, Unwritten
<1>. QED
  BY <1>1, <1>2, <1>3 DEF CInv

LEMMA WriteStep ==
  ASSUME CInv, NEW t \in Tasks, Write(t)
  PROVE  CInv'
<1>0. entry[t] = MODIFY /\ writes[t] < Patches
  BY DEF CInv, Located, Write, Unwritten
<1>1. CodingTypeOK'
  BY <1>0, CodingAssumption DEF CInv, CodingTypeOK, Write, PutFile, NoFault
<1>2. next[t] = MODIFY
  BY <1>0 DEF CInv, Located, MODIFY
<1>3. AnswersInOrder'
  BY <1>1, <1>2 DEF CInv, CodingTypeOK, AnswersInOrder, Write, PutFile, Phases, MODIFY
<1>4. Located'
  BY CodingAssumption DEF CInv, Located, Write, PutFile
<1>. QED
  BY <1>1, <1>3, <1>4 DEF CInv

LEMMA AcceptStep ==
  ASSUME CInv, NEW t \in Tasks, Accept(t)
  PROVE  CInv'
<1>0. busy = t /\ entry[t] # 0 /\ ~Unwritten(t)
  BY DEF CInv, Located, Accept
<1>1. /\ entry[t] = next[t] /\ next[t] \in Phases
      /\ step[t][next[t]] = "APPLYING"
      /\ step'[t][next[t]] = "SUCCEEDED"
      /\ next'[t] = next[t] + 1
      /\ \A n \in Phases \ {next[t]} : step'[t][n] = step[t][n]
      /\ \A u \in Tasks \ {t} : step'[u] = step[u] /\ next'[u] = next[u]
  BY <1>0 DEF CInv, CodingTypeOK, Located, Accept, HandOver
<1>2. CodingTypeOK'
  BY <1>1 DEF CInv, CodingTypeOK, Accept, HandOver, NoFault, Terminal, Phases
<1>3. next[t] = MODIFY => writes[t] = Patches
  <2>1. writes[t] \in 0..Patches
    BY DEF CInv, CodingTypeOK
  <2>. QED
    BY <1>0, <1>1, <2>1, CodingAssumption DEF Unwritten
<1>4. AnswersInOrder'
  <2>. SUFFICES ASSUME NEW u \in Tasks
                PROVE  /\ \A n \in Phases : n < next'[u] <=> step'[u][n] = "SUCCEEDED"
                       /\ \A n \in Phases : n > next'[u] => step'[u][n] = "NONE"
                       /\ next'[u] \in Phases /\ step'[u][next'[u]] \in Terminal => runner'[u] # "ready"
                       /\ next'[u] = 4 => writes'[u] = Patches
                       /\ next'[u] < MODIFY => writes'[u] = 0
    BY DEF AnswersInOrder
  <2>1. CASE u = t
    BY <1>1, <1>2, <1>3, <2>1
       DEF CInv, CodingTypeOK, AnswersInOrder, Accept, HandOver, Phases, Terminal, MODIFY
  <2>2. CASE u # t
    BY <1>1, <2>2 DEF CInv, CodingTypeOK, AnswersInOrder, Accept, HandOver
  <2>. QED
    BY <2>1, <2>2
<1>5. Located'
  <2>1. busy' = NoTask /\ turn' = "none" /\ agent' = agent
    BY DEF Accept, HandOver
  <2>2. ASSUME NEW u \in Tasks
        PROVE  /\ entry'[u] # 0 => entry'[u] = next'[u] /\ runner'[u] = "waiting" /\ agent = "up"
               /\ next'[u] \in Phases /\ step'[u][next'[u]] # "NONE" => runner'[u] # "ready"
    <3>1. CASE u = t
      BY <1>1, <1>2, <3>1, CodingAssumption
         DEF CInv, CodingTypeOK, AnswersInOrder, Located, Accept, HandOver, Phases
    <3>2. CASE u # t
      BY <1>1, <3>2, CodingAssumption DEF CInv, CodingTypeOK, Located, Accept, HandOver
    <3>. QED
      BY <3>1, <3>2
  <2>. QED
    BY <2>1, <2>2, CodingAssumption DEF Located
<1>. QED
  BY <1>2, <1>4, <1>5 DEF CInv

(* A question that ends badly, whoever ends it.                             *)
LEMMA StopStep ==
  ASSUME CInv, NEW t \in Tasks, entry[t] # 0, Stop(t),
         (busy' = NoTask /\ turn' = "none") \/ (busy' = busy /\ turn' = turn /\ busy # t),
         faults' \in 0..MaxFaults, storeFaults' \in 0..MaxStoreFaults
  PROVE  CInv'
<1>1. /\ entry[t] = next[t] /\ next[t] \in Phases
      /\ \A n \in Phases \ {next[t]} : step'[t][n] = step[t][n]
      /\ step'[t][next[t]] = IF step[t][next[t]] \in Live THEN "FAILED" ELSE step[t][next[t]]
      /\ step'[t] \in [Phases -> Live \cup Terminal \cup {"NONE"}]
      /\ \A u \in Tasks \ {t} : step'[u] = step[u]
  BY EndedRow DEF CInv, CodingTypeOK, Located, Stop, Terminal
<1>2. CodingTypeOK'
  BY <1>1 DEF CInv, CodingTypeOK, Stop
<1>3. AnswersInOrder'
  BY <1>1, <1>2 DEF CInv, CodingTypeOK, AnswersInOrder, Stop, Live, Phases, MODIFY
<1>4. Located'
  BY <1>1, <1>2, CodingAssumption DEF CInv, CodingTypeOK, Located, Stop, Unwritten
<1>. QED
  BY <1>2, <1>3, <1>4 DEF CInv

LEMMA StopThrowsStep ==
  ASSUME CInv, NEW t \in Tasks, StopThrows(t),
         (busy' = NoTask /\ turn' = "none") \/ (busy' = busy /\ turn' = turn /\ busy # t)
  PROVE  CInv'
<1>1. CodingTypeOK'
  BY CodingAssumption DEF CInv, CodingTypeOK, StopThrows
<1>2. AnswersInOrder'
  BY DEF CInv, AnswersInOrder, StopThrows
<1>3. Located'
  BY CodingAssumption DEF CInv, CodingTypeOK, Located, StopThrows, Unwritten
<1>. QED
  BY <1>1, <1>2, <1>3 DEF CInv

(* Every live row becomes INTERRUPTED, and nothing else about the rows.     *)
LEMMA InterruptedRow ==
  ASSUME CInv, NEW t \in Tasks
  PROVE  /\ InterruptedRows(t) \in [Phases -> Live \cup Terminal \cup {"NONE"}]
         /\ \A n \in Phases :
              /\ InterruptedRows(t)[n] \notin Live
              /\ InterruptedRows(t)[n] = "NONE" <=> step[t][n] = "NONE"
              /\ InterruptedRows(t)[n] = "SUCCEEDED" <=> step[t][n] = "SUCCEEDED"
              /\ step[t][n] \notin Live => InterruptedRows(t)[n] = step[t][n]
BY DEF CInv, CodingTypeOK, InterruptedRows, Live, Terminal

LEMMA InterruptStep ==
  ASSUME CInv,
         step' = [t \in Tasks |-> InterruptedRows(t)],
         faults' \in 0..MaxFaults, storeFaults' \in 0..MaxStoreFaults,
         agent' \in {"up", agent},
         UNCHANGED <<entry, fresh, runner, next, writes, late, busy, turn, owned>>
  PROVE  CInv'
<1>1. CodingTypeOK'
  BY InterruptedRow DEF CInv, CodingTypeOK
<1>2. AnswersInOrder'
  <2>. SUFFICES ASSUME NEW u \in Tasks
                PROVE  /\ \A n \in Phases : n < next[u] <=> step'[u][n] = "SUCCEEDED"
                       /\ \A n \in Phases : n > next[u] => step'[u][n] = "NONE"
                       /\ next[u] \in Phases /\ step'[u][next[u]] \in Terminal => runner[u] # "ready"
                       /\ next[u] = 4 => writes[u] = Patches
                       /\ next[u] < MODIFY => writes[u] = 0
    BY DEF AnswersInOrder
  <2>1. step'[u] = InterruptedRows(u)
    OBVIOUS
  <2>2. \A n \in Phases : step'[u][n] \in Terminal => step[u][n] # "NONE"
    BY <2>1, InterruptedRow DEF Terminal
  <2>. QED
    BY <2>1, <2>2, InterruptedRow DEF CInv, AnswersInOrder, Located
<1>3. Located'
  BY InterruptedRow DEF CInv, Located, Unwritten
<1>. QED
  BY <1>1, <1>2, <1>3 DEF CInv

LEMMA CloseStep ==
  ASSUME CInv, Close
  PROVE  CInv'
<1>1. \A t \in Tasks : entry[t] # 0 =>
        /\ entry[t] = next[t] /\ next[t] \in Phases
        /\ \A n \in Phases \ {next[t]} : step'[t][n] = step[t][n]
        /\ step'[t][next[t]] = IF step[t][next[t]] \in Live THEN "INTERRUPTED" ELSE step[t][next[t]]
        /\ step'[t] \in [Phases -> Live \cup Terminal \cup {"NONE"}]
  BY EndedRow DEF CInv, CodingTypeOK, Located, Close, Terminal
<1>2. \A t \in Tasks : entry[t] = 0 => step'[t] = step[t]
  BY DEF Close
<1>3. CodingTypeOK'
  BY <1>1, <1>2 DEF CInv, CodingTypeOK, Close, NoFault
<1>4. AnswersInOrder'
  <2>. SUFFICES ASSUME NEW u \in Tasks
                PROVE  /\ \A n \in Phases : n < next[u] <=> step'[u][n] = "SUCCEEDED"
                       /\ \A n \in Phases : n > next[u] => step'[u][n] = "NONE"
                       /\ next[u] \in Phases /\ step'[u][next[u]] \in Terminal => runner'[u] # "ready"
                       /\ next[u] = 4 => writes[u] = Patches
                       /\ next[u] < MODIFY => writes[u] = 0
    BY DEF AnswersInOrder, Close
  <2>1. CASE entry[u] = 0
    BY <1>2, <2>1 DEF CInv, AnswersInOrder, Close
  <2>2. CASE entry[u] # 0
    BY <1>1, <2>2 DEF CInv, CodingTypeOK, AnswersInOrder, Close, Phases, Live
  <2>. QED
    BY <2>1, <2>2
<1>5. Located'
  BY <1>1, <1>2, CodingAssumption DEF CInv, CodingTypeOK, Located, Close
<1>. QED
  BY <1>3, <1>4, <1>5 DEF CInv

LEMMA CrashStep ==
  ASSUME CInv, Crash
  PROVE  CInv'
<1>1. CodingTypeOK'
  BY CodingAssumption DEF CInv, CodingTypeOK, Crash, Fault
<1>2. AnswersInOrder'
  BY DEF CInv, CodingTypeOK, AnswersInOrder, Crash
<1>3. Located'
  BY CodingAssumption DEF CInv, CodingTypeOK, Located, Crash
<1>. QED
  BY <1>1, <1>2, <1>3 DEF CInv

LEMMA QuietStep ==
  ASSUME CInv, NEW t \in Tasks, RequestRefused(t) \/ Expire(t) \/ LoseLease(t)
  PROVE  CInv'
<1>1. CodingTypeOK'
  BY DEF CInv, CodingTypeOK, RequestRefused, Expire, LoseLease, NoFault
<1>2. AnswersInOrder'
  BY DEF CInv, CodingTypeOK, AnswersInOrder, RequestRefused, Expire, LoseLease
<1>3. Located'
  BY DEF CInv, CodingTypeOK, Located, RequestRefused, Expire, LoseLease, Unwritten
<1>. QED
  BY <1>1, <1>2, <1>3 DEF CInv

LEMMA EndingStep ==
  ASSUME CInv, NEW t \in Tasks, MutationFails(t) \/ ControllerFails(t) \/ Timeout(t)
  PROVE  CInv'
<1>1. entry[t] # 0
  BY DEF CInv, Located, MutationFails, ControllerFails, Timeout, Pending
<1>2. (busy' = NoTask /\ turn' = "none") \/ (busy' = busy /\ turn' = turn /\ busy # t)
  BY CodingAssumption DEF MutationFails, ControllerFails, Timeout
<1>3. CASE StopThrows(t)
  BY <1>2, <1>3, StopThrowsStep
<1>4. CASE Stop(t) /\ faults' \in 0..MaxFaults /\ storeFaults' \in 0..MaxStoreFaults
  BY <1>1, <1>2, <1>4, StopStep
<1>. QED
  BY <1>3, <1>4, CodingAssumption
     DEF MutationFails, ControllerFails, Timeout, NoFault, Fault, CInv, CodingTypeOK

LEMMA NextCInv == CInv /\ [CodingNext]_vars => CInv'
<1>. SUFFICES ASSUME CInv, [CodingNext]_vars PROVE CInv'
  OBVIOUS
<1>1. ASSUME NEW t \in Tasks,
             Ask(t) \/ Answer(t) \/ Turn(t) \/ Timeout(t) \/ Expire(t) \/ LoseLease(t)
      PROVE  CInv'
  BY <1>1, RequestStep, ClaimStep, CheckStep, WriteStep, AcceptStep, EndingStep, QuietStep DEF Ask, Answer, Turn
<1>2. CASE Restart
  BY <1>2, InterruptStep DEF Restart, NoFault, CInv, CodingTypeOK
<1>3. CASE SecondAgent
  BY <1>3, InterruptStep, CodingAssumption DEF SecondAgent, Fault, CInv, CodingTypeOK
<1>4. CASE UNCHANGED vars
  BY <1>4 DEF vars, CInv, CodingTypeOK, AnswersInOrder, Located, Unwritten
<1>. QED
  BY <1>1, <1>2, <1>3, <1>4, CloseStep, CrashStep DEF CodingNext

(* The inductive invariant of the rendezvous.                               *)
THEOREM CodingInvariant == CodingSpec => []CInv
<1>. QED
  BY InitCInv, NextCInv, PTL DEF CodingSpec

(* ExternalCodingCapability: a run gets past instructions, analysis and     *)
(* modification only by answers that were applied in full.                  *)
THEOREM CompleteAnswers == CodingSpec => []AnswersInOrder
<1>1. CInv => AnswersInOrder
  BY DEF CInv
<1>. QED
  BY <1>1, CodingInvariant, PTL

-----------------------------------------------------------------------------

(* A lapsed claim does not come back: neither the row, nor the lease, nor   *)
(* the time that is left.                                                   *)
LEMMA LapsedStays ==
  ASSUME CInv, NEW t \in Tasks, busy = t, ~Pending(t, "APPLYING"),
         Check(t) \/ MutationThrows(t) \/ (\E u \in Tasks : Expire(u) \/ LoseLease(u))
           \/ SecondAgent
  PROVE  /\ turn = "check" => turn' \in {"check", "catch"}
         /\ turn = "catch" => turn' = "catch"
         /\ busy' = t /\ late' = late /\ ~Pending(t, "APPLYING")'
<1>1. entry' = entry /\ agent' = agent /\ busy' = busy /\ late' = late
  BY DEF Check, MutationThrows, Expire, LoseLease, SecondAgent
<1>2. turn' = turn \/ (MutationThrows(t) /\ turn' = "catch" /\ turn # "catch")
  BY DEF Check, MutationThrows, Expire, LoseLease, SecondAgent
<1>3. /\ owned'[t] => owned[t]
      /\ fresh'[t] => fresh[t]
  BY DEF Check, MutationThrows, Expire, LoseLease, SecondAgent, CInv, CodingTypeOK
<1>4. entry[t] \in Phases
  BY DEF CInv, CodingTypeOK, Located
<1>5. step'[t][entry[t]] = "APPLYING" => step[t][entry[t]] = "APPLYING"
  <2>1. CASE SecondAgent
    BY <2>1, <1>4, InterruptedRow DEF SecondAgent, Live
  <2>2. CASE ~SecondAgent
    BY <2>2 DEF Check, MutationThrows, Expire, LoseLease
  <2>. QED
    BY <2>1, <2>2
<1>. QED
  BY <1>1, <1>2, <1>3, <1>5 DEF Pending, Bound

LEMMA LapsedStep == CInv /\ LateWriteIsLast /\ Lapsed /\ [CodingNext]_vars => (LateWriteIsLast /\ Lapsed)'
<1>. SUFFICES ASSUME CInv, LateWriteIsLast, Lapsed, [CodingNext]_vars
              PROVE  LateWriteIsLast' /\ Lapsed'
  OBVIOUS
<1>0. CInv'
  BY NextCInv
<1>1. ASSUME NEW t \in Tasks, NEW u \in Tasks, Write(u), late'[t] > 0
      PROVE  /\ late'[t] = 1
             /\ next'[t] = MODIFY
             /\ step'[t][MODIFY] # "SUCCEEDED"
             /\ \/ busy' = t /\ turn' \in {"check", "catch"} /\ ~Pending(t, "APPLYING")'
                \/ entry'[t] = 0 /\ runner'[t] # "ready"
  <2>1. busy = u /\ turn = "write" /\ turn' = "check"
        /\ UNCHANGED <<step, entry, fresh, runner, next, busy, owned, agent>>
    BY <1>1 DEF Write
  <2>2. entry[u] = MODIFY /\ next[u] = MODIFY
    BY <2>1 DEF CInv, Located, Unwritten
  <2>3. late[u] = 0
    BY <2>1, <2>2 DEF Lapsed, CInv, CodingTypeOK, MODIFY
  <2>4. CASE u = t
    <3>1. ~Pending(t, "APPLYING") /\ late'[t] = 1
      BY <1>1, <2>3, <2>4 DEF Write, PutFile, CInv, CodingTypeOK
    <3>2. ~Pending(t, "APPLYING")'
      BY <2>1, <3>1 DEF Pending, Bound
    <3>3. step[t][MODIFY] # "SUCCEEDED"
      BY <2>2, <2>4 DEF CInv, AnswersInOrder, Phases, MODIFY
    <3>. QED
      BY <2>1, <2>2, <2>4, <3>1, <3>2, <3>3
  <2>5. CASE u # t
    BY <1>1, <2>1, <2>5 DEF Write, PutFile, LateWriteIsLast, Lapsed, CInv, CodingTypeOK
  <2>. QED
    BY <2>4, <2>5
<1>2. ASSUME ~(\E u \in Tasks : Write(u)), NEW t \in Tasks, late'[t] > 0
      PROVE  /\ late'[t] = 1
             /\ next'[t] = MODIFY
             /\ step'[t][MODIFY] # "SUCCEEDED"
             /\ \/ busy' = t /\ turn' \in {"check", "catch"} /\ ~Pending(t, "APPLYING")'
                \/ entry'[t] = 0 /\ runner'[t] # "ready"
  <2>1. late' = late
    BY <1>2 DEF CodingNext, Ask, Request, RequestRefused, Answer, Claim, ControllerFails, Turn, Check,
       Accept, HandOver, MutationThrows, MutationFails, Stop, StopThrows, Timeout, Expire, LoseLease,
       Close, Crash, Restart, SecondAgent, vars
  <2>2. late[t] = 1 /\ next[t] = MODIFY /\ step[t][MODIFY] # "SUCCEEDED"
    BY <1>2, <2>1 DEF LateWriteIsLast
  <2>3. \/ busy = t /\ turn \in {"check", "catch"} /\ ~Pending(t, "APPLYING")
        \/ entry[t] = 0 /\ runner[t] # "ready"
    BY <1>2, <2>1 DEF Lapsed
  <2>4. next'[t] = MODIFY
    <3>1. ASSUME NEW u \in Tasks, Accept(u) PROVE next'[t] = next[t]
      <4>1. u # t
        BY <2>3, <3>1 DEF Accept, CInv, Located
      <4>. QED
        BY <3>1, <4>1 DEF Accept, HandOver, CInv, CodingTypeOK
    <3>2. ASSUME ~(\E u \in Tasks : Accept(u)) PROVE next' = next
      BY <1>2, <3>2 DEF CodingNext, Ask, Request, RequestRefused, Answer, Claim, ControllerFails, Turn,
         Check, MutationThrows, MutationFails, Stop, StopThrows, Timeout, Expire, LoseLease,
         Close, Crash, Restart, SecondAgent, vars
    <3>. QED
      BY <2>2, <3>1, <3>2
  <2>5. step'[t][MODIFY] # "SUCCEEDED"
    BY <1>0, <2>4 DEF CInv, AnswersInOrder, Phases, MODIFY
  <2>6. \/ busy' = t /\ turn' \in {"check", "catch"} /\ ~Pending(t, "APPLYING")'
        \/ entry'[t] = 0 /\ runner'[t] # "ready"
    <3>1. CASE busy = t /\ turn \in {"check", "catch"} /\ ~Pending(t, "APPLYING")
      <4>1. t # NoTask
        BY CodingAssumption
      <4>0. entry[t] # 0 /\ runner[t] = "waiting" /\ agent = "up"
        BY <3>1 DEF CInv, Located
      <4>2. CASE Check(t) \/ MutationThrows(t) \/ (\E u \in Tasks : Expire(u) \/ LoseLease(u)) \/ SecondAgent
        BY <3>1, <4>2, LapsedStays
      <4>3. CASE MutationFails(t)
        BY <4>3, <4>0 DEF MutationFails, Stop, StopThrows, CInv, CodingTypeOK
      <4>4. CASE Crash
        BY <4>4, <4>0 DEF Crash
      <4>5. CASE UNCHANGED vars
        BY <3>1, <4>5 DEF vars, Pending, Bound
      <4>6. ASSUME NEW u \in Tasks, RequestRefused(u) \/ Request(u) \/ Claim(u) \/ ControllerFails(u)
                     \/ Timeout(u) \/ Accept(u)
            PROVE  FALSE
        BY <3>1, <4>1, <4>6 DEF RequestRefused, Request, Claim, ControllerFails, Timeout, Accept
      <4>7. ASSUME NEW u \in Tasks, u # t, Check(u) \/ MutationThrows(u) \/ MutationFails(u) PROVE FALSE
        BY <3>1, <4>7 DEF Check, MutationThrows, MutationFails
      <4>8. ~Close /\ ~Restart
        BY <3>1, <4>0, <4>1 DEF Close, Restart
      <4>. QED
        BY <1>2, <4>2, <4>3, <4>4, <4>5, <4>6, <4>7, <4>8 DEF CodingNext, Ask, Answer, Turn
    <3>2. CASE entry[t] = 0 /\ runner[t] # "ready"
      <4>1. ASSUME NEW u \in Tasks, Request(u) PROVE entry'[t] = 0 /\ runner'[t] # "ready"
        BY <3>2, <4>1 DEF Request, CInv, CodingTypeOK
      <4>2. ASSUME NEW u \in Tasks, RequestRefused(u) PROVE entry'[t] = 0 /\ runner'[t] # "ready"
        BY <3>2, <4>2 DEF RequestRefused, CInv, CodingTypeOK
      <4>3. ASSUME NEW u \in Tasks, Accept(u) PROVE entry'[t] = 0 /\ runner'[t] # "ready"
        BY <3>2, <4>3 DEF Accept, HandOver, CInv, CodingTypeOK, Located
      <4>4. ASSUME NEW u \in Tasks, MutationFails(u) \/ ControllerFails(u) \/ Timeout(u)
            PROVE  entry'[t] = 0 /\ runner'[t] # "ready"
        BY <3>2, <4>4 DEF MutationFails, ControllerFails, Timeout, Stop, StopThrows, CInv, CodingTypeOK
      <4>5. ASSUME NEW u \in Tasks,
                   Claim(u) \/ Check(u) \/ MutationThrows(u) \/ Expire(u) \/ LoseLease(u)
            PROVE  entry' = entry /\ runner' = runner
        BY <4>5 DEF Claim, Check, MutationThrows, Expire, LoseLease
      <4>6. CASE Close \/ Crash \/ Restart \/ SecondAgent \/ UNCHANGED vars
        BY <3>2, <4>6 DEF Close, Crash, Restart, SecondAgent, vars
      <4>. QED
        BY <1>2, <3>2, <4>1, <4>2, <4>3, <4>4, <4>5, <4>6 DEF CodingNext, Ask, Answer, Turn
    <3>. QED
      BY <2>3, <3>1, <3>2
  <2>. QED
    BY <2>1, <2>2, <2>4, <2>5, <2>6
<1>. QED
  BY <1>1, <1>2 DEF LateWriteIsLast, Lapsed

(* beforeWrite and writeText are two calls: when the claim lapses between   *)
(* them, one file is written late, no other follows, and the modification   *)
(* is never handed over.                                                    *)
THEOREM LateWrites == CodingSpec => []LateWriteIsLast
<1>1. CodingInit => LateWriteIsLast /\ Lapsed
  BY DEF CodingInit, LateWriteIsLast, Lapsed
<1>. QED
  BY <1>1, LapsedStep, CodingInvariant, PTL DEF CodingSpec

(* The compare-and-set of claim and finish: a late or repeated answer, a    *)
(* late timer and a new process leave a terminal row as it is.              *)
THEOREM TerminalRowsStay == CodingSpec => TerminalForEver
<1>1. CInv /\ [CodingNext]_vars =>
        [ \A t \in Tasks, n \in Phases : step[t][n] \in Terminal => step'[t][n] = step[t][n] ]_vars
  <2>. SUFFICES ASSUME CInv, [CodingNext]_vars, NEW t \in Tasks, NEW n \in Phases,
                       step[t][n] \in Terminal
                PROVE  step'[t][n] = step[t][n]
    OBVIOUS
  <2>1. step[t][n] \notin Live /\ step[t][n] # "NONE"
    BY DEF Live, Terminal
  <2>2. ASSUME NEW u \in Tasks, Request(u) PROVE step'[t][n] = step[t][n]
    BY <2>1, <2>2 DEF Request, CInv, CodingTypeOK, Located
  <2>3. ASSUME NEW u \in Tasks, Claim(u) \/ Accept(u) PROVE step'[t][n] = step[t][n]
    BY <2>1, <2>3 DEF Claim, Accept, HandOver, Pending, Live, CInv, CodingTypeOK
  <2>4. ASSUME NEW u \in Tasks, MutationFails(u) \/ ControllerFails(u) \/ Timeout(u)
        PROVE  step'[t][n] = step[t][n]
    <3>1. entry[u] # 0
      BY <2>4 DEF CInv, Located, MutationFails, ControllerFails, Timeout, Pending
    <3>2. Ended(u, "FAILED")[n] = step[u][n] \/ u # t
      BY <2>1, <3>1, EndedRow DEF Terminal
    <3>. QED
      BY <2>4, <3>2 DEF MutationFails, ControllerFails, Timeout, Stop, StopThrows, CInv, CodingTypeOK
  <2>5. CASE Close
    BY <2>1, <2>5, EndedRow DEF Close, Terminal
  <2>6. CASE Restart \/ SecondAgent
    BY <2>1, <2>6, InterruptedRow DEF Restart, SecondAgent
  <2>7. \A u \in Tasks :
          RequestRefused(u) \/ Check(u) \/ Write(u) \/ MutationThrows(u) \/ Expire(u) \/ LoseLease(u)
            => step' = step
    BY DEF RequestRefused, Check, Write, MutationThrows, Expire, LoseLease
  <2>. QED
    BY <2>2, <2>3, <2>4, <2>5, <2>6, <2>7 DEF CodingNext, Ask, Answer, Turn, Crash, vars
<1>. QED
  BY <1>1, CodingInvariant, PTL DEF CodingSpec, TerminalForEver

(* A refused transition is never forgotten.                                 *)
LEMMA OneStoreFault == CInv /\ [CodingNext]_vars /\ storeFaults' = 0 => storeFaults = 0
<1>. SUFFICES ASSUME CInv, [CodingNext]_vars, storeFaults' = 0 PROVE storeFaults = 0
  OBVIOUS
<1>1. storeFaults \in Nat
  BY CodingAssumption DEF CInv, CodingTypeOK
<1>2. \A u \in Tasks : MutationFails(u) \/ ControllerFails(u) \/ Timeout(u) =>
        storeFaults' = storeFaults \/ storeFaults' = storeFaults + 1
  BY DEF MutationFails, ControllerFails, Timeout, StopThrows, NoFault
<1>3. CASE \E u \in Tasks : \/ Ask(u) \/ Claim(u) \/ Check(u) \/ Write(u) \/ Accept(u)
                            \/ MutationThrows(u) \/ Expire(u) \/ LoseLease(u)
  BY <1>3 DEF Ask, Request, RequestRefused, Claim, Check, Write, Accept, HandOver, MutationThrows,
              Expire, LoseLease, NoFault
<1>4. CASE Close \/ Crash \/ Restart \/ SecondAgent \/ UNCHANGED vars
  BY <1>4 DEF Close, Crash, Restart, SecondAgent, NoFault, vars
<1>. QED
  BY <1>1, <1>2, <1>3, <1>4 DEF CodingNext, Answer, Turn

(* The pending map, the durable rows and the awaiting runs agree, as long   *)
(* as SQLite takes every terminal transition: nobody waits without an entry *)
(* (and so without a timer) and no row blocks the task's next question.     *)
THEOREM NoOrphans == CodingSpec => []NoOrphan
<1>1. CodingInit => NoOrphan
  <2>. SUFFICES ASSUME CodingInit, NEW t \in Tasks
                PROVE  /\ runner[t] = "waiting" <=> entry[t] # 0
                       /\ agent # "down" => \A n \in Phases : step[t][n] \in Live => entry[t] = n
                       /\ agent # "up" => entry[t] = 0
    BY DEF NoOrphan, Agreement
  <2>1. runner[t] = "ready" /\ entry[t] = 0 /\ agent = "up"
    BY DEF CodingInit
  <2>2. \A n \in Phases : step[t][n] = "NONE"
    BY DEF CodingInit
  <2>. QED
    BY <2>1, <2>2 DEF Live
<1>2. CInv /\ NoOrphan /\ [CodingNext]_vars => NoOrphan'
  <2>. SUFFICES ASSUME CInv, NoOrphan, [CodingNext]_vars, storeFaults' = 0 PROVE Agreement'
    BY DEF NoOrphan
  <2>0. storeFaults = 0
    BY OneStoreFault DEF NoOrphan
  <2>1. \A u \in Tasks : ~StopThrows(u)
    BY <2>0 DEF StopThrows
  <2>. Agreement
    BY <2>0 DEF NoOrphan
  <2>2. ASSUME NEW u \in Tasks, Request(u) PROVE Agreement'
    BY <2>2 DEF Request, Bound, HasLiveRow, Agreement, CInv, CodingTypeOK, Phases
  <2>3. ASSUME NEW u \in Tasks, Claim(u) PROVE Agreement'
    BY <2>3 DEF Claim, Pending, Agreement, CInv, CodingTypeOK, Live
  <2>4. ASSUME NEW u \in Tasks, Accept(u) PROVE Agreement'
    <3>1. entry[u] \in Phases
      BY <2>4 DEF Accept, CInv, CodingTypeOK, Located
    <3>2. /\ entry' = [entry EXCEPT ![u] = 0] /\ agent' = agent
          /\ step' = [step EXCEPT ![u][entry[u]] = "SUCCEEDED"]
          /\ runner' = [runner EXCEPT ![u] = "ready"]
      BY <2>4 DEF Accept, HandOver
    <3>. QED
      BY <3>1, <3>2 DEF Agreement, CInv, CodingTypeOK, Live
  <2>5. ASSUME NEW u \in Tasks, Stop(u), entry[u] # 0 PROVE Agreement'
    <3>1. \A n \in Phases : step'[u][n] \notin Live
      BY <2>5, EndedRow DEF Stop, Agreement, CInv, CodingTypeOK, Terminal, Live
    <3>2. \A t \in Tasks \ {u} : step'[t] = step[t] /\ entry'[t] = entry[t] /\ runner'[t] = runner[t]
      BY <2>5 DEF Stop, CInv, CodingTypeOK
    <3>3. entry'[u] = 0 /\ runner'[u] = "failed" /\ agent' = agent
      BY <2>5 DEF Stop, CInv, CodingTypeOK
    <3>. QED
      BY <3>1, <3>2, <3>3 DEF Agreement
  <2>6. ASSUME NEW u \in Tasks, MutationFails(u) \/ ControllerFails(u) \/ Timeout(u)
        PROVE  Stop(u) /\ entry[u] # 0
    BY <2>1, <2>6 DEF CInv, Located, MutationFails, ControllerFails, Timeout, Pending
  <2>7. CASE Close
    <3>1. ASSUME NEW t \in Tasks, NEW n \in Phases, entry[t] = 0 PROVE step'[t][n] \notin Live
      <4>1. step'[t] = step[t] /\ agent = "up" /\ n # 0
        BY <2>7, <3>1 DEF Close, Phases
      <4>. QED
        BY <3>1, <4>1 DEF Agreement
    <3>2. ASSUME NEW t \in Tasks, NEW n \in Phases, entry[t] # 0 PROVE step'[t][n] \notin Live
      <4>1. step'[t] = Ended(t, "INTERRUPTED") /\ agent = "up"
        BY <2>7, <3>2 DEF Close
      <4>2. CASE n = entry[t]
        BY <3>2, <4>1, <4>2, EndedRow DEF Terminal, Live
      <4>3. CASE n # entry[t]
        BY <3>2, <4>1, <4>3, EndedRow DEF Terminal, Agreement
      <4>. QED
        BY <4>2, <4>3
    <3>3. \A t \in Tasks : runner'[t] = "waiting" <=> FALSE
      BY <2>7 DEF Close, Agreement
    <3>4. \A t \in Tasks : entry'[t] = 0
      BY <2>7 DEF Close
    <3>. QED
      BY <3>1, <3>2, <3>3, <3>4 DEF Agreement
  <2>8. CASE Restart \/ SecondAgent
    BY <2>8, InterruptedRow DEF Restart, SecondAgent, Agreement
  <2>9. CASE Crash
    BY <2>9 DEF Crash, Agreement, CInv, CodingTypeOK
  <2>10. ASSUME NEW u \in Tasks, \/ RequestRefused(u) \/ Check(u) \/ Write(u) \/ MutationThrows(u)
                                \/ Expire(u) \/ LoseLease(u)
         PROVE  Agreement'
    BY <2>10 DEF RequestRefused, Check, Write, MutationThrows, Expire, LoseLease, Agreement, CInv,
                 CodingTypeOK
  <2>. QED
    BY <2>2, <2>3, <2>4, <2>5, <2>6, <2>7, <2>8, <2>9, <2>10
       DEF CodingNext, Ask, Answer, Turn, vars, Agreement
<1>. QED
  BY <1>1, <1>2, CodingInvariant, PTL DEF CodingSpec

=============================================================================
