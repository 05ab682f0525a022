------------------------ MODULE OwnerWorkspaceProofs ------------------------
(***************************************************************************)
(* Theorems about the owner's workspace, for any paths, requests, numbers  *)
(* of operations and tasks, grants, outside writes and faults: what the    *)
(* journal says is what the disk shows, the owner consents to what is      *)
(* done, leases and writers exclude each other, a search chain is in one   *)
(* place, and a search that says it is complete is.                        *)
(***************************************************************************)
EXTENDS OwnerWorkspace, SearchCursors, SequenceTheorems, FiniteSetTheorems, TLAPS

RowStates == {"none", "OBSERVING", "PREPARED", "APPLIED", "DENIED", "UNRESOLVED"}
Rows == [state : RowStates, kind : {"READ", "MUTATION", None},
         volume : {"windows", "linux", None}, binding : AllRequests \cup {None},
         recovery : BOOLEAN]
Stages == {"idle", "opened", "asking", "asked", "live", "queued", "running", "done", "gone"}
Pcs == {"none", "started", "checked", "prepared", "reread", "swapped", "placed",
        "ok", "nochange", "unknown", "dead"}

NativeTypeOK ==
  /\ disk \in [Places -> Objects \cup {None}]
  /\ temp \in [Ops -> Objects \cup {None}]
  /\ worker \in [Ops -> [pc : Pcs, cmd : Commands \cup {None}]]
  /\ effect \in [Ops -> Effects \cup {None}]
  /\ outside \in Nat

CoreTypeOK ==
  /\ row \in [Ops -> Rows]
  /\ stage \in [Ops -> Stages]
  /\ seen \in [Ops -> Objects \cup {None}]
  /\ recovered \in [Ops -> Recoveries \cup {None}]
  /\ verified \in [Ops -> Bindings \cup {None}]
  /\ exported \subseteq Ops

RuntimeTypeOK ==
  /\ grants \subseteq Ops
  /\ queue \in Seq(Ops \cup Tasks)
  /\ lease \in [Tasks -> {"none", "waiting", "held"}]
  /\ phase \in {"up", "closing", "closed", "down"}
  /\ quarantined \in BOOLEAN
  /\ faults \in Nat

OwnerTypeOK == NativeTypeOK /\ CoreTypeOK /\ RuntimeTypeOK

(* The row of an operation says what was asked, and ends with its handler. *)
RowAt(o) ==
  /\ row[o].state = "none" <=> stage[o] = "idle"
  /\ row[o].state # "none" =>
       /\ Req(o) \in AllRequests
       /\ row[o].volume = Volume(Req(o).path)
       /\ row[o].kind = IF Req(o).kind \in Reads THEN "READ" ELSE "MUTATION"
  /\ row[o].state = "OBSERVING" => row[o].kind = "READ"
  /\ row[o].state \in Holding => row[o].kind = "MUTATION"
  /\ Busy(o) => row[o].state \in {"PREPARED", "OBSERVING"}

(* How far the process is against the handler and the row: a process       *)
(* belongs to a row that holds its volume until it cannot act any more.    *)
Dispatched(o) == stage[o] \in {"queued", "running"} \/ worker[o].pc # "none"

ProcessAt(o) ==
  /\ worker[o].pc # "none" => stage[o] \in {"running", "done", "gone"}
  /\ stage[o] = "running" => worker[o].pc # "none"
  /\ Dispatched(o) => row[o].kind = "MUTATION"
  /\ Live(o) => row[o].state \in Holding
  /\ Live(o) /\ ~Windows(o) => stage[o] = "running"
  /\ row[o].state = "DENIED" => worker[o].pc \in {"none", "nochange"}
  /\ row[o].state = "APPLIED" /\ row[o].kind = "MUTATION" => worker[o].pc = "ok"

(* The operation as its handler decided it.                                *)
Fits(o) == Acceptable(Req(o), seen[o])
Order(o) == Command(o, Req(o), seen[o])
AsksOwner(o) == NeedsOwner(Req(o), seen[o])
Policy(o) == {Req(o).path, Target(Req(o))} \subseteq Unattended

(* What the handler decided on: it is still acceptable, because a recovery *)
(* record is never rewritten.                                              *)
Looked(o) ==
  stage[o] \in {"asking", "asked", "live"} \/ Dispatched(o) \/ verified[o] # None

LookAt(o) ==
  /\ Looked(o) => /\ stage[o] \notin {"idle", "opened"}
                  /\ Fits(o) /\ Req(o).kind # "read"
                  /\ Req(o).kind = "mkdir" => seen[o] = None
                  /\ FromTrash(Req(o)) => seen[o] # None
  /\ recovered[o] # None =>
       /\ stage[o] \in {"queued", "running", "done", "gone"}
       /\ recovered[o].path = Req(o).path

(* The owner's consent, and the record of what will be overwritten.        *)
ConsentAt(o) ==
  /\ o \in grants => verified[o] # None
  /\ verified[o] # None => verified[o] = Binding(o)
  /\ Dispatched(o) /\ AsksOwner(o) => Policy(o) \/ verified[o] # None
  /\ o \in exported => /\ stage[o] \in {"done", "gone"}
                       /\ Policy(o) \/ verified[o] # None
  /\ Dispatched(o) /\ Order(o).op = "write" /\ Order(o).old # None
       => recovered[o] # None /\ recovered[o].object = Order(o).old

(* What the process has done so far.                                       *)
Clean(o) == effect[o] = None /\ temp[o] = None

Exact(o) ==
  LET c == worker[o].cmd IN
  /\ effect[o].taken = c.old
  /\ effect[o].put.bytes = CASE c.op = "write" -> c.bytes
                             [] c.op = "rename" -> c.old.bytes
                             [] c.op = "mkdir" -> Dir

Renaming(o) == worker[o].cmd.op = "rename" /\ ~Windows(o)

WorkAt(o) ==
  LET c == worker[o].cmd
      pc == worker[o].pc
  IN
  /\ pc # "none" => c = Order(o)
  /\ pc \in {"none", "started", "checked", "nochange"} => Clean(o)
  /\ pc \in {"checked", "prepared", "reread", "swapped", "placed"} => ~Windows(o)
  /\ pc \in {"prepared", "reread", "swapped"} => c.op = "write"
  /\ pc \in {"prepared", "reread"} => effect[o] = None /\ temp[o] = Object(o, c.bytes)
  /\ pc = "reread" => c.old # None
  /\ pc = "swapped" => effect[o] # None /\ effect[o].taken = temp[o]
  /\ pc \in {"swapped", "placed", "ok"} => effect[o] # None /\ effect[o].at = c.at
  /\ pc \in {"placed", "ok"} => Renaming(o) \/ Exact(o)
  /\ effect[o] # None =>
       /\ c.op = "write" => effect[o].put.bytes = c.bytes
       /\ \/ effect[o].taken \in {None, temp[o], effect[o].put}
          \/ c.op = "write" /\ effect[o].taken = c.old

OpInv(o) == RowAt(o) /\ ProcessAt(o) /\ LookAt(o) /\ ConsentAt(o) /\ WorkAt(o)

(* One unfinished mutation per volume; the head of the queue is the only   *)
(* operation a running handler has; and a POSIX rename can have moved      *)
(* something else than was expected only if another program wrote.         *)
OnePerVolume ==
  \A o, p \in Ops : Unfinished(o) /\ Unfinished(p) /\ row[o].volume = row[p].volume => o = p

HasTurn == \A o \in Ops : stage[o] = "running" => AtHead(o)

Noticed(o) ==
  LET c == worker[o].cmd IN
  /\ worker[o].pc = "checked" /\ Renaming(o) => disk[c.from] = c.old \/ outside > 0
  /\ worker[o].pc = "placed" /\ Renaming(o) =>
       Exact(o) \/ outside > 1 \/ (outside > 0 /\ disk[c.at] # c.old)
  /\ worker[o].pc = "ok" /\ Renaming(o) => Exact(o) \/ outside > 1

OwnerInv ==
  /\ OwnerTypeOK /\ (\A o \in Ops : OpInv(o))
  /\ OnePerVolume /\ HasTurn /\ LeaseExcludesWriters
  /\ \A o \in Ops : Noticed(o)
-----------------------------------------------------------------------------
(* Requests and commands.                                                  *)

LEMMA Values ==
  /\ None \notin Objects /\ None \notin Effects /\ None \notin Recoveries
  /\ None \notin Bindings /\ None \notin AllRequests
  /\ Ops \cap Paths = {} /\ Tasks \cap Ops = {}
BY NoneIsNoValue, SlotsAreNotPaths, TasksAreNotOps

LEMMA Wellformed ==
  ASSUME NEW q \in AllRequests
  PROVE  IsRequest(q) /\ q.path \in Paths /\ q.from \in Ops /\ Target(q) \in Paths
         /\ Volume(Target(q)) = Volume(q.path) /\ q.bytes \in Bytes
BY RequestsAreWellFormed DEF AllRequests, IsRequest, Target, Bytes

(* A recovery record is never rewritten.                                   *)
Kept == \A r \in Ops : recovered[r] # None => recovered'[r] = recovered[r]

(* What was accepted once stays what it was.                               *)
LEMMA Decided ==
  ASSUME NEW o \in Ops, NEW q \in AllRequests, NEW s, Acceptable(q, s), Kept,
         row'[o].binding = q, seen'[o] = s
  PROVE  /\ Fits(o)'
         /\ Order(o)' = Command(o, q, s)
         /\ AsksOwner(o)' <=> NeedsOwner(q, s)
         /\ Policy(o)' <=> {q.path, Target(q)} \subseteq Unattended
         /\ FromTrash(Req(o))' <=> FromTrash(q)
<1>. DEFINE r == IF q.kind = "restore" /\ recovered[q.from] # None
                    /\ recovered[q.from].path = q.path
                 THEN recovered[q.from] ELSE None
           r2 == IF q.kind = "restore" /\ recovered'[q.from] # None
                    /\ recovered'[q.from].path = q.path
                 THEN recovered'[q.from] ELSE None
<1>1. r = r2
  BY Wellformed DEF Kept, Acceptable, Record
<1>2. Fits(o)'
  BY <1>1 DEF Fits, Acceptable, FromTrash, Record, Req
<1>3. Order(o)' = Command(o, q, s)
  BY <1>1 DEF Order, Command, Proposed, Target, FromTrash, Record, Req
<1>4. AsksOwner(o)' <=> NeedsOwner(q, s)
  BY <1>1 DEF AsksOwner, NeedsOwner, Proposed, FromTrash, Record, Req
<1>5. FromTrash(Req(o))' <=> FromTrash(q)
  BY <1>1 DEF FromTrash, Record, Req
<1>6. Policy(o)' <=> {q.path, Target(q)} \subseteq Unattended
  BY DEF Policy, Target, Req
<1>. QED
  BY <1>2, <1>3, <1>4, <1>5, <1>6

LEMMA RecordType ==
  ASSUME CoreTypeOK, NEW q \in AllRequests, Record(q) # None
  PROVE  /\ Record(q) \in Recoveries /\ Record(q) = recovered[q.from]
         /\ Record(q).path = q.path /\ q.kind = "restore"
         /\ Record(q).object \in Objects /\ Record(q).object.bytes \in Bytes
<1>1. Record(q) = recovered[q.from] /\ recovered[q.from].path = q.path /\ q.kind = "restore"
  BY DEF Record
<1>2. Record(q) \in Recoveries
  BY <1>1, Wellformed DEF CoreTypeOK
<1>. QED
  BY <1>1, <1>2 DEF Recoveries, Objects

(* The command of an accepted mutation.                                    *)
LEMMA OrderType ==
  ASSUME CoreTypeOK, NEW o \in Ops, Req(o) \in AllRequests, Req(o).kind \notin Reads,
         Fits(o), Req(o).kind = "mkdir" => seen[o] = None,
         FromTrash(Req(o)) => seen[o] # None
  PROVE  /\ Order(o) \in Commands
         /\ Order(o).path = Req(o).path
         /\ Order(o).at \in {Target(Req(o)), o}
         /\ \/ Order(o).from = Req(o).path
            \/ Order(o).from = Req(o).from /\ FromTrash(Req(o))
         /\ Order(o).op = "rename" => Order(o).old = seen[o] /\ seen[o] # None
                                      /\ Order(o).bytes = None
         /\ Order(o).op = "mkdir" => Order(o).old = None /\ Order(o).bytes = None
         /\ Order(o).op = "write" => Order(o).bytes = Proposed(Req(o), seen[o])
         /\ Order(o).op = "write" => Req(o).kind \notin {"mkdir", "move", "trash"}
                                     /\ ~FromTrash(Req(o))
         /\ Order(o).op = "write" /\ Order(o).old # None =>
              Req(o).kind # "copy" /\ Order(o).old = seen[o]
<1>. DEFINE q == Req(o)
            s == seen[o]
<1>0. s \in Objects \cup {None} /\ (s # None => s.bytes \in Bytes) /\ None \in Bytes
  BY DEF CoreTypeOK, Objects, Bytes
<1>1. q.path \in Paths /\ q.from \in Ops /\ Target(q) \in Paths /\ q.bytes \in Bytes /\ IsRequest(q)
  BY Wellformed
<1>2. s = None => q.expected = None /\ q.kind # "read"
  BY DEF Fits, Acceptable
<1>3. q.kind \in {"copy", "move", "trash", "patch"} => s # None
  BY <1>1, <1>2 DEF IsRequest
<1>4. q.kind = "restore" => Record(q) # None /\ Record(q).object.bytes \in Bytes
  BY RecordType DEF Fits, Acceptable
<1>5. Proposed(q, s) \in Bytes
  <2>1. CASE q.kind = "copy"
    BY <2>1, <1>0, <1>3 DEF Proposed
  <2>2. CASE q.kind = "patch"
    BY <2>2, <1>0, <1>1, <1>3 DEF Proposed
  <2>3. CASE q.kind = "restore"
    BY <2>3, <1>4 DEF Proposed
  <2>4. CASE q.kind \notin {"copy", "patch", "restore"}
    BY <2>4, <1>1 DEF Proposed
  <2>. QED
    BY <2>1, <2>2, <2>3, <2>4
<1>6. FromTrash(q) => q.kind = "restore"
  BY DEF FromTrash, Record
<1>7. /\ Order(o).path = q.path
      /\ Order(o).from = IF FromTrash(q) THEN q.from ELSE q.path
      /\ Order(o).old = IF q.kind = "copy" THEN None ELSE s
      /\ Order(o).bytes = IF q.kind \in {"mkdir", "move", "trash"} \/ FromTrash(q) THEN None
                          ELSE Proposed(q, s)
      /\ Order(o) = [op |-> Order(o).op, path |-> Order(o).path, from |-> Order(o).from,
                     at |-> Order(o).at, old |-> Order(o).old, bytes |-> Order(o).bytes]
  BY DEF Order, Command
<1>8. Order(o).at = IF q.kind = "trash" THEN o ELSE Target(q)
  BY <1>6 DEF Order, Command
<1>9. /\ q.kind = "mkdir" => Order(o).op = "mkdir"
      /\ q.kind \in {"move", "trash"} \/ FromTrash(q) => Order(o).op = "rename"
      /\ q.kind \notin {"mkdir", "move", "trash"} /\ ~FromTrash(q) => Order(o).op = "write"
  BY <1>6 DEF Order, Command
<1>10. Order(o).op \in {"write", "rename", "mkdir"}
  BY <1>9
<1>11. Order(o) \in Commands
  BY <1>0, <1>1, <1>5, <1>7, <1>8, <1>10 DEF Commands, Places
<1>. QED
  BY <1>3, <1>6, <1>7, <1>8, <1>9, <1>11

-----------------------------------------------------------------------------
(* What a step leaves alone.                                               *)

(* Nothing of an operation changes; a grant of it may go.                  *)
SameOp(p) ==
  /\ row'[p] = row[p] /\ stage'[p] = stage[p] /\ seen'[p] = seen[p]
  /\ recovered'[p] = recovered[p] /\ verified'[p] = verified[p]
  /\ worker'[p] = worker[p] /\ temp'[p] = temp[p] /\ effect'[p] = effect[p]
  /\ (p \in grants' => p \in grants) /\ (p \in exported' <=> p \in exported)

LEMMA SameDecision ==
  ASSUME NEW o \in Ops, Req(o) \in AllRequests, Fits(o), Kept,
         row'[o].binding = row[o].binding, seen'[o] = seen[o]
  PROVE  /\ Fits(o)' /\ Order(o)' = Order(o) /\ Binding(o)' = Binding(o)
         /\ AsksOwner(o)' <=> AsksOwner(o)
         /\ Policy(o)' <=> Policy(o)
         /\ FromTrash(Req(o))' <=> FromTrash(Req(o))
<1>1. /\ Fits(o)' /\ Order(o)' = Order(o)
      /\ AsksOwner(o)' <=> AsksOwner(o)
      /\ Policy(o)' <=> Policy(o)
      /\ FromTrash(Req(o))' <=> FromTrash(Req(o))
  <2>. DEFINE q == Req(o)
              s == seen[o]
  <2>1. q \in AllRequests /\ Acceptable(q, s) /\ row'[o].binding = q /\ seen'[o] = s
    BY DEF Fits, Req
  <2>. QED
    BY <2>1, Decided DEF Order, AsksOwner, Policy
<1>2. Req(o)' = Req(o)
  BY DEF Req
<1>3. Binding(o) = [request |-> Req(o), old |-> seen[o],
                    new |-> IF Req(o).kind = "export" THEN None ELSE Order(o).bytes]
  BY DEF Binding, Order
<1>4. Binding(o)' = [request |-> Req(o)', old |-> seen'[o],
                     new |-> IF Req(o)'.kind = "export" THEN None ELSE Order(o)'.bytes]
  BY DEF Binding, Order
<1>. QED
  BY <1>1, <1>2, <1>3, <1>4

LEMMA Bystander ==
  ASSUME CoreTypeOK, NEW p \in Ops, OpInv(p), SameOp(p), Kept
  PROVE  OpInv(p)'
<1>1. /\ Req(p)' = Req(p) /\ (Live(p)' <=> Live(p)) /\ (Windows(p)' <=> Windows(p))
      /\ (Dispatched(p)' <=> Dispatched(p)) /\ (Looked(p)' <=> Looked(p))
      /\ (Busy(p)' <=> Busy(p))
  BY DEF SameOp, Req, Live, Windows, Dispatched, Looked, Busy
<1>2. RowAt(p)'
  BY <1>1 DEF SameOp, OpInv, RowAt
<1>3. ProcessAt(p)'
  BY <1>1 DEF SameOp, OpInv, ProcessAt
<1>4. Policy(p)' <=> Policy(p)
  BY <1>1 DEF Policy, Target
<1>5. Looked(p) => Req(p) \in AllRequests /\ Fits(p)
  BY DEF OpInv, RowAt, LookAt, Req
<1>6. Looked(p) => /\ Fits(p)' /\ Order(p)' = Order(p) /\ Binding(p)' = Binding(p)
                   /\ AsksOwner(p)' <=> AsksOwner(p)
                   /\ FromTrash(Req(p))' <=> FromTrash(Req(p))
  BY <1>5, SameDecision DEF SameOp, Req
<1>7. LookAt(p)'
  BY <1>1, <1>6 DEF SameOp, OpInv, LookAt
<1>8. ConsentAt(p)'
  BY <1>1, <1>4, <1>6 DEF SameOp, OpInv, ConsentAt, Looked
<1>9. WorkAt(p)'
  <2>1. worker[p].pc # "none" => Order(p)' = Order(p)
    BY <1>6 DEF Looked, Dispatched
  <2>2. (Exact(p)' <=> Exact(p)) /\ (Renaming(p)' <=> Renaming(p)) /\ (Clean(p)' <=> Clean(p))
    BY <1>1 DEF SameOp, Exact, Renaming, Clean
  <2>. QED
    BY <1>1, <2>1, <2>2 DEF SameOp, OpInv, WorkAt
<1>. QED
  BY <1>2, <1>3, <1>7, <1>8, <1>9 DEF OpInv

-----------------------------------------------------------------------------
(* The three ways on from a handler that has no process yet.               *)

Early == {"opened", "asking", "asked", "live", "queued"}

(* What a step of operation o alone gives: types, its own invariant, and   *)
(* nothing for the others.                                                 *)
Local(o) ==
  /\ CoreTypeOK' /\ OpInv(o)' /\ Kept
  /\ \A p \in Ops \ {o} : SameOp(p)

LEMMA NoProcess ==
  ASSUME NEW o \in Ops, OpInv(o), stage[o] \in Early \cup {"idle"}
  PROVE  worker[o].pc = "none" /\ Clean(o) /\ ~Live(o)
BY DEF OpInv, ProcessAt, WorkAt, Early, Live

LEMMA BusyRow ==
  ASSUME NEW o \in Ops, OpInv(o), stage[o] \in Early
  PROVE  /\ row[o].state \in {"PREPARED", "OBSERVING"} /\ Req(o) \in AllRequests
         /\ row[o].volume = Volume(Req(o).path)
         /\ row[o].kind = IF Req(o).kind \in Reads THEN "READ" ELSE "MUTATION"
BY DEF OpInv, RowAt, Busy, Early

LEMMA DenyStep ==
  ASSUME CoreTypeOK, NEW o \in Ops, OpInv(o), stage[o] \in Early, Deny(o),
         UNCHANGED <<worker, temp, effect>>, grants' \subseteq grants
  PROVE  Local(o)
<1>1. /\ row' = [row EXCEPT ![o].state = "DENIED"] /\ stage' = [stage EXCEPT ![o] = "done"]
      /\ UNCHANGED <<seen, recovered, verified, exported>>
  BY DEF Deny, End, FinishRow
<1>2. CoreTypeOK'
  BY <1>1 DEF CoreTypeOK, Rows, RowStates, Stages
<1>3. Kept /\ \A p \in Ops \ {o} : SameOp(p)
  BY <1>1 DEF CoreTypeOK, Kept, SameOp
<1>4. /\ row'[o].state = "DENIED" /\ stage'[o] = "done" /\ Req(o)' = Req(o)
      /\ row'[o].kind = row[o].kind /\ row'[o].volume = row[o].volume
      /\ row'[o].binding = row[o].binding
  BY <1>1 DEF CoreTypeOK, Rows, Req
<1>5. worker'[o].pc = "none" /\ Clean(o)' /\ ~Live(o)' /\ ~Dispatched(o)'
  BY <1>4, NoProcess DEF Clean, Live, Dispatched
<1>6. RowAt(o)'
  BY <1>4, BusyRow DEF RowAt, Busy, Holding
<1>7. ProcessAt(o)'
  BY <1>4, <1>5 DEF ProcessAt
<1>8. Looked(o)' => Looked(o) /\ verified[o] # None
  BY <1>1, <1>4, <1>5 DEF Looked
<1>9. Looked(o) => /\ Fits(o)' /\ Order(o)' = Order(o) /\ Binding(o)' = Binding(o)
                   /\ FromTrash(Req(o))' <=> FromTrash(Req(o))
  BY <1>1, <1>3, <1>4, BusyRow, SameDecision DEF OpInv, LookAt
<1>10. LookAt(o)'
  BY <1>1, <1>4, <1>8, <1>9 DEF OpInv, LookAt
<1>11. ConsentAt(o)'
  BY <1>1, <1>4, <1>5, <1>9 DEF OpInv, ConsentAt, Looked, Early
<1>12. WorkAt(o)'
  BY <1>5 DEF WorkAt, Clean
<1>. QED
  BY <1>2, <1>3, <1>6, <1>7, <1>10, <1>11, <1>12 DEF Local, OpInv

(* A read, an export or a reveal is answered.                              *)
LEMMA AnswerStep ==
  ASSUME CoreTypeOK, NEW o \in Ops, OpInv(o), stage[o] \in Early,
         Req(o).kind \in Reads, End(o, "APPLIED"),
         UNCHANGED <<worker, temp, effect, seen, recovered, verified>>, grants' \subseteq grants,
         \/ exported' = exported
         \/ exported' = exported \cup {o} /\ (Policy(o) \/ verified[o] # None)
  PROVE  Local(o)
<1>1. row' = [row EXCEPT ![o].state = "APPLIED"] /\ stage' = [stage EXCEPT ![o] = "done"]
  BY DEF End, FinishRow
<1>2. CoreTypeOK'
  BY <1>1 DEF CoreTypeOK, Rows, RowStates, Stages
<1>3. Kept /\ \A p \in Ops \ {o} : SameOp(p)
  BY <1>1 DEF CoreTypeOK, Kept, SameOp
<1>4. /\ row'[o].state = "APPLIED" /\ stage'[o] = "done" /\ Req(o)' = Req(o)
      /\ row'[o].kind = row[o].kind /\ row'[o].volume = row[o].volume
      /\ row'[o].binding = row[o].binding /\ row[o].kind = "READ"
      /\ (Policy(o)' <=> Policy(o))
  BY <1>1, BusyRow DEF CoreTypeOK, Rows, Req, Policy, Target
<1>5. worker'[o].pc = "none" /\ Clean(o)' /\ ~Live(o)' /\ ~Dispatched(o)'
  BY <1>4, NoProcess DEF Clean, Live, Dispatched
<1>6. RowAt(o)'
  BY <1>4, BusyRow DEF RowAt, Busy, Holding
<1>7. ProcessAt(o)'
  BY <1>4, <1>5 DEF ProcessAt
<1>8. Looked(o)' => Looked(o) /\ verified[o] # None
  BY <1>4, <1>5 DEF Looked
<1>9. Looked(o) => /\ Fits(o)' /\ Order(o)' = Order(o) /\ Binding(o)' = Binding(o)
                   /\ FromTrash(Req(o))' <=> FromTrash(Req(o))
  BY <1>3, <1>4, BusyRow, SameDecision DEF OpInv, LookAt
<1>10. LookAt(o)'
  BY <1>4, <1>8, <1>9 DEF OpInv, LookAt
<1>11. ConsentAt(o)'
  BY <1>4, <1>5, <1>9 DEF OpInv, ConsentAt, Looked, Early
<1>12. WorkAt(o)'
  BY <1>5 DEF WorkAt, Clean
<1>. QED
  BY <1>2, <1>3, <1>6, <1>7, <1>10, <1>11, <1>12 DEF Local, OpInv

(* The dispatch of what was accepted, or its last refusal.                 *)
LEMMA DispatchStep ==
  ASSUME CoreTypeOK, NEW o \in Ops, OpInv(o), stage[o] \in {"opened", "live"},
         Req(o).kind \notin Reads, NEW s \in Objects \cup {None}, Acceptable(Req(o), s),
         Req(o).kind = "mkdir" => s = None, FromTrash(Req(o)) => s # None,
         verified[o] # None => s = seen[o],
         NeedsOwner(Req(o), s) => Policy(o) \/ verified[o] # None,
         \/ Deny(o) /\ UNCHANGED queue
         \/ Dispatch(o, s),
         UNCHANGED <<worker, temp, effect>>, grants' \subseteq grants
  PROVE  Local(o) /\ queue' \in {queue, Append(queue, o)} /\ stage'[o] # "running"
<1>. DEFINE q == Req(o)
<1>0. stage[o] \in Early /\ o \notin exported
  BY DEF Early, OpInv, ConsentAt
<1>1. CASE Deny(o) /\ UNCHANGED queue
  <2>1. Local(o)
    BY <1>0, <1>1, DenyStep
  <2>2. stage'[o] = "done"
    BY <1>1 DEF Deny, End, CoreTypeOK
  <2>. QED
    BY <1>1, <2>1, <2>2
<1>2. CASE /\ queue' = Append(queue, o) /\ stage' = [stage EXCEPT ![o] = "queued"]
           /\ seen' = [seen EXCEPT ![o] = s] /\ UNCHANGED <<verified, exported>>
           /\ IF s # None /\ q.kind \notin {"copy", "move"} /\ ~FromTrash(q)
              THEN Capture(o, s) /\ AttachRow(o)
              ELSE UNCHANGED <<recovered, row>>
  <2>. DEFINE captures == s # None /\ q.kind \notin {"copy", "move"} /\ ~FromTrash(q)
              record == [path |-> q.path, object |-> s, trashed |-> q.kind = "trash"]
  <2>1. recovered[o] = None
    BY DEF OpInv, LookAt
  <2>2. /\ row[o].state \in {"PREPARED", "OBSERVING"} /\ q \in AllRequests
        /\ row[o].kind = "MUTATION" /\ q.path \in Paths
        /\ row[o].volume = Volume(q.path) /\ row[o].state = "PREPARED"
    BY <1>0, BusyRow, Wellformed DEF OpInv, RowAt
  <2>3. s # None => record \in Recoveries /\ record # None
    <3>1. ASSUME s # None PROVE record \in Recoveries
      <4>1. s \in Objects /\ q.path \in Paths /\ (q.kind = "trash") \in BOOLEAN
        BY <2>2, <3>1
      <4>. QED
        BY <4>1 DEF Recoveries
    <3>. QED
      BY <3>1, Values
  <2>4. /\ recovered' = IF captures THEN [recovered EXCEPT ![o] = record] ELSE recovered
        /\ row' = IF captures THEN [row EXCEPT ![o].recovery = TRUE] ELSE row
    BY <1>2 DEF Capture, AttachRow
  <2>5. CoreTypeOK'
    <3>1. row' \in [Ops -> Rows]
      BY <2>4 DEF CoreTypeOK, Rows
    <3>2. recovered' \in [Ops -> Recoveries \cup {None}]
      BY <2>3, <2>4 DEF CoreTypeOK
    <3>. QED
      BY <1>2, <3>1, <3>2 DEF CoreTypeOK, Stages
  <2>6. Kept
    BY <2>1, <2>4 DEF CoreTypeOK, Kept
  <2>7. \A p \in Ops \ {o} : SameOp(p)
    BY <1>2, <2>4 DEF CoreTypeOK, SameOp
  <2>8. /\ row'[o].state = "PREPARED" /\ Req(o)' = q /\ row'[o].kind = "MUTATION"
        /\ row'[o].volume = row[o].volume /\ row'[o].binding = q
        /\ stage'[o] = "queued" /\ seen'[o] = s
    BY <1>2, <2>2, <2>4 DEF CoreTypeOK, Rows, Req
  <2>9. worker'[o].pc = "none" /\ Clean(o)' /\ ~Live(o)' /\ Dispatched(o)'
    BY <1>0, <2>8, NoProcess DEF Clean, Live, Dispatched
  <2>10. /\ Fits(o)' /\ Order(o)' = Command(o, q, s)
         /\ AsksOwner(o)' <=> NeedsOwner(q, s)
         /\ Policy(o)' <=> Policy(o)
         /\ FromTrash(Req(o))' <=> FromTrash(q)
    BY <2>2, <2>6, <2>8, Decided DEF Policy
  <2>11. RowAt(o)'
    BY <2>2, <2>8 DEF RowAt, Busy, Holding
  <2>12. ProcessAt(o)'
    BY <2>8, <2>9 DEF ProcessAt
  <2>13. LookAt(o)'
    <3>1. recovered'[o] # None => recovered'[o].path = q.path
      BY <2>1, <2>4 DEF CoreTypeOK
    <3>. QED
      BY <1>2, <2>8, <2>10, <3>1 DEF OpInv, LookAt, Reads
  <2>14. ConsentAt(o)'
    <3>1. verified[o] # None => /\ q \in AllRequests /\ Fits(o) /\ seen'[o] = seen[o]
                                /\ row'[o].binding = row[o].binding
      BY <2>2, <2>8 DEF OpInv, LookAt, Looked, Req
    <3>2. verified[o] # None => Binding(o)' = Binding(o)
      BY <2>6, <3>1, SameDecision
    <3>3. (Order(o)' ).op = "write" /\ (Order(o)' ).old # None => captures /\ (Order(o)' ).old = s
      BY <2>10 DEF Command, FromTrash, Record
    <3>4. captures => recovered'[o] = record
      BY <2>4 DEF CoreTypeOK
    <3>5. o \notin exported'
      BY <1>0, <1>2
    <3>. QED
      BY <1>2, <2>3, <2>10, <3>2, <3>3, <3>4, <3>5 DEF OpInv, ConsentAt
  <2>15. WorkAt(o)'
    BY <2>9 DEF WorkAt, Clean
  <2>. QED
    BY <1>2, <2>5, <2>6, <2>7, <2>8, <2>11, <2>12, <2>13, <2>14, <2>15 DEF Local, OpInv
<1>. QED
  BY <1>1, <1>2 DEF Dispatch, Move

-----------------------------------------------------------------------------
(* The handler up to its place in the queue.                               *)

(* No operation begins to run, and only o may join the queue.              *)
Unhurried(o) ==
  /\ stage'[o] # "running" /\ \A p \in Ops \ {o} : stage'[p] = stage[p]
  /\ queue' = queue \/ (o \in Ops /\ queue' = Append(queue, o))

(* The owner is asked or the policy answers, and the handler goes on.      *)
LEMMA MoveStep ==
  ASSUME CoreTypeOK, NEW o \in Ops, OpInv(o), stage[o] \in {"asking", "asked"},
         NEW x \in {"asked", "live"}, Move(o, x),
         UNCHANGED <<row, seen, recovered, exported, worker, temp, effect>>,
         \/ verified' = verified /\ grants' = grants
         \/ verified' = [verified EXCEPT ![o] = Binding(o)] /\ grants' = grants \cup {o}
  PROVE  Local(o) /\ stage'[o] = x
<1>1. stage' = [stage EXCEPT ![o] = x] /\ stage[o] \in Early /\ Looked(o)
  BY DEF Move, Early, Looked
<1>2. /\ Req(o) \in AllRequests /\ row[o].state \in {"PREPARED", "OBSERVING"}
      /\ Req(o) = row[o].binding
  BY <1>1, BusyRow DEF Req
<1>3. Binding(o) \in Bindings /\ Binding(o) # None
  <2>1. Req(o).kind # "export" => Order(o).bytes \in Bytes
    <3>1. Req(o).kind \notin Reads => Order(o) \in Commands
      BY <1>1, <1>2, OrderType DEF OpInv, LookAt
    <3>2. Req(o).kind = "reveal" => Order(o).bytes = Req(o).bytes
      BY DEF Order, Command, Proposed, FromTrash, Record
    <3>3. Req(o).kind # "read"
      BY <1>1 DEF OpInv, LookAt
    <3>. QED
      BY <1>2, <3>1, <3>2, <3>3, Wellformed DEF Commands, Reads
  <2>2. Binding(o) = [request |-> Req(o), old |-> seen[o],
                      new |-> IF Req(o).kind = "export" THEN None ELSE Order(o).bytes]
    BY DEF Binding, Order
  <2>3. Binding(o) \in Bindings
    BY <1>2, <2>1, <2>2 DEF Bindings, CoreTypeOK, Bytes
  <2>. QED
    BY <2>3, Values
<1>4. CoreTypeOK'
  BY <1>1, <1>3 DEF CoreTypeOK, Stages
<1>5. Kept /\ \A p \in Ops \ {o} : SameOp(p)
  BY <1>1 DEF CoreTypeOK, Kept, SameOp
<1>6. stage'[o] = x /\ Req(o)' = Req(o)
  BY <1>1 DEF CoreTypeOK, Req
<1>7. worker'[o].pc = "none" /\ Clean(o)' /\ ~Live(o)' /\ ~Dispatched(o)'
  BY <1>1, <1>6, NoProcess DEF Clean, Live, Dispatched
<1>8. RowAt(o)'
  BY <1>2, <1>6 DEF OpInv, RowAt, Busy, Holding
<1>9. ProcessAt(o)'
  BY <1>2, <1>6, <1>7 DEF ProcessAt
<1>10. /\ Fits(o)' /\ Order(o)' = Order(o) /\ Binding(o)' = Binding(o)
       /\ FromTrash(Req(o))' <=> FromTrash(Req(o))
  BY <1>1, <1>2, <1>5, SameDecision DEF OpInv, LookAt
<1>11. LookAt(o)'
  BY <1>1, <1>6, <1>10 DEF OpInv, LookAt
<1>12. ConsentAt(o)'
  <2>1. verified'[o] \in {verified[o], Binding(o)} /\ (o \in grants' => verified'[o] # None)
    BY <1>3 DEF CoreTypeOK, OpInv, ConsentAt
  <2>2. o \notin exported'
    BY <1>1 DEF OpInv, ConsentAt, Early
  <2>. QED
    BY <1>7, <1>10, <2>1, <2>2 DEF OpInv, ConsentAt
<1>13. WorkAt(o)'
  BY <1>7 DEF WorkAt, Clean
<1>. QED
  BY <1>4, <1>5, <1>6, <1>8, <1>9, <1>11, <1>12, <1>13 DEF Local, OpInv

(* The first look: what it saw fits, and the owner or the policy is next.  *)
LEMMA LookStep ==
  ASSUME CoreTypeOK, NEW o \in Ops, OpInv(o), stage[o] = "opened",
         NEW s \in Objects \cup {None}, Acceptable(Req(o), s), Req(o).kind # "read",
         Req(o).kind = "mkdir" => s = None, FromTrash(Req(o)) => s # None,
         NEW x \in {"asking", "asked"}, Move(o, x), seen' = [seen EXCEPT ![o] = s],
         UNCHANGED <<row, recovered, verified, exported, worker, temp, effect, grants>>
  PROVE  Local(o) /\ stage'[o] = x
<1>1. /\ stage' = [stage EXCEPT ![o] = x] /\ stage[o] \in Early
      /\ verified[o] = None /\ recovered[o] = None /\ o \notin grants /\ o \notin exported
  BY DEF Move, Early, OpInv, LookAt, ConsentAt, Looked
<1>2. /\ Req(o) \in AllRequests /\ row[o].state \in {"PREPARED", "OBSERVING"}
      /\ Req(o) = row[o].binding
  BY <1>1, BusyRow DEF Req
<1>3. CoreTypeOK'
  BY <1>1 DEF CoreTypeOK, Stages
<1>4. Kept /\ \A p \in Ops \ {o} : SameOp(p)
  BY <1>1 DEF CoreTypeOK, Kept, SameOp
<1>5. stage'[o] = x /\ seen'[o] = s /\ Req(o)' = Req(o)
  BY <1>1 DEF CoreTypeOK, Req
<1>6. worker'[o].pc = "none" /\ Clean(o)' /\ ~Live(o)' /\ ~Dispatched(o)'
  BY <1>1, <1>5, NoProcess DEF Clean, Live, Dispatched
<1>7. RowAt(o)'
  BY <1>2, <1>5 DEF OpInv, RowAt, Busy, Holding
<1>8. ProcessAt(o)'
  BY <1>2, <1>5, <1>6 DEF ProcessAt
<1>9. Fits(o)' /\ (FromTrash(Req(o))' <=> FromTrash(Req(o)))
  BY <1>2, <1>4, <1>5, Decided
<1>10. LookAt(o)'
  BY <1>1, <1>5, <1>9 DEF LookAt
<1>11. ConsentAt(o)'
  BY <1>1, <1>6 DEF ConsentAt
<1>12. WorkAt(o)'
  BY <1>6 DEF WorkAt, Clean
<1>. QED
  BY <1>3, <1>4, <1>5, <1>7, <1>8, <1>10, <1>11, <1>12 DEF Local, OpInv

LEMMA Screening ==
  ASSUME NEW q, NEW s
  PROVE  /\ q.kind \in {"trash", "export"} => NeedsOwner(q, s)
         /\ q.kind = "move" \/ FromTrash(q) =>
              (NeedsOwner(q, s) <=> s.bytes \in Sensitive \cup {Dir})
         /\ q.kind \notin {"read", "reveal", "mkdir", "trash", "export", "move"} /\ ~FromTrash(q) =>
              (NeedsOwner(q, s) <=> \/ s # None /\ s.bytes \in Sensitive
                                    \/ Proposed(q, s) \in Sensitive)
<1>1. FromTrash(q) => q.kind = "restore"
  BY DEF FromTrash, Record
<1>2. CASE q.kind \in {"trash", "export"}
  <2>1. q.kind \notin {"read", "reveal", "mkdir"} /\ q.kind # "move" /\ ~FromTrash(q)
    BY <1>1, <1>2
  <2>. QED
    BY <1>2, <2>1, Zenon DEF NeedsOwner
<1>3. CASE q.kind = "move" \/ FromTrash(q)
  <2>1. q.kind \notin {"read", "reveal", "mkdir"} /\ q.kind \notin {"trash", "export"}
    BY <1>1, <1>3
  <2>. QED
    BY <1>3, <2>1, Zenon DEF NeedsOwner
<1>4. CASE q.kind \notin {"read", "reveal", "mkdir", "trash", "export", "move"} /\ ~FromTrash(q)
  <2>1. /\ q.kind \notin {"read", "reveal", "mkdir"} /\ q.kind \notin {"trash", "export"}
        /\ ~(q.kind = "move" \/ FromTrash(q))
    BY <1>4
  <2>. QED
    BY <2>1, Zenon DEF NeedsOwner
<1>5. CASE q.kind \in {"read", "reveal", "mkdir"}
  BY <1>1, <1>5
<1>. QED
  BY <1>2, <1>3, <1>4, <1>5

LEMMA PreimageType ==
  ASSUME CoreTypeOK, NativeTypeOK, NEW q \in AllRequests
  PROVE  /\ Preimage(q) \in Objects \cup {None}
         /\ FromTrash(q) => Preimage(q) # None
         /\ q.kind = "mkdir" => Preimage(q) = None
<1>1. CASE FromTrash(q)
  BY <1>1, RecordType, Values DEF FromTrash, Preimage
<1>2. CASE ~FromTrash(q)
  <2>1. disk[q.path] \in Objects \cup {None}
    BY Wellformed DEF NativeTypeOK, Places
  <2>2. q.kind = "mkdir" => q.expected = None
    BY Wellformed DEF IsRequest
  <2>. QED
    BY <1>2, <2>1, <2>2 DEF Preimage
<1>. QED
  BY <1>1, <1>2

LEMMA ObserveStep ==
  ASSUME CoreTypeOK, NativeTypeOK, NEW o \in Ops, OpInv(o), Observe(o)
  PROVE  Local(o) /\ Unhurried(o)
<1>. DEFINE q == Req(o)
            s == Preimage(q)
<1>1. stage[o] = "opened" /\ stage[o] \in Early /\ UNCHANGED <<worker, temp, effect, grants>>
  BY DEF Observe, Early, nativeVars
<1>2. q \in AllRequests
  BY <1>1, BusyRow
<1>3. /\ s \in Objects \cup {None}
      /\ FromTrash(q) => s # None
      /\ q.kind = "mkdir" => s = None
  BY <1>2, PreimageType
<1>4. verified[o] = None
  BY <1>1 DEF OpInv, LookAt, Looked
<1>5. CASE Deny(o) /\ UNCHANGED queue
  <2>1. stage' = [stage EXCEPT ![o] = "done"]
    BY <1>5 DEF Deny, End
  <2>. QED
    BY <1>1, <1>5, <2>1, DenyStep DEF Unhurried, CoreTypeOK
<1>6. CASE /\ q.kind = "read" /\ End(o, "APPLIED")
           /\ UNCHANGED <<seen, recovered, verified, exported, queue>>
  <2>1. stage' = [stage EXCEPT ![o] = "done"]
    BY <1>6 DEF End
  <2>2. Local(o)
    BY <1>1, <1>6, AnswerStep DEF Reads
  <2>. QED
    BY <1>6, <2>1, <2>2 DEF Unhurried, CoreTypeOK
<1>7. ASSUME Acceptable(q, s), q.kind # "read",
             seen' = [seen EXCEPT ![o] = s], NEW x \in {"asking", "asked"}, Move(o, x),
             UNCHANGED <<row, recovered, verified, exported, queue>>
      PROVE  Local(o) /\ Unhurried(o)
  <2>1. Local(o) /\ stage'[o] = x
    BY <1>1, <1>3, <1>7, LookStep
  <2>. QED
    BY <1>7, <2>1 DEF Unhurried, CoreTypeOK, Move
<1>8. ASSUME Acceptable(q, s), q.kind # "read", q.kind # "reveal", ~NeedsOwner(q, s),
             Dispatch(o, s)
      PROVE  Local(o) /\ Unhurried(o)
  <2>1. q.kind \notin Reads
    BY <1>8, Screening DEF Reads
  <2>2. Local(o) /\ queue' \in {queue, Append(queue, o)} /\ stage'[o] # "running"
    BY <1>1, <1>3, <1>4, <1>8, <2>1, DispatchStep
  <2>3. \A p \in Ops \ {o} : stage'[p] = stage[p]
    BY <2>2 DEF Local, SameOp
  <2>. QED
    BY <2>2, <2>3 DEF Unhurried
<1>9. \/ Deny(o) /\ UNCHANGED queue
      \/ /\ q.kind = "read" /\ End(o, "APPLIED")
         /\ UNCHANGED <<seen, recovered, verified, exported, queue>>
      \/ /\ Acceptable(q, s) /\ q.kind # "read"
         /\ \/ /\ seen' = [seen EXCEPT ![o] = s] /\ (Move(o, "asking") \/ Move(o, "asked"))
               /\ UNCHANGED <<row, recovered, verified, exported, queue>>
            \/ /\ q.kind # "reveal" /\ ~NeedsOwner(q, s) /\ Dispatch(o, s)
  <2>. HIDE DEF q, s
  <2>. QED
    BY DEF Observe, q, s
<1>. QED
  BY <1>5, <1>6, <1>7, <1>8, <1>9

LEMMA SpendStep ==
  ASSUME CoreTypeOK, RuntimeTypeOK, NEW o \in Ops, OpInv(o), Spend(o)
  PROVE  Local(o) /\ Unhurried(o)
<1>. DEFINE q == Req(o)
            s == seen[o]
<1>1. /\ stage[o] = "live" /\ stage[o] \in Early /\ Looked(o) /\ q.kind # "reveal"
      /\ UNCHANGED <<worker, temp, effect>> /\ grants' \subseteq grants
  BY DEF Spend, Early, nativeVars, Looked
<1>2. /\ Acceptable(q, s) /\ q.kind # "read"
      /\ FromTrash(q) => s # None
      /\ q.kind = "mkdir" => s = None
      /\ s \in Objects \cup {None}
  BY <1>1 DEF OpInv, LookAt, Fits, CoreTypeOK
<1>3. CASE Deny(o) /\ UNCHANGED queue
  <2>1. stage' = [stage EXCEPT ![o] = "done"]
    BY <1>3 DEF Deny, End
  <2>. QED
    BY <1>1, <1>3, <2>1, DenyStep DEF Unhurried, CoreTypeOK
<1>4. CASE /\ o \in grants \/ Policy(o)
           /\ q.kind = "export" /\ End(o, "APPLIED") /\ exported' = exported \cup {o}
           /\ UNCHANGED <<seen, recovered, verified, queue>>
  <2>1. Policy(o) \/ verified[o] # None
    BY <1>4 DEF OpInv, ConsentAt
  <2>2. stage' = [stage EXCEPT ![o] = "done"]
    BY <1>4 DEF End
  <2>3. Local(o)
    BY <1>1, <1>4, <2>1, AnswerStep DEF Reads
  <2>. QED
    BY <1>4, <2>2, <2>3 DEF Unhurried, CoreTypeOK
<1>5. CASE (o \in grants \/ Policy(o)) /\ q.kind # "export" /\ Dispatch(o, s)
  <2>1. Policy(o) \/ verified[o] # None
    BY <1>5 DEF OpInv, ConsentAt
  <2>2. q.kind \notin Reads
    BY <1>1, <1>2, <1>5 DEF Reads
  <2>3. Local(o) /\ queue' \in {queue, Append(queue, o)} /\ stage'[o] # "running"
    BY <1>1, <1>2, <1>5, <2>1, <2>2, DispatchStep
  <2>4. \A p \in Ops \ {o} : stage'[p] = stage[p]
    BY <2>3 DEF Local, SameOp
  <2>. QED
    BY <2>3, <2>4 DEF Unhurried
<1>. QED
  BY <1>3, <1>4, <1>5 DEF Spend, Policy

LEMMA ConsentSteps ==
  ASSUME CoreTypeOK, RuntimeTypeOK, NEW o \in Ops, OpInv(o),
         OwnerVerifies(o) \/ OwnerRefuses(o) \/ Recheck(o) \/ Reveal(o)
  PROVE  Local(o) /\ Unhurried(o)
<1>1. UNCHANGED <<worker, temp, effect, queue>>
  BY DEF OwnerVerifies, OwnerRefuses, Recheck, Reveal, nativeVars, runtimeVars
<1>2. ASSUME Deny(o), stage[o] \in Early, UNCHANGED grants
      PROVE  Local(o) /\ Unhurried(o)
  <2>1. stage' = [stage EXCEPT ![o] = "done"]
    BY <1>2 DEF Deny, End
  <2>. QED
    BY <1>1, <1>2, <2>1, DenyStep DEF Unhurried, CoreTypeOK
<1>3. ASSUME stage[o] \in {"asking", "asked"}, NEW x \in {"asked", "live"}, Move(o, x),
             UNCHANGED <<row, seen, recovered, exported>>,
             \/ verified' = verified /\ grants' = grants
             \/ verified' = [verified EXCEPT ![o] = Binding(o)] /\ grants' = grants \cup {o}
      PROVE  Local(o) /\ Unhurried(o)
  <2>1. Local(o) /\ stage'[o] = x
    BY <1>1, <1>3, MoveStep
  <2>. QED
    BY <1>1, <1>3, <2>1 DEF Unhurried, CoreTypeOK, Move
<1>4. CASE OwnerVerifies(o)
  BY <1>3, <1>4 DEF OwnerVerifies
<1>5. CASE OwnerRefuses(o)
  BY <1>2, <1>5 DEF OwnerRefuses, runtimeVars, Early
<1>6. CASE Recheck(o)
  BY <1>2, <1>3, <1>6 DEF Recheck, runtimeVars, Early
<1>7. CASE Reveal(o)
  <2>1. stage[o] = "live" /\ stage[o] \in Early /\ Req(o).kind \in Reads /\ UNCHANGED grants
    BY <1>7 DEF Reveal, runtimeVars, Early, Reads
  <2>2. CASE Deny(o)
    BY <1>2, <2>1, <2>2
  <2>3. CASE End(o, "APPLIED") /\ UNCHANGED <<seen, recovered, verified, exported>>
    <3>1. stage' = [stage EXCEPT ![o] = "done"]
      BY <2>3 DEF End
    <3>2. Local(o)
      BY <1>1, <2>1, <2>3, AnswerStep
    <3>. QED
      BY <1>1, <3>1, <3>2 DEF Unhurried, CoreTypeOK
  <2>. QED
    BY <1>7, <2>2, <2>3 DEF Reveal
<1>. QED
  BY <1>4, <1>5, <1>6, <1>7

LEMMA SubmitStep ==
  ASSUME CoreTypeOK, RuntimeTypeOK, NEW o \in Ops, OpInv(o), Submit(o)
  PROVE  /\ Local(o) /\ Unhurried(o) /\ stage[o] = "idle"
         /\ row'[o].kind = "MUTATION" => VolumeFree(row'[o].volume)
<1>1. /\ stage[o] = "idle" /\ stage' = [stage EXCEPT ![o] = "opened"]
      /\ UNCHANGED <<disk, temp, worker, effect, outside, seen, recovered, verified, exported,
                     grants, queue>>
  BY DEF Submit, Move, nativeVars, runtimeVars
<1>2. PICK q \in Requests[o] :
        AdmitRow(o, IF q.kind \in Reads THEN "READ" ELSE "MUTATION", Volume(q.path), q)
  BY DEF Submit
<1>. DEFINE kind == IF q.kind \in Reads THEN "READ" ELSE "MUTATION"
            new == [state |-> IF kind = "READ" THEN "OBSERVING" ELSE "PREPARED",
                    kind |-> kind, volume |-> Volume(q.path), binding |-> q, recovery |-> FALSE]
<1>3. row' = [row EXCEPT ![o] = new] /\ (kind = "MUTATION" => VolumeFree(Volume(q.path)))
  BY <1>2 DEF AdmitRow
<1>4. q \in AllRequests
  BY <1>2 DEF AllRequests
<1>5. new \in Rows
  BY <1>4 DEF Rows, RowStates, Volume
<1>6. CoreTypeOK'
  BY <1>1, <1>3, <1>5 DEF CoreTypeOK, Stages
<1>7. Kept /\ \A p \in Ops \ {o} : SameOp(p)
  BY <1>1, <1>3 DEF CoreTypeOK, Kept, SameOp
<1>8. row'[o] = new /\ stage'[o] = "opened" /\ Req(o)' = q
  BY <1>1, <1>3 DEF CoreTypeOK, Req
<1>9. worker'[o].pc = "none" /\ Clean(o)' /\ ~Live(o)' /\ ~Dispatched(o)'
  BY <1>1, <1>8, NoProcess DEF Clean, Live, Dispatched
<1>10. verified[o] = None /\ recovered[o] = None /\ o \notin grants /\ o \notin exported
  BY <1>1 DEF OpInv, LookAt, ConsentAt, Looked
<1>11. RowAt(o)'
  BY <1>4, <1>8 DEF RowAt, Busy, Holding
<1>12. ProcessAt(o)'
  BY <1>8, <1>9 DEF ProcessAt
<1>13. LookAt(o)' /\ ConsentAt(o)'
  BY <1>1, <1>8, <1>9, <1>10 DEF LookAt, ConsentAt, Looked
<1>14. WorkAt(o)'
  BY <1>9 DEF WorkAt, Clean
<1>15. Local(o)
  BY <1>6, <1>7, <1>11, <1>12, <1>13, <1>14 DEF Local, OpInv
<1>. QED
  BY <1>1, <1>3, <1>8, <1>15 DEF Unhurried, CoreTypeOK

(* The rest of the invariant, after a step of a handler that has no        *)
(* process.                                                                *)
LEMMA Calm ==
  ASSUME OwnerInv, NEW o \in Ops, Local(o), Unhurried(o), stage[o] \in Early \cup {"idle"},
         UNCHANGED <<nativeVars, lease>>,
         Unfinished(o)' => \/ Unfinished(o) /\ row'[o].volume = row[o].volume
                           \/ VolumeFree(row'[o].volume)
  PROVE  /\ OnePerVolume' /\ HasTurn' /\ LeaseExcludesWriters'
         /\ \A p \in Ops : Noticed(p)'
<1>1. OpInv(o) /\ ~Live(o) /\ worker[o].pc = "none"
  BY NoProcess DEF OwnerInv
<1>2. UNCHANGED <<disk, temp, worker, effect, outside>>
  BY DEF nativeVars
<1>3. \A p \in Ops \ {o} : row'[p] = row[p] /\ stage'[p] = stage[p]
  BY DEF Local, SameOp
<1>4. OnePerVolume'
  <2>1. \A p \in Ops \ {o} : Unfinished(p)' <=> Unfinished(p)
    BY <1>3 DEF Unfinished
  <2>2. ASSUME NEW p \in Ops \ {o}, Unfinished(o)', Unfinished(p), row'[o].volume = row[p].volume
        PROVE  FALSE
    BY <2>2 DEF OwnerInv, OnePerVolume, VolumeFree, Unfinished
  <2>. QED
    BY <1>3, <2>1, <2>2 DEF OwnerInv, OnePerVolume
<1>5. HasTurn'
  <2>1. ASSUME NEW p \in Ops, stage'[p] = "running" PROVE AtHead(p)'
    <3>1. p # o /\ AtHead(p)
      BY <1>3, <2>1 DEF OwnerInv, HasTurn, Unhurried
    <3>2. queue \in Seq(Ops \cup Tasks) /\ queue # <<>> /\ Head(queue) = p
      BY <3>1 DEF AtHead, OwnerInv, OwnerTypeOK, RuntimeTypeOK
    <3>3. CASE queue' = queue
      BY <3>2, <3>3 DEF AtHead
    <3>4. CASE queue' = Append(queue, o)
      BY <3>2, <3>4 DEF AtHead
    <3>. QED
      BY <3>3, <3>4 DEF Unhurried
  <2>. QED
    BY <2>1 DEF HasTurn
<1>6. LeaseExcludesWriters'
  BY <1>1, <1>2, <1>3
  DEF OwnerInv, LeaseExcludesWriters, Live, Windows, Touched, Target, Req
<1>7. \A p \in Ops : Noticed(p)'
  BY <1>2 DEF OwnerInv, Noticed, Renaming, Windows, Exact
<1>. QED
  BY <1>4, <1>5, <1>6, <1>7

LEMMA EarlySteps ==
  ASSUME OwnerInv, NEW o \in Ops,
         \/ Submit(o) \/ Observe(o) \/ OwnerVerifies(o) \/ OwnerRefuses(o)
         \/ Recheck(o) \/ Spend(o) \/ Reveal(o)
  PROVE  OwnerInv'
<1>1. CoreTypeOK /\ NativeTypeOK /\ RuntimeTypeOK /\ OpInv(o)
  BY DEF OwnerInv, OwnerTypeOK
<1>2. Local(o) /\ Unhurried(o)
  BY <1>1, SubmitStep, ObserveStep, SpendStep, ConsentSteps
<1>3. UNCHANGED <<nativeVars, lease>>
  BY DEF Submit, Observe, OwnerVerifies, OwnerRefuses, Recheck, Spend, Reveal, runtimeVars
<1>4. stage[o] \in Early \cup {"idle"} /\ (~Submit(o) => stage[o] \in Early)
  BY DEF Submit, Observe, OwnerVerifies, OwnerRefuses, Recheck, Spend, Reveal, Early
<1>5. ASSUME ~Submit(o) PROVE row'[o].kind = row[o].kind /\ row'[o].volume = row[o].volume
  <2>1. Deny(o) => FinishRow(o, "DENIED")
    BY DEF Deny, End
  <2>2. ASSUME NEW s, Dispatch(o, s)
        PROVE  FinishRow(o, "DENIED") \/ AttachRow(o) \/ UNCHANGED row
    BY <2>1, <2>2 DEF Dispatch
  <2>3. \/ FinishRow(o, "DENIED") \/ FinishRow(o, "APPLIED") \/ AttachRow(o) \/ UNCHANGED row
    <3>1. CASE Observe(o)
      <4>. DEFINE s == Preimage(Req(o))
      <4>1. Deny(o) \/ End(o, "APPLIED") \/ UNCHANGED row \/ Dispatch(o, s)
        <5>. HIDE DEF s
        <5>. QED
          BY <3>1 DEF Observe, s
      <4>. QED
        BY <2>1, <2>2, <4>1 DEF End
    <3>2. CASE Spend(o)
      <4>1. Deny(o) \/ End(o, "APPLIED") \/ Dispatch(o, seen[o])
        BY <3>2 DEF Spend
      <4>. QED
        BY <2>1, <2>2, <4>1 DEF End
    <3>3. CASE OwnerVerifies(o) \/ OwnerRefuses(o) \/ Recheck(o) \/ Reveal(o)
      BY <2>1, <3>3 DEF OwnerVerifies, OwnerRefuses, Recheck, Reveal, End
    <3>. QED
      BY <1>5, <3>1, <3>2, <3>3
  <2>. QED
    BY <1>1, <2>3 DEF FinishRow, AttachRow, CoreTypeOK, Rows
<1>6. Unfinished(o)' => \/ Unfinished(o) /\ row'[o].volume = row[o].volume
                        \/ VolumeFree(row'[o].volume)
  <2>1. CASE Submit(o)
    BY <1>1, <2>1, SubmitStep DEF Unfinished
  <2>2. CASE ~Submit(o)
    <3>1. row[o].kind = "MUTATION" => row[o].state = "PREPARED"
      BY <1>1, <1>4, <2>2, BusyRow DEF OpInv, RowAt
    <3>. QED
      BY <1>5, <2>2, <3>1 DEF Unfinished, Holding
  <2>. QED
    BY <2>1, <2>2
<1>7. OnePerVolume' /\ HasTurn' /\ LeaseExcludesWriters' /\ \A p \in Ops : Noticed(p)'
  BY <1>2, <1>3, <1>4, <1>6, Calm
<1>8. \A p \in Ops : OpInv(p)'
  BY <1>1, <1>2, Bystander DEF Local, OwnerInv
<1>9. NativeTypeOK'
  BY <1>1, <1>3 DEF NativeTypeOK, nativeVars
<1>10. RuntimeTypeOK'
  <2>1. grants' \subseteq Ops
    BY <1>1 DEF Submit, Observe, OwnerVerifies, OwnerRefuses, Recheck, Spend, Reveal,
                runtimeVars, RuntimeTypeOK
  <2>2. queue' \in Seq(Ops \cup Tasks)
    BY <1>1, <1>2 DEF Unhurried, RuntimeTypeOK
  <2>3. UNCHANGED <<lease, phase, quarantined, faults>>
    BY DEF Submit, Observe, OwnerVerifies, OwnerRefuses, Recheck, Spend, Reveal, runtimeVars
  <2>. QED
    BY <1>1, <2>1, <2>2, <2>3 DEF RuntimeTypeOK
<1>. QED
  BY <1>2, <1>7, <1>8, <1>9, <1>10 DEF OwnerInv, OwnerTypeOK, Local

-----------------------------------------------------------------------------
(* The queue, and the end of a mutation.                                   *)

(* A mutation that was dispatched, or is about to be, ends.                *)
LEMMA EndStep ==
  ASSUME CoreTypeOK, NEW o \in Ops, OpInv(o), stage[o] \in {"queued", "running"},
         stage' = [stage EXCEPT ![o] = "done"],
         NEW s \in {"APPLIED", "DENIED", "UNRESOLVED"}, FinishRow(o, s) \/ row' = row,
         FinishRow(o, s) => /\ s = "DENIED" => worker[o].pc = "nochange"
                            /\ s = "APPLIED" => worker[o].pc = "ok",
         Live(o) => Windows(o) /\ FinishRow(o, s) /\ s = "UNRESOLVED",
         UNCHANGED <<seen, recovered, verified, exported, worker, temp, effect, grants>>
  PROVE  /\ Local(o) /\ (Unfinished(o)' => Unfinished(o)) /\ stage'[o] = "done"
         /\ row'[o].volume = row[o].volume /\ row'[o].binding = row[o].binding
<1>0. Busy(o) /\ Looked(o) /\ Dispatched(o) /\ o \notin exported
  BY DEF Busy, Looked, Dispatched, OpInv, ConsentAt
<1>1. /\ row[o].state \in {"PREPARED", "OBSERVING"} /\ Req(o) \in AllRequests
      /\ row[o].kind = "MUTATION" /\ row[o].state = "PREPARED" /\ Fits(o)
  BY <1>0 DEF OpInv, RowAt, ProcessAt, LookAt
<1>2. row' = [row EXCEPT ![o].state = s] \/ row' = row
  BY DEF FinishRow
<1>3. CoreTypeOK'
  BY <1>2 DEF CoreTypeOK, Rows, RowStates, Stages
<1>4. Kept /\ \A p \in Ops \ {o} : SameOp(p)
  BY <1>2 DEF CoreTypeOK, Kept, SameOp
<1>5. /\ Req(o)' = Req(o) /\ row'[o].binding = row[o].binding /\ stage'[o] = "done"
      /\ row'[o].kind = row[o].kind /\ row'[o].volume = row[o].volume
      /\ row'[o].state \in {s, "PREPARED"} /\ ~Busy(o)'
      /\ (FinishRow(o, s) => row'[o].state = s) /\ (row' = row => row'[o].state = "PREPARED")
  BY <1>1, <1>2 DEF CoreTypeOK, Rows, Req, Busy, FinishRow
<1>6. /\ (Live(o)' <=> Live(o)) /\ (Windows(o)' <=> Windows(o)) /\ (Clean(o)' <=> Clean(o))
      /\ (Exact(o)' <=> Exact(o)) /\ (Renaming(o)' <=> Renaming(o))
      /\ (Policy(o)' <=> Policy(o))
  BY <1>5 DEF Live, Windows, Clean, Exact, Renaming, Policy, Target
<1>7. /\ Fits(o)' /\ Order(o)' = Order(o) /\ Binding(o)' = Binding(o)
      /\ AsksOwner(o)' <=> AsksOwner(o)
      /\ FromTrash(Req(o))' <=> FromTrash(Req(o))
  BY <1>1, <1>4, <1>5, SameDecision
<1>8. RowAt(o)'
  BY <1>1, <1>5 DEF OpInv, RowAt, Holding
<1>9. ProcessAt(o)'
  BY <1>1, <1>5, <1>6 DEF ProcessAt, Holding, Live
<1>10. LookAt(o)'
  BY <1>0, <1>5, <1>7 DEF OpInv, LookAt
<1>11. ConsentAt(o)'
  BY <1>0, <1>5, <1>6, <1>7 DEF OpInv, ConsentAt
<1>12. WorkAt(o)'
  BY <1>6, <1>7 DEF OpInv, WorkAt
<1>. QED
  BY <1>1, <1>3, <1>4, <1>5, <1>8, <1>9, <1>10, <1>11, <1>12
  DEF Local, OpInv, Unfinished, Holding

(* Whoever ends at the head of the queue leaves it to nobody that runs.    *)
LEMMA Leaving ==
  ASSUME OwnerInv, NEW o \in Ops, Local(o), AtHead(o), queue' = Tail(queue),
         stage'[o] = "done", Unfinished(o)' => Unfinished(o), row'[o].volume = row[o].volume,
         row'[o].binding = row[o].binding, UNCHANGED <<nativeVars, grants, lease, phase>>,
         quarantined' \in BOOLEAN, faults' \in Nat
  PROVE  OwnerInv'
<1>1. /\ NativeTypeOK /\ CoreTypeOK /\ RuntimeTypeOK
      /\ UNCHANGED <<disk, temp, worker, effect, outside>>
  BY DEF OwnerInv, OwnerTypeOK, nativeVars
<1>2. \A p \in Ops \ {o} : row'[p] = row[p] /\ stage'[p] = stage[p]
  BY DEF Local, SameOp
<1>3. \A p \in Ops : OpInv(p)'
  BY <1>1, Bystander DEF Local, OwnerInv
<1>4. NativeTypeOK' /\ CoreTypeOK'
  BY <1>1 DEF NativeTypeOK, Local
<1>5. RuntimeTypeOK'
  <2>1. queue \in Seq(Ops \cup Tasks) /\ queue # <<>>
    BY <1>1 DEF RuntimeTypeOK, AtHead
  <2>2. queue' \in Seq(Ops \cup Tasks)
    BY <2>1
  <2>. QED
    BY <1>1, <2>2 DEF RuntimeTypeOK
<1>6. OnePerVolume'
  <2>1. \A p \in Ops : (Unfinished(p)' => Unfinished(p)) /\ row'[p].volume = row[p].volume
    BY <1>2 DEF Unfinished
  <2>. QED
    BY <2>1 DEF OwnerInv, OnePerVolume
<1>7. HasTurn'
  BY <1>2 DEF OwnerInv, HasTurn, AtHead
<1>8. LeaseExcludesWriters'
  <2>1. \A p \in Ops : Req(p)' = Req(p)
    BY <1>2 DEF Req
  <2>. QED
    BY <1>1, <2>1 DEF OwnerInv, LeaseExcludesWriters, Live, Windows
<1>9. \A p \in Ops : Noticed(p)'
  BY <1>1 DEF OwnerInv, Noticed, Renaming, Windows, Exact
<1>. QED
  BY <1>3, <1>4, <1>5, <1>6, <1>7, <1>8, <1>9 DEF OwnerInv, OwnerTypeOK

(* The native process starts, with the volume locked and no lease over its *)
(* target.                                                                 *)
LEMMA StartStep ==
  ASSUME OwnerInv, NEW o \in Ops, AtHead(o), stage[o] = "queued", ~Guarded(o),
         worker' = [worker EXCEPT ![o] = [pc |-> "started", cmd |-> Order(o)]],
         Move(o, "running"),
         UNCHANGED <<disk, temp, effect, outside, row, seen, recovered, verified, exported,
                     runtimeVars>>
  PROVE  OwnerInv'
<1>0. /\ NativeTypeOK /\ CoreTypeOK /\ RuntimeTypeOK /\ OpInv(o) /\ stage[o] \in Early
      /\ stage' = [stage EXCEPT ![o] = "running"]
  BY DEF OwnerInv, OwnerTypeOK, Early, Move
<1>1. /\ Looked(o) /\ Dispatched(o) /\ row[o].kind = "MUTATION" /\ row[o].state = "PREPARED"
      /\ Req(o) \in AllRequests /\ Req(o).kind \notin Reads /\ Fits(o)
      /\ worker[o].pc = "none" /\ Clean(o) /\ o \notin exported
  BY <1>0, BusyRow, NoProcess
  DEF OpInv, RowAt, ProcessAt, LookAt, ConsentAt, Looked, Dispatched, Reads, Busy
<1>2. Order(o) \in Commands
  BY <1>0, <1>1, OrderType DEF OpInv, LookAt
<1>3. /\ worker'[o].pc = "started" /\ worker'[o].cmd = Order(o) /\ stage'[o] = "running"
      /\ Req(o)' = Req(o) /\ Dispatched(o)' /\ Looked(o)' /\ Busy(o)' /\ Live(o)'
      /\ (Policy(o)' <=> Policy(o))
  BY <1>0 DEF NativeTypeOK, CoreTypeOK, Req, Dispatched, Looked, Busy, Live, Policy, Target
<1>4. NativeTypeOK' /\ CoreTypeOK' /\ RuntimeTypeOK'
  BY <1>0, <1>2 DEF NativeTypeOK, CoreTypeOK, RuntimeTypeOK, runtimeVars, Stages, Pcs
<1>5. Kept /\ \A p \in Ops \ {o} : SameOp(p)
  BY <1>0 DEF Kept, SameOp, CoreTypeOK, NativeTypeOK, runtimeVars
<1>6. /\ Fits(o)' /\ Order(o)' = Order(o) /\ Binding(o)' = Binding(o)
      /\ AsksOwner(o)' <=> AsksOwner(o)
      /\ FromTrash(Req(o))' <=> FromTrash(Req(o))
  BY <1>1, <1>5, SameDecision
<1>7. OpInv(o)'
  <2>1. RowAt(o)'
    BY <1>0, <1>1, <1>3 DEF OpInv, RowAt
  <2>2. ProcessAt(o)'
    BY <1>1, <1>3 DEF ProcessAt, Holding
  <2>3. LookAt(o)'
    BY <1>0, <1>1, <1>3, <1>6 DEF OpInv, LookAt
  <2>4. ConsentAt(o)'
    BY <1>0, <1>1, <1>3, <1>6 DEF OpInv, ConsentAt, runtimeVars
  <2>5. WorkAt(o)'
    BY <1>1, <1>3, <1>6 DEF WorkAt, Clean
  <2>. QED
    BY <2>1, <2>2, <2>3, <2>4, <2>5 DEF OpInv
<1>8. \A p \in Ops : OpInv(p)'
  BY <1>0, <1>5, <1>7, Bystander DEF OwnerInv
<1>9. OnePerVolume'
  BY DEF OwnerInv, OnePerVolume, Unfinished
<1>10. HasTurn'
  BY <1>0 DEF OwnerInv, HasTurn, AtHead, CoreTypeOK, runtimeVars
<1>11. LeaseExcludesWriters'
  <2>1. \A p \in Ops : Req(p)' = Req(p) /\ (p # o => worker'[p] = worker[p])
    BY <1>5 DEF Req, SameOp
  <2>2. \A t \in Tasks : lease'[t] = "held" => Touched(Req(o)) \cap Scope[t] = {}
    BY DEF Guarded, runtimeVars
  <2>. QED
    BY <2>1, <2>2 DEF OwnerInv, LeaseExcludesWriters, Live, Windows, runtimeVars
<1>12. \A p \in Ops : Noticed(p)'
  <2>1. \A p \in Ops \ {o} : worker'[p] = worker[p]
    BY <1>5 DEF SameOp
  <2>. QED
    BY <1>3, <2>1 DEF OwnerInv, Noticed, Renaming, Windows, Exact
<1>. QED
  BY <1>4, <1>8, <1>9, <1>10, <1>11, <1>12 DEF OwnerInv, OwnerTypeOK

LEMMA QueueSteps ==
  ASSUME OwnerInv, NEW o \in Ops,
         AdmitNative(o) \/ Settle(o) \/ LoseReply(o) \/ JournalFails(o)
  PROVE  OwnerInv'
<1>0. /\ NativeTypeOK /\ CoreTypeOK /\ RuntimeTypeOK /\ OpInv(o) /\ AtHead(o)
      /\ stage[o] \in {"queued", "running"}
      /\ quarantined \in BOOLEAN /\ faults \in Nat
  BY DEF OwnerInv, OwnerTypeOK, AdmitNative, Settle, LoseReply, JournalFails, HasTurn,
         RuntimeTypeOK
<1>1. ASSUME Deny(o), stage[o] = "queued", queue' = Tail(queue),
             UNCHANGED <<nativeVars, grants, lease, phase, quarantined, faults>>
      PROVE  OwnerInv'
  <2>1. /\ row' = [row EXCEPT ![o].state = "DENIED"] /\ stage'[o] = "done"
        /\ UNCHANGED <<worker, temp, effect>> /\ stage[o] \in Early
    BY <1>0, <1>1 DEF Deny, End, FinishRow, CoreTypeOK, nativeVars, Early
  <2>2. Local(o)
    BY <1>0, <1>1, <2>1, DenyStep
  <2>3. /\ ~Unfinished(o)' /\ row'[o].volume = row[o].volume /\ row'[o].binding = row[o].binding
    BY <1>0, <2>1 DEF CoreTypeOK, Rows, Unfinished, Holding
  <2>. QED
    BY <1>0, <1>1, <2>1, <2>2, <2>3, Leaving
<1>2. ASSUME stage' = [stage EXCEPT ![o] = "done"],
             NEW s \in {"APPLIED", "DENIED", "UNRESOLVED"}, FinishRow(o, s) \/ row' = row,
             FinishRow(o, s) => /\ s = "DENIED" => worker[o].pc = "nochange"
                                /\ s = "APPLIED" => worker[o].pc = "ok",
             Live(o) => Windows(o) /\ FinishRow(o, s) /\ s = "UNRESOLVED",
             queue' = Tail(queue), quarantined' \in BOOLEAN, faults' \in Nat,
             UNCHANGED <<nativeVars, seen, recovered, verified, exported, grants, lease, phase>>
      PROVE  OwnerInv'
  <2>1. /\ Local(o) /\ (Unfinished(o)' => Unfinished(o)) /\ stage'[o] = "done"
        /\ row'[o].volume = row[o].volume /\ row'[o].binding = row[o].binding
    BY <1>0, <1>2, EndStep DEF nativeVars
  <2>. QED
    BY <1>0, <1>2, <2>1, Leaving
<1>3. CASE AdmitNative(o)
  <2>1. CASE Guarded(o)
    BY <1>1, <1>3, <2>1 DEF AdmitNative, nativeVars
  <2>2. CASE End(o, "UNRESOLVED") /\ queue' = Tail(queue) /\ stage[o] = "queued"
             /\ UNCHANGED <<nativeVars, seen, recovered, verified, exported,
                            grants, lease, phase, quarantined, faults>>
    <3>1. ~Live(o) /\ FinishRow(o, "UNRESOLVED") /\ stage' = [stage EXCEPT ![o] = "done"]
      BY <1>0, <2>2, NoProcess DEF End, Early
    <3>. QED
      BY <1>0, <1>2, <2>2, <3>1
  <2>3. CASE /\ ~Guarded(o) /\ stage[o] = "queued"
             /\ worker' = [worker EXCEPT ![o] =
                  [pc |-> "started", cmd |-> Command(o, Req(o), seen[o])]]
             /\ Move(o, "running")
             /\ UNCHANGED <<row, queue, seen, recovered, verified, exported, disk, temp, effect,
                            outside, grants, lease, phase, quarantined, faults>>
    BY <1>0, <2>3, StartStep DEF Order, runtimeVars
  <2>. QED
    BY <1>3, <2>1, <2>2, <2>3 DEF AdmitNative, nativeVars
<1>4. /\ Outcome(o) \in {"APPLIED", "DENIED", "UNRESOLVED"}
      /\ Outcome(o) = "DENIED" => worker[o].pc = "nochange"
      /\ Outcome(o) = "APPLIED" => worker[o].pc = "ok"
  BY DEF Outcome
<1>5. CASE Settle(o)
  <2>1. ~Live(o) /\ FinishRow(o, Outcome(o)) /\ stage' = [stage EXCEPT ![o] = "done"]
    BY <1>5 DEF Settle, End
  <2>2. quarantined' \in BOOLEAN
    BY <1>5 DEF Settle
  <2>3. /\ queue' = Tail(queue) /\ faults' \in Nat
        /\ UNCHANGED <<nativeVars, seen, recovered, verified, exported, grants, lease, phase>>
    BY <1>0, <1>5 DEF Settle
  <2>. QED
    BY <1>2, <1>4, <2>1, <2>2, <2>3
<1>6. CASE LoseReply(o)
  BY <1>0, <1>2, <1>6 DEF LoseReply, End, Fault
<1>7. CASE JournalFails(o)
  BY <1>0, <1>2, <1>4, <1>7 DEF JournalFails, End, Fault, Move
<1>. QED
  BY <1>3, <1>5, <1>6, <1>7

-----------------------------------------------------------------------------
(* The native processes.                                                   *)

LEMMA Commanded ==
  ASSUME CoreTypeOK, NativeTypeOK, NEW o \in Ops, OpInv(o), Live(o)
  PROVE  LET c == worker[o].cmd IN
         /\ c = Order(o) /\ c \in Commands
         /\ c.op \in {"write", "rename", "mkdir"} /\ c.at \in Places /\ c.from \in Places
         /\ c.old \in Objects \cup {None} /\ c.bytes \in Bytes
         /\ c.op = "rename" => c.old # None
         /\ c.op = "mkdir" => c.old = None
         /\ c.at \in {Target(Req(o)), o}
         /\ c.from = Req(o).path \/ (c.from = Req(o).from /\ FromTrash(Req(o)))
         /\ Req(o) \in AllRequests /\ row[o].volume = Volume(Req(o).path)
         /\ Unfinished(o) /\ Looked(o) /\ Dispatched(o) /\ Fits(o)
         /\ row[o].state \notin {"none", "DENIED", "APPLIED"}
<1>1. worker[o].pc # "none" /\ Dispatched(o) /\ Looked(o)
  BY DEF Live, Dispatched, Looked
<1>2. /\ row[o].kind = "MUTATION" /\ row[o].state \in Holding
      /\ Req(o) \in AllRequests /\ Req(o).kind \notin Reads
      /\ row[o].volume = Volume(Req(o).path)
  BY <1>1 DEF OpInv, ProcessAt, RowAt, Holding
<1>3. worker[o].cmd = Order(o) /\ Fits(o)
  BY <1>1 DEF OpInv, WorkAt, LookAt
<1>4. /\ Order(o) \in Commands
      /\ Order(o).at \in {Target(Req(o)), o}
      /\ \/ Order(o).from = Req(o).path
         \/ Order(o).from = Req(o).from /\ FromTrash(Req(o))
      /\ Order(o).op = "rename" => Order(o).old # None
      /\ Order(o).op = "mkdir" => Order(o).old = None
  BY <1>1, <1>2, <1>3, OrderType DEF OpInv, LookAt
<1>. QED
  BY <1>1, <1>2, <1>3, <1>4 DEF Commands, Unfinished, Holding

(* What an operation may write: the names of its own volume, and the vault *)
(* slots of operations there.                                              *)
Home(x) == IF x \in Ops THEN row[x].volume ELSE Volume(x)

LEMMA Territory ==
  ASSUME OwnerInv, NEW o \in Ops, Live(o),
         NEW x \in {worker[o].cmd.at, worker[o].cmd.from, o}
  PROVE  Home(x) = row[o].volume
<1>. DEFINE q == Req(o)
<1>0. CoreTypeOK /\ NativeTypeOK /\ \A p \in Ops : OpInv(p)
  BY DEF OwnerInv, OwnerTypeOK
<1>1. /\ x \in {Target(q), o, q.path} \/ (x = q.from /\ FromTrash(q))
      /\ q \in AllRequests /\ row[o].volume = Volume(q.path)
  BY <1>0, Commanded
<1>2. CASE x = o
  BY <1>2 DEF Home
<1>3. CASE x \in {Target(q), q.path}
  BY <1>1, <1>3, Wellformed, Values DEF Home
<1>4. CASE x = q.from /\ FromTrash(q)
  <2>1. x \in Ops /\ recovered[x] # None /\ recovered[x].path = q.path
    BY <1>0, <1>1, <1>4, RecordType, Wellformed DEF FromTrash
  <2>2. stage[x] # "idle" /\ recovered[x].path = Req(x).path
    BY <1>0, <2>1 DEF OpInv, LookAt
  <2>3. row[x].volume = Volume(Req(x).path)
    BY <1>0, <2>1, <2>2 DEF OpInv, RowAt
  <2>. QED
    BY <1>1, <2>1, <2>2, <2>3 DEF Home
<1>. QED
  BY <1>1, <1>2, <1>3, <1>4

(* What a step of the process of o gives.                                  *)
Works(o) ==
  /\ NativeTypeOK' /\ WorkAt(o)' /\ Noticed(o)'
  /\ worker'[o].cmd = worker[o].cmd /\ worker'[o].pc # "none"
  /\ \A p \in Ops \ {o} :
       worker'[p] = worker[p] /\ temp'[p] = temp[p] /\ effect'[p] = effect[p]
  /\ \A x \in Places \ {worker[o].cmd.at, worker[o].cmd.from, o} : disk'[x] = disk[x]
  /\ outside' = outside

LEMMA WorksStep ==
  ASSUME OwnerInv, NEW o \in Ops, Live(o), Works(o), faults' \in Nat,
         UNCHANGED <<row, coreVars, grants, queue, lease, phase, quarantined>>
  PROVE  OwnerInv'
<1>0. CoreTypeOK /\ NativeTypeOK /\ RuntimeTypeOK /\ \A p \in Ops : OpInv(p)
  BY DEF OwnerInv, OwnerTypeOK
<1>1. UNCHANGED <<stage, seen, recovered, verified, exported>>
  BY DEF coreVars
<1>2. Kept /\ CoreTypeOK' /\ RuntimeTypeOK' /\ \A p \in Ops : Req(p)' = Req(p)
  BY <1>0, <1>1 DEF Kept, CoreTypeOK, RuntimeTypeOK, Req
<1>3. OpInv(o)'
  <2>1. /\ Unfinished(o) /\ Looked(o) /\ Dispatched(o) /\ Req(o) \in AllRequests /\ Fits(o)
        /\ row[o].state \notin {"none", "DENIED", "APPLIED"} /\ worker[o].pc # "none"
    BY <1>0, Commanded DEF Live
  <2>2. /\ Fits(o)' /\ Order(o)' = Order(o) /\ Binding(o)' = Binding(o)
        /\ AsksOwner(o)' <=> AsksOwner(o)
        /\ Policy(o)' <=> Policy(o)
        /\ FromTrash(Req(o))' <=> FromTrash(Req(o))
    BY <1>1, <1>2, <2>1, SameDecision
  <2>3. /\ worker'[o].pc # "none" /\ (Windows(o)' <=> Windows(o))
        /\ Dispatched(o)' /\ Looked(o)' /\ (Busy(o)' <=> Busy(o))
    BY <1>1 DEF Works, Windows, Dispatched, Looked, Busy
  <2>4. RowAt(o)'
    BY <1>0, <1>1, <1>2, <2>3 DEF OpInv, RowAt
  <2>5. ProcessAt(o)'
    BY <1>0, <1>1, <2>1, <2>3 DEF OpInv, ProcessAt, Unfinished
  <2>6. LookAt(o)'
    BY <1>0, <1>1, <1>2, <2>1, <2>2, <2>3 DEF OpInv, LookAt
  <2>7. ConsentAt(o)'
    BY <1>0, <1>1, <2>1, <2>2, <2>3 DEF OpInv, ConsentAt
  <2>. QED
    BY <2>4, <2>5, <2>6, <2>7 DEF OpInv, Works
<1>4. \A p \in Ops \ {o} : SameOp(p)
  BY <1>1 DEF SameOp, Works
<1>5. \A p \in Ops : OpInv(p)'
  BY <1>0, <1>2, <1>3, <1>4, Bystander
<1>6. OnePerVolume'
  BY DEF OwnerInv, OnePerVolume, Unfinished
<1>7. HasTurn'
  BY <1>1 DEF OwnerInv, HasTurn, AtHead
<1>8. LeaseExcludesWriters'
  <2>1. \A p \in Ops : Live(p)' /\ ~Windows(p)' => Live(p) /\ ~Windows(p)
    BY DEF Works, Live, Windows
  <2>. QED
    BY <1>2, <2>1 DEF OwnerInv, LeaseExcludesWriters
<1>9. ASSUME NEW p \in Ops \ {o} PROVE Noticed(p)'
  <2>1. Noticed(p) /\ worker'[p] = worker[p] /\ effect'[p] = effect[p] /\ outside' = outside
    BY DEF OwnerInv, Works
  <2>2. ASSUME Live(p), NEW x \in {worker[p].cmd.at, worker[p].cmd.from}
        PROVE  disk'[x] = disk[x]
    <3>1. Home(x) = row[p].volume
      BY <2>2, Territory
    <3>2. Unfinished(p) /\ Unfinished(o) /\ x \in Places
      BY <1>0, <2>2, Commanded
    <3>3. x \notin {worker[o].cmd.at, worker[o].cmd.from, o}
      BY <3>1, <3>2, Territory DEF OwnerInv, OnePerVolume
    <3>. QED
      BY <3>2, <3>3 DEF Works
  <2>. QED
    BY <2>1, <2>2 DEF Noticed, Renaming, Windows, Exact, Live
<1>. QED
  BY <1>2, <1>5, <1>6, <1>7, <1>8, <1>9 DEF OwnerInv, OwnerTypeOK, Works

(* A step of the process that only moves on.                               *)
LEMMA GoStep ==
  ASSUME OwnerInv, NEW o \in Ops, Live(o), Order(o)' = Order(o),
         NEW x \in {"checked", "nochange", "reread", "ok", "unknown", "dead"}, Go(o, x), Untouched,
         x = "checked" => /\ worker[o].pc = "started" /\ ~Windows(o)
                          /\ disk[worker[o].cmd.from] = worker[o].cmd.old,
         x = "nochange" => worker[o].pc \in {"started", "checked"},
         x = "reread" => At(o, "prepared", "write") /\ worker[o].cmd.old # None,
         x = "ok" => /\ worker[o].pc = "placed"
                     /\ Renaming(o) => disk[worker[o].cmd.at] = worker[o].cmd.old
  PROVE  Works(o)
<1>1. /\ NativeTypeOK /\ CoreTypeOK /\ WorkAt(o) /\ Noticed(o)
      /\ UNCHANGED <<disk, temp, effect, outside>>
  BY DEF OwnerInv, OwnerTypeOK, OpInv, Untouched
<1>2. /\ worker'[o].pc = x /\ worker'[o].cmd = worker[o].cmd
      /\ \A p \in Ops \ {o} : worker'[p] = worker[p]
      /\ worker' \in [Ops -> [pc : Pcs, cmd : Commands \cup {None}]]
  BY <1>1 DEF Go, NativeTypeOK, Pcs
<1>3. worker[o].pc # "none" /\ worker[o].cmd = Order(o)
  BY <1>1 DEF Live, WorkAt
<1>4. (Clean(o)' <=> Clean(o)) /\ (Exact(o)' <=> Exact(o)) /\ (Renaming(o)' <=> Renaming(o))
      /\ (Windows(o)' <=> Windows(o))
  BY <1>1, <1>2 DEF Clean, Exact, Renaming, Windows
<1>5. WorkAt(o)'
  BY <1>1, <1>2, <1>3, <1>4 DEF WorkAt, At
<1>6. Noticed(o)'
  BY <1>1, <1>2, <1>4 DEF Noticed
<1>7. NativeTypeOK'
  BY <1>1, <1>2 DEF NativeTypeOK
<1>. QED
  BY <1>1, <1>2, <1>5, <1>6, <1>7 DEF Works

LEMMA IdleSteps ==
  ASSUME OwnerInv, NEW o \in Ops, Order(o)' = Order(o),
         \/ PosixCheck(o) \/ PosixReread(o) \/ PosixVerify(o) \/ PosixError(o)
         \/ WindowsRollback(o) \/ (Live(o) /\ Go(o, "dead") /\ Untouched)
  PROVE  Works(o) /\ Live(o)
<1>1. CASE PosixCheck(o)
  BY <1>1, GoStep DEF PosixCheck, Live
<1>2. CASE PosixReread(o)
  BY <1>2, GoStep DEF PosixReread, Live, At
<1>3. CASE PosixVerify(o)
  BY <1>3, GoStep DEF PosixVerify, Live, Renaming
<1>4. CASE PosixError(o)
  BY <1>4, GoStep DEF PosixError
<1>5. CASE WindowsRollback(o)
  BY <1>5, GoStep DEF WindowsRollback, Live
<1>6. CASE Live(o) /\ Go(o, "dead") /\ Untouched
  BY <1>6, GoStep
<1>. QED
  BY <1>1, <1>2, <1>3, <1>4, <1>5, <1>6

LEMMA PrepareStep ==
  ASSUME OwnerInv, NEW o \in Ops, Order(o)' = Order(o), PosixPrepare(o)
  PROVE  Works(o) /\ Live(o)
<1>1. NativeTypeOK /\ CoreTypeOK /\ WorkAt(o) /\ Noticed(o) /\ OpInv(o)
  BY DEF OwnerInv, OwnerTypeOK, OpInv
<1>2. Live(o) /\ ~Windows(o) /\ worker[o].pc \in {"started", "checked"}
  BY DEF PosixPrepare, Live
<1>. DEFINE c == worker[o].cmd
            new == Object(o, c.bytes)
<1>3. c \in Commands /\ c.bytes \in Bytes /\ c = Order(o) /\ c.op = "write" /\ effect[o] = None
  BY <1>1, <1>2, Commanded DEF PosixPrepare, WorkAt, Clean
<1>4. new \in Objects
  BY <1>3 DEF Object, Objects, Places
<1>5. /\ worker' = [worker EXCEPT ![o].pc = "prepared"] /\ temp' = [temp EXCEPT ![o] = new]
      /\ UNCHANGED <<disk, effect, outside>>
  BY DEF PosixPrepare, Go
<1>6. /\ worker'[o].pc = "prepared" /\ worker'[o].cmd = c /\ temp'[o] = new
      /\ \A p \in Ops \ {o} : worker'[p] = worker[p] /\ temp'[p] = temp[p]
  BY <1>1, <1>5 DEF NativeTypeOK
<1>7. NativeTypeOK'
  BY <1>1, <1>4, <1>5 DEF NativeTypeOK, Pcs
<1>8. WorkAt(o)'
  BY <1>2, <1>3, <1>5, <1>6 DEF WorkAt, Windows
<1>9. Noticed(o)'
  BY <1>3, <1>6 DEF Noticed, Renaming
<1>. QED
  BY <1>2, <1>5, <1>6, <1>7, <1>8, <1>9 DEF Works

(* The steps that put something at the target.                             *)
Puts(o, pc, taken, put, tmp) ==
  LET c == worker[o].cmd IN
  /\ Go(o, pc) /\ Changes(o, taken, put) /\ temp' = [temp EXCEPT ![o] = tmp]
  /\ disk' \in [Places -> Objects \cup {None}]
  /\ \A x \in Places \ {c.at, c.from, o} : disk'[x] = disk[x]
  /\ outside' = outside
  /\ pc \in {"swapped", "placed"} => ~Windows(o)
  /\ pc = "swapped" => c.op = "write" /\ taken = tmp
  /\ c.op = "write" => put.bytes = c.bytes
  /\ taken \in {None, tmp, put} \/ (c.op = "write" /\ taken = c.old)
  /\ pc \in {"placed", "ok"} =>
       \/ /\ taken = c.old
          /\ c.op = "rename" => put = taken
          /\ c.op = "mkdir" => put.bytes = Dir
       \/ pc = "placed" /\ Renaming(o) /\ outside > 0 /\ disk'[c.at] # c.old

LEMMA PlaceStep ==
  ASSUME OwnerInv, NEW o \in Ops, Live(o), Order(o)' = Order(o),
         NEW pc \in {"swapped", "placed", "ok", "unknown"}, NEW taken \in Objects \cup {None},
         NEW put \in Objects, NEW tmp \in Objects \cup {None}, Puts(o, pc, taken, put, tmp)
  PROVE  Works(o)
<1>. DEFINE c == worker[o].cmd
            change == [at |-> c.at, taken |-> taken, put |-> put]
<1>1. NativeTypeOK /\ CoreTypeOK /\ WorkAt(o) /\ OpInv(o)
  BY DEF OwnerInv, OwnerTypeOK, OpInv
<1>2. /\ c \in Commands /\ c.at \in Places /\ c = Order(o)
      /\ c.op \in {"write", "rename", "mkdir"}
  BY <1>1, Commanded
<1>3. change \in Effects /\ change # None
  BY <1>2, Values DEF Effects
<1>4. /\ worker' = [worker EXCEPT ![o].pc = pc] /\ effect' = [effect EXCEPT ![o] = change]
  BY DEF Puts, Go, Changes
<1>5. /\ worker'[o].pc = pc /\ worker'[o].cmd = c /\ temp'[o] = tmp /\ effect'[o] = change
      /\ effect'[o].at = c.at /\ effect'[o].taken = taken /\ effect'[o].put = put
      /\ \A p \in Ops \ {o} :
           worker'[p] = worker[p] /\ temp'[p] = temp[p] /\ effect'[p] = effect[p]
  BY <1>1, <1>4 DEF Puts, NativeTypeOK
<1>6. NativeTypeOK'
  BY <1>1, <1>3, <1>4 DEF Puts, NativeTypeOK, Pcs
<1>7. (Windows(o)' <=> Windows(o)) /\ (Renaming(o)' <=> Renaming(o))
  BY <1>5 DEF Windows, Renaming
<1>8. taken = c.old /\ (c.op = "rename" => put = taken) /\ (c.op = "mkdir" => put.bytes = Dir)
        => Exact(o)'
  BY <1>2, <1>5 DEF Puts, Exact
<1>9. WorkAt(o)'
  BY <1>2, <1>3, <1>5, <1>7, <1>8 DEF Puts, WorkAt
<1>10. Noticed(o)'
  BY <1>5, <1>7, <1>8 DEF Puts, Noticed
<1>. QED
  BY <1>5, <1>6, <1>9, <1>10 DEF Puts, Works

LEMMA ArchiveStep ==
  ASSUME OwnerInv, NEW o \in Ops, Order(o)' = Order(o), PosixArchive(o)
  PROVE  Works(o) /\ Live(o)
<1>. DEFINE c == worker[o].cmd
<1>1. /\ NativeTypeOK /\ CoreTypeOK /\ WorkAt(o) /\ OpInv(o) /\ Live(o)
      /\ worker[o].pc = "swapped" /\ c.op = "write"
  BY DEF OwnerInv, OwnerTypeOK, OpInv, PosixArchive, Live, At
<1>2. CASE temp[o] = c.old
  <2>1. /\ disk' = [disk EXCEPT ![o] = temp[o]] /\ temp' = [temp EXCEPT ![o] = None]
        /\ worker' = [worker EXCEPT ![o].pc = "placed"] /\ UNCHANGED <<effect, outside>>
    BY <1>2 DEF PosixArchive, Go
  <2>2. /\ worker'[o].pc = "placed" /\ worker'[o].cmd = c /\ temp'[o] = None
        /\ \A p \in Ops \ {o} : worker'[p] = worker[p] /\ temp'[p] = temp[p]
        /\ \A x \in Places \ {o} : disk'[x] = disk[x]
    BY <1>1, <2>1 DEF NativeTypeOK
  <2>3. NativeTypeOK'
    BY <1>1, <2>1 DEF NativeTypeOK, Pcs
  <2>4. (Windows(o)' <=> Windows(o)) /\ ~Renaming(o)' /\ c = Order(o)
    BY <1>1, <2>2 DEF Windows, Renaming, WorkAt
  <2>5. /\ effect[o] # None /\ effect[o].taken = c.old /\ effect[o].at = c.at
        /\ effect[o].put.bytes = c.bytes /\ ~Windows(o)
    BY <1>1, <1>2 DEF WorkAt
  <2>6. Exact(o)'
    BY <1>1, <2>1, <2>2, <2>5 DEF Exact
  <2>7. WorkAt(o)'
    BY <1>1, <2>1, <2>2, <2>4, <2>5, <2>6 DEF WorkAt
  <2>8. Noticed(o)'
    BY <2>2, <2>4 DEF Noticed
  <2>. QED
    BY <1>1, <2>1, <2>2, <2>3, <2>7, <2>8 DEF Works
<1>3. CASE temp[o] # c.old
  BY <1>1, <1>3, GoStep DEF PosixArchive
<1>. QED
  BY <1>2, <1>3

LEMMA WriteSteps ==
  ASSUME OwnerInv, NEW o \in Ops, Order(o)' = Order(o), PosixExchange(o) \/ PosixCreate(o)
  PROVE  Works(o) /\ Live(o)
<1>. DEFINE c == worker[o].cmd
<1>1. /\ NativeTypeOK /\ CoreTypeOK /\ WorkAt(o) /\ OpInv(o) /\ Live(o)
      /\ worker[o].pc \in {"prepared", "reread"} /\ c.op = "write"
  BY DEF OwnerInv, OwnerTypeOK, OpInv, PosixExchange, PosixCreate, Live, At
<1>2. /\ c.at \in Places /\ disk[c.at] \in Objects \cup {None} /\ ~Windows(o)
      /\ temp[o] = Object(o, c.bytes) /\ c.bytes \in Bytes
  BY <1>1, Commanded DEF NativeTypeOK, WorkAt
<1>3. temp[o] \in Objects /\ temp[o].bytes = c.bytes
  BY <1>2 DEF Object, Objects, Places
<1>4. CASE PosixExchange(o) /\ disk[c.at] # None
  <2>1. /\ disk' = [disk EXCEPT ![c.at] = temp[o]] /\ temp' = [temp EXCEPT ![o] = disk[c.at]]
        /\ Changes(o, disk[c.at], temp[o]) /\ Go(o, "swapped") /\ UNCHANGED outside
    BY <1>4 DEF PosixExchange
  <2>2. /\ disk' \in [Places -> Objects \cup {None}]
        /\ \A x \in Places \ {c.at, c.from, o} : disk'[x] = disk[x]
    BY <1>1, <1>3, <2>1 DEF NativeTypeOK
  <2>3. Puts(o, "swapped", disk[c.at], temp[o], disk[c.at])
    BY <1>1, <1>2, <1>3, <2>1, <2>2 DEF Puts
  <2>. QED
    BY <1>1, <1>2, <1>3, <2>3, PlaceStep
<1>5. CASE PosixCreate(o) /\ disk[c.at] = None
  <2>1. /\ disk' = [disk EXCEPT ![c.at] = temp[o]] /\ temp' = [temp EXCEPT ![o] = None]
        /\ Changes(o, None, temp[o]) /\ Go(o, "placed") /\ UNCHANGED outside /\ c.old = None
    BY <1>5 DEF PosixCreate
  <2>2. /\ disk' \in [Places -> Objects \cup {None}]
        /\ \A x \in Places \ {c.at, c.from, o} : disk'[x] = disk[x]
    BY <1>1, <1>3, <2>1 DEF NativeTypeOK
  <2>3. Puts(o, "placed", None, temp[o], None)
    BY <1>1, <1>2, <1>3, <2>1, <2>2 DEF Puts
  <2>. QED
    BY <1>1, <1>3, <2>3, PlaceStep
<1>6. CASE Go(o, "unknown") /\ Untouched
  BY <1>1, <1>6, GoStep
<1>. QED
  BY <1>1, <1>4, <1>5, <1>6 DEF PosixExchange, PosixCreate

LEMMA RenameStep ==
  ASSUME OwnerInv, NEW o \in Ops, Order(o)' = Order(o), PosixRename(o)
  PROVE  Works(o) /\ Live(o)
<1>. DEFINE c == worker[o].cmd
            old == disk[c.from]
<1>1. /\ NativeTypeOK /\ CoreTypeOK /\ WorkAt(o) /\ Noticed(o) /\ OpInv(o) /\ Live(o)
      /\ worker[o].pc = "checked" /\ c.op = "rename"
  BY DEF OwnerInv, OwnerTypeOK, OpInv, PosixRename, Live, At
<1>2. /\ c.at \in Places /\ c.from \in Places /\ c.old \in Objects \cup {None}
      /\ ~Windows(o) /\ Renaming(o) /\ temp[o] = None /\ temp \in [Ops -> Objects \cup {None}]
      /\ old = c.old \/ outside > 0
  BY <1>1, Commanded DEF NativeTypeOK, WorkAt, Clean, Renaming, Noticed
<1>3. CASE old # None /\ disk[c.at] = None
  <2>1. /\ disk' = [disk EXCEPT ![c.at] = old, ![c.from] = None] /\ UNCHANGED <<temp, outside>>
        /\ Changes(o, old, old) /\ Go(o, "placed") /\ temp' = [temp EXCEPT ![o] = None]
    BY <1>2, <1>3 DEF PosixRename
  <2>2. old \in Objects
    BY <1>1, <1>2, <1>3 DEF NativeTypeOK
  <2>3. /\ disk' \in [Places -> Objects \cup {None}] /\ disk'[c.at] = old
        /\ \A x \in Places \ {c.at, c.from, o} : disk'[x] = disk[x]
    BY <1>1, <1>2, <1>3, <2>1, <2>2 DEF NativeTypeOK
  <2>4. old = c.old \/ (outside > 0 /\ disk'[c.at] # c.old)
    BY <1>2, <2>3
  <2>5. Puts(o, "placed", old, old, None)
    BY <1>1, <1>2, <2>1, <2>2, <2>3, <2>4 DEF Puts
  <2>. QED
    BY <1>1, <2>2, <2>5, PlaceStep
<1>4. CASE Go(o, "unknown") /\ Untouched
  BY <1>1, <1>4, GoStep
<1>. QED
  BY <1>1, <1>3, <1>4 DEF PosixRename

LEMMA MkdirStep ==
  ASSUME OwnerInv, NEW o \in Ops, Order(o)' = Order(o), PosixMkdir(o)
  PROVE  Works(o) /\ Live(o)
<1>. DEFINE c == worker[o].cmd
            new == Object(o, Dir)
<1>1. /\ NativeTypeOK /\ CoreTypeOK /\ WorkAt(o) /\ OpInv(o) /\ Live(o)
      /\ worker[o].pc = "started" /\ c.op = "mkdir" /\ ~Windows(o)
  BY DEF OwnerInv, OwnerTypeOK, OpInv, PosixMkdir, Live, At
<1>2. /\ c.at \in Places /\ c.old = None /\ temp[o] = None /\ new \in Objects /\ new.bytes = Dir
      /\ temp \in [Ops -> Objects \cup {None}]
  BY <1>1, Commanded DEF NativeTypeOK, WorkAt, Clean, Object, Objects, Places, Bytes
<1>3. CASE disk[c.at] = None
  <2>1. /\ disk' = [disk EXCEPT ![c.at] = new] /\ UNCHANGED <<temp, outside>>
        /\ Changes(o, None, new) /\ Go(o, "placed") /\ temp' = [temp EXCEPT ![o] = None]
    BY <1>2, <1>3 DEF PosixMkdir
  <2>2. /\ disk' \in [Places -> Objects \cup {None}]
        /\ \A x \in Places \ {c.at, c.from, o} : disk'[x] = disk[x]
    BY <1>1, <1>2, <2>1 DEF NativeTypeOK
  <2>3. Puts(o, "placed", None, new, None)
    BY <1>1, <1>2, <2>1, <2>2 DEF Puts
  <2>. QED
    BY <1>1, <1>2, <2>3, PlaceStep
<1>4. CASE disk[c.at] # None
  BY <1>1, <1>4, GoStep DEF PosixMkdir
<1>. QED
  BY <1>3, <1>4

LEMMA CommitStep ==
  ASSUME OwnerInv, NEW o \in Ops, Order(o)' = Order(o), WindowsCommit(o)
  PROVE  Works(o) /\ Live(o)
<1>. DEFINE c == worker[o].cmd
            put == WindowsPut(o, c)
<1>1. /\ NativeTypeOK /\ CoreTypeOK /\ WorkAt(o) /\ OpInv(o) /\ Live(o)
      /\ worker[o].pc = "started" /\ temp[o] = None /\ temp \in [Ops -> Objects \cup {None}]
  BY DEF OwnerInv, OwnerTypeOK, OpInv, WindowsCommit, Live, WorkAt, Clean, NativeTypeOK
<1>2. /\ c.at \in Places /\ c.from \in Places /\ c.old \in Objects \cup {None} /\ c.bytes \in Bytes
      /\ c.op \in {"write", "rename", "mkdir"}
      /\ c.op = "rename" => c.old # None
      /\ c.op = "mkdir" => c.old = None
  BY <1>1, Commanded
<1>3. /\ put \in Objects
      /\ c.op = "write" => put.bytes = c.bytes
      /\ c.op = "rename" => put = c.old
      /\ c.op = "mkdir" => put.bytes = Dir
  <2>1. CASE c.op = "write"
    BY <1>2, <2>1 DEF WindowsPut, Object, Objects, Places
  <2>2. CASE c.op = "rename"
    BY <1>2, <2>2 DEF WindowsPut
  <2>3. CASE c.op = "mkdir"
    BY <1>2, <2>3 DEF WindowsPut, Object, Objects, Places, Bytes
  <2>. QED
    BY <1>2, <2>1, <2>2, <2>3
<1>4. /\ disk' = [x \in DOMAIN disk |->
                    IF x = c.at THEN put
                    ELSE IF c.op = "rename" /\ x = c.from THEN None ELSE disk[x]]
      /\ Changes(o, c.old, put) /\ UNCHANGED <<temp, outside>>
      /\ temp' = [temp EXCEPT ![o] = None]
  BY <1>1 DEF WindowsCommit
<1>5. /\ disk' \in [Places -> Objects \cup {None}]
      /\ \A x \in Places \ {c.at, c.from, o} : disk'[x] = disk[x]
  BY <1>1, <1>3, <1>4 DEF NativeTypeOK
<1>6. PICK pc \in {"ok", "unknown"} : Go(o, pc)
  BY DEF WindowsCommit
<1>7. Windows(o)
  BY DEF WindowsCommit
<1>8. Puts(o, pc, c.old, put, None)
  <2>. HIDE DEF put
  <2>. QED
    BY <1>2, <1>3, <1>4, <1>5, <1>6, <1>7 DEF Puts
<1>. QED
  BY <1>1, <1>2, <1>3, <1>6, <1>8, PlaceStep

LEMMA NativeSteps ==
  ASSUME OwnerInv, NEW o \in Ops, Native(o) \/ NativeError(o) \/ PosixTimer(o)
  PROVE  OwnerInv'
<1>1. /\ UNCHANGED <<row, coreVars, grants, queue, lease, phase, quarantined>>
      /\ faults' \in Nat
  BY DEF Native, NativeError, PosixTimer, Fault, runtimeVars, OwnerInv, OwnerTypeOK, RuntimeTypeOK
<1>2. Order(o)' = Order(o)
  BY <1>1 DEF coreVars, Order, Command, Proposed, FromTrash, Record, Req, Target
<1>3. Works(o) /\ Live(o)
  <2>1. CASE Native(o)
    BY <1>2, <2>1, IdleSteps, PrepareStep, ArchiveStep, WriteSteps, RenameStep, MkdirStep,
       CommitStep
    DEF Native, PosixStep
  <2>2. CASE NativeError(o) \/ PosixTimer(o)
    BY <1>2, <2>2, IdleSteps DEF NativeError, PosixTimer, Untouched
  <2>. QED
    BY <2>1, <2>2
<1>. QED
  BY <1>1, <1>3, WorksStep

-----------------------------------------------------------------------------
(* Leases, the life of the runtime and other programs.                     *)

(* Steps that touch neither an operation nor a file.                       *)
LEMMA QuietStep ==
  ASSUME OwnerInv, UNCHANGED <<row, nativeVars, coreVars>>, grants' \subseteq grants,
         RuntimeTypeOK', \A o \in Ops : stage[o] = "running" => AtHead(o)',
         \A t \in Tasks : lease'[t] = "held" =>
           \/ lease[t] = "held"
           \/ \A o \in Ops : Live(o) => Windows(o)
  PROVE  OwnerInv'
<1>0. CoreTypeOK /\ NativeTypeOK /\ \A p \in Ops : OpInv(p)
  BY DEF OwnerInv, OwnerTypeOK
<1>1. UNCHANGED <<disk, temp, worker, effect, outside, stage, seen, recovered, verified, exported>>
  BY DEF nativeVars, coreVars
<1>2. CoreTypeOK' /\ NativeTypeOK' /\ Kept /\ \A p \in Ops : SameOp(p)
  BY <1>0, <1>1 DEF CoreTypeOK, NativeTypeOK, Kept, SameOp
<1>3. \A p \in Ops : OpInv(p)'
  BY <1>0, <1>2, Bystander
<1>4. OnePerVolume' /\ HasTurn'
  BY <1>1 DEF OwnerInv, OnePerVolume, Unfinished, HasTurn
<1>5. LeaseExcludesWriters'
  BY <1>1 DEF OwnerInv, LeaseExcludesWriters, Live, Windows, Req
<1>6. \A p \in Ops : Noticed(p)'
  BY <1>1 DEF OwnerInv, Noticed, Renaming, Windows, Exact
<1>. QED
  BY <1>2, <1>3, <1>4, <1>5, <1>6 DEF OwnerInv, OwnerTypeOK

LEMMA LeaseSteps ==
  ASSUME OwnerInv, NEW t \in Tasks, LeaseAsk(t) \/ LeaseGrant(t) \/ LeaseRelease(t)
  PROVE  OwnerInv'
<1>0. /\ RuntimeTypeOK /\ queue \in Seq(Ops \cup Tasks)
      /\ UNCHANGED <<row, nativeVars, coreVars, grants, phase, quarantined, faults>>
  BY DEF OwnerInv, OwnerTypeOK, RuntimeTypeOK, LeaseAsk, LeaseGrant, LeaseRelease
<1>1. CASE LeaseAsk(t)
  <2>1. queue' = Append(queue, t) /\ lease' = [lease EXCEPT ![t] = "waiting"]
    BY <1>1 DEF LeaseAsk
  <2>2. RuntimeTypeOK'
    BY <1>0, <2>1 DEF RuntimeTypeOK
  <2>3. \A o \in Ops : AtHead(o) => AtHead(o)'
    BY <1>0, <2>1 DEF AtHead
  <2>4. \A u \in Tasks : lease'[u] = "held" => lease[u] = "held"
    BY <1>0, <2>1 DEF RuntimeTypeOK
  <2>. QED
    BY <1>0, <2>2, <2>3, <2>4, QuietStep DEF OwnerInv, HasTurn
<1>2. CASE LeaseGrant(t)
  <2>1. queue' = Tail(queue) /\ lease' = [lease EXCEPT ![t] = "held"] /\ queue # <<>>
    BY <1>2 DEF LeaseGrant, AtHead
  <2>2. RuntimeTypeOK'
    <3>1. queue' \in Seq(Ops \cup Tasks)
      BY <1>0, <2>1
    <3>. QED
      BY <1>0, <2>1, <3>1 DEF RuntimeTypeOK
  <2>3. \A o \in Ops : stage[o] # "running"
    BY <1>2, Values DEF LeaseGrant, AtHead, OwnerInv, HasTurn
  <2>4. \A o \in Ops : Live(o) => Windows(o)
    BY <2>3 DEF OwnerInv, OpInv, ProcessAt
  <2>. QED
    BY <1>0, <2>2, <2>3, <2>4, QuietStep
<1>3. CASE LeaseRelease(t)
  <2>1. queue' = queue /\ lease' = [lease EXCEPT ![t] = "none"]
    BY <1>3 DEF LeaseRelease
  <2>2. RuntimeTypeOK' /\ \A u \in Tasks : lease'[u] = "held" => lease[u] = "held"
    BY <1>0, <2>1 DEF RuntimeTypeOK
  <2>. QED
    BY <1>0, <2>1, <2>2, QuietStep DEF OwnerInv, HasTurn, AtHead
<1>. QED
  BY <1>1, <1>2, <1>3

LEMMA LifeSteps ==
  ASSUME OwnerInv,
         (\E o \in Ops : GrantExpires(o)) \/ Close \/ Closed \/ Restart \/ UNCHANGED vars
  PROVE  OwnerInv'
<1>1. /\ UNCHANGED <<row, nativeVars, coreVars, queue, lease, faults>> /\ grants' \subseteq grants
      /\ phase' \in {phase, "closing", "closed", "up"} /\ quarantined' \in {quarantined, FALSE}
  BY DEF GrantExpires, Close, Closed, Restart, vars, runtimeVars
<1>2. RuntimeTypeOK'
  BY <1>1 DEF OwnerInv, OwnerTypeOK, RuntimeTypeOK
<1>. QED
  BY <1>1, <1>2, QuietStep DEF OwnerInv, HasTurn, AtHead

LEMMA CrashStep ==
  ASSUME OwnerInv, Crash
  PROVE  OwnerInv'
<1>0. CoreTypeOK /\ NativeTypeOK /\ RuntimeTypeOK /\ \A p \in Ops : OpInv(p)
  BY DEF OwnerInv, OwnerTypeOK
<1>1. /\ stage' = [o \in Ops |-> IF Busy(o) THEN "gone" ELSE stage[o]]
      /\ worker' = [o \in Ops |->
           IF Live(o) /\ ~Windows(o) THEN [worker[o] EXCEPT !.pc = "dead"] ELSE worker[o]]
      /\ lease' = [t \in Tasks |-> IF lease[t] = "waiting" THEN "none" ELSE lease[t]]
      /\ queue' = <<>> /\ grants' = {} /\ phase' = "down" /\ faults' = faults + 1
      /\ UNCHANGED <<row, disk, temp, effect, outside, seen, recovered, verified, exported,
                     quarantined>>
  BY DEF Crash, Fault
<1>2. CoreTypeOK' /\ RuntimeTypeOK'
  BY <1>0, <1>1 DEF CoreTypeOK, RuntimeTypeOK, Stages
<1>3. NativeTypeOK'
  <2>1. worker' \in [Ops -> [pc : Pcs, cmd : Commands \cup {None}]]
    BY <1>0, <1>1 DEF NativeTypeOK, Pcs
  <2>. QED
    BY <1>0, <1>1, <2>1 DEF NativeTypeOK
<1>4. Kept
  BY <1>1 DEF Kept
<1>5. ASSUME NEW o \in Ops PROVE
        /\ worker'[o].cmd = worker[o].cmd
        /\ worker'[o].pc = IF Live(o) /\ ~Windows(o) THEN "dead" ELSE worker[o].pc
        /\ stage'[o] = (IF Busy(o) THEN "gone" ELSE stage[o])
        /\ stage'[o] \in {"idle", "done", "gone"} /\ (stage'[o] = "idle" <=> stage[o] = "idle")
        /\ ~Busy(o)' /\ Req(o)' = Req(o) /\ (Windows(o)' <=> Windows(o))
        /\ (Live(o)' => Live(o) /\ Windows(o))
        /\ (Dispatched(o)' => Dispatched(o)) /\ (Looked(o)' => Looked(o))
        /\ (worker'[o].pc = "none" <=> worker[o].pc = "none")
  <2>1. /\ worker'[o].cmd = worker[o].cmd
        /\ worker'[o].pc = IF Live(o) /\ ~Windows(o) THEN "dead" ELSE worker[o].pc
        /\ stage'[o] = (IF Busy(o) THEN "gone" ELSE stage[o])
    BY <1>0, <1>1 DEF NativeTypeOK
  <2>2. /\ stage'[o] \in {"idle", "done", "gone"} /\ (stage'[o] = "idle" <=> stage[o] = "idle")
        /\ ~Busy(o)' /\ Req(o)' = Req(o) /\ (Windows(o)' <=> Windows(o))
    BY <1>1, <2>1 DEF Busy, Req, Windows
  <2>3. /\ worker'[o].pc = "none" <=> worker[o].pc = "none"
        /\ Live(o)' => Live(o) /\ Windows(o)
    BY <2>1 DEF Live
  <2>. QED
    BY <1>1, <2>1, <2>2, <2>3 DEF Dispatched, Looked
<1>6. ASSUME NEW o \in Ops PROVE OpInv(o)'
  <2>1. RowAt(o)'
    BY <1>0, <1>1, <1>5 DEF OpInv, RowAt
  <2>2. ProcessAt(o)'
    BY <1>0, <1>1, <1>5 DEF OpInv, ProcessAt, Live
  <2>3. Looked(o) => /\ Fits(o)' /\ Order(o)' = Order(o) /\ Binding(o)' = Binding(o)
                     /\ (AsksOwner(o)' <=> AsksOwner(o))
                     /\ (FromTrash(Req(o))' <=> FromTrash(Req(o)))
    BY <1>0, <1>1, <1>4, SameDecision DEF OpInv, LookAt, RowAt
  <2>4. Policy(o)' <=> Policy(o)
    BY <1>5 DEF Policy, Target
  <2>5. LookAt(o)'
    BY <1>0, <1>1, <1>5, <2>3 DEF OpInv, LookAt
  <2>6. ConsentAt(o)'
    BY <1>0, <1>1, <1>5, <2>3, <2>4 DEF OpInv, ConsentAt, Looked
  <2>7. WorkAt(o)'
    <3>1. (Exact(o)' <=> Exact(o)) /\ (Renaming(o)' <=> Renaming(o)) /\ (Clean(o)' <=> Clean(o))
      BY <1>1, <1>5 DEF Exact, Renaming, Clean
    <3>2. worker[o].pc # "none" => Order(o)' = Order(o)
      BY <2>3 DEF Looked, Dispatched
    <3>. QED
      BY <1>0, <1>1, <1>5, <3>1, <3>2 DEF OpInv, WorkAt
  <2>. QED
    BY <2>1, <2>2, <2>5, <2>6, <2>7 DEF OpInv
<1>7. OnePerVolume' /\ HasTurn'
  BY <1>1, <1>5 DEF OwnerInv, OnePerVolume, Unfinished, HasTurn
<1>8. LeaseExcludesWriters'
  BY <1>5 DEF LeaseExcludesWriters
<1>9. ASSUME NEW o \in Ops PROVE Noticed(o)'
  BY <1>1, <1>5 DEF OwnerInv, Noticed, Renaming, Exact, Live
<1>. QED
  BY <1>2, <1>3, <1>6, <1>7, <1>8, <1>9 DEF OwnerInv, OwnerTypeOK

LEMMA OthersStep ==
  ASSUME OwnerInv, NEW p \in Paths, Others(p)
  PROVE  OwnerInv'
<1>0. CoreTypeOK /\ NativeTypeOK /\ RuntimeTypeOK /\ \A o \in Ops : OpInv(o)
  BY DEF OwnerInv, OwnerTypeOK
<1>1. /\ UNCHANGED <<row, stage, seen, recovered, verified, exported, grants, queue, lease, phase,
                     quarantined, faults, temp, worker, effect>>
      /\ outside' = outside + 1 /\ OutsideWrites(p)
  BY DEF Others, coreVars, runtimeVars, OutsideWrites
<1>2. PICK x \in Objects \cup {None} : disk' = [disk EXCEPT ![p] = x]
  <2>1. disk[p] \in Objects \cup {None}
    BY <1>0 DEF NativeTypeOK, Places
  <2>2. PICK b \in Contents :
          \/ disk' = [disk EXCEPT ![p] = Object(Outside, b)]
          \/ disk[p] # None /\ disk' = [disk EXCEPT ![p] = Object(disk[p].ino, b)]
          \/ disk' = [disk EXCEPT ![p] = None]
    BY <1>1 DEF OutsideWrites
  <2>3. Object(Outside, b) \in Objects /\ (disk[p] # None => Object(disk[p].ino, b) \in Objects)
    BY <2>1 DEF Object, Objects, Bytes
  <2>. QED
    BY <2>2, <2>3
<1>3. NativeTypeOK' /\ CoreTypeOK' /\ RuntimeTypeOK' /\ Kept /\ \A o \in Ops : SameOp(o)
  <2>1. NativeTypeOK'
    BY <1>0, <1>1, <1>2 DEF NativeTypeOK, Places
  <2>2. CoreTypeOK' /\ RuntimeTypeOK'
    BY <1>0, <1>1 DEF CoreTypeOK, RuntimeTypeOK
  <2>. QED
    BY <1>1, <2>1, <2>2 DEF Kept, SameOp
<1>4. \A o \in Ops : OpInv(o)'
  BY <1>0, <1>3, Bystander
<1>5. OnePerVolume' /\ HasTurn' /\ LeaseExcludesWriters'
  BY <1>1 DEF OwnerInv, OnePerVolume, Unfinished, HasTurn, AtHead, LeaseExcludesWriters, Live,
              Windows, Req
<1>6. ASSUME NEW o \in Ops PROVE Noticed(o)'
  <2>1. (Exact(o)' <=> Exact(o)) /\ (Renaming(o)' <=> Renaming(o)) /\ outside \in Nat
    BY <1>0, <1>1 DEF Exact, Renaming, Windows, NativeTypeOK
  <2>. QED
    BY <1>1, <2>1 DEF OwnerInv, Noticed
<1>. QED
  BY <1>3, <1>4, <1>5, <1>6 DEF OwnerInv, OwnerTypeOK

-----------------------------------------------------------------------------
(* The theorems.                                                           *)

LEMMA OwnerInvInit ==
  ASSUME OwnerInit
  PROVE  OwnerInv
<1>1. /\ row = [o \in Ops |-> NoRow] /\ stage = [o \in Ops |-> "idle"]
      /\ seen = [o \in Ops |-> None] /\ recovered = [o \in Ops |-> None]
      /\ verified = [o \in Ops |-> None] /\ exported = {} /\ grants = {} /\ queue = <<>>
      /\ lease = [t \in Tasks |-> "none"] /\ phase = "up" /\ quarantined = FALSE /\ faults = 0
      /\ temp = [o \in Ops |-> None] /\ worker = [o \in Ops |-> NoWorker]
      /\ effect = [o \in Ops |-> None] /\ outside = 0
  BY DEF OwnerInit, JournalInit, NativeInit
<1>2. disk \in [Places -> Objects \cup {None}]
  <2>1. ASSUME NEW x \in Paths, InitialDisk[x] # None
        PROVE  Object(x, InitialDisk[x]) \in Objects
    BY <2>1 DEF Object, Objects, Places, Bytes
  <2>. QED
    BY <2>1 DEF OwnerInit, NativeInit, Places
<1>3. OwnerTypeOK
  <2>1. NoRow \in Rows
    BY DEF NoRow, Rows, RowStates
  <2>2. NoWorker \in [pc : Pcs, cmd : Commands \cup {None}]
    BY DEF NoWorker, Pcs
  <2>3. NativeTypeOK
    BY <1>1, <1>2, <2>2 DEF NativeTypeOK
  <2>4. CoreTypeOK
    BY <1>1, <2>1 DEF CoreTypeOK, Stages
  <2>5. RuntimeTypeOK
    <3>1. queue \in Seq(Ops \cup Tasks)
      BY <1>1
    <3>2. quarantined \in BOOLEAN
      BY <1>1
    <3>. QED
      BY <1>1, <3>1, <3>2 DEF RuntimeTypeOK
  <2>. QED
    BY <2>3, <2>4, <2>5 DEF OwnerTypeOK
<1>4. ASSUME NEW o \in Ops
      PROVE  /\ row[o].state = "none" /\ stage[o] = "idle" /\ worker[o].pc = "none"
             /\ verified[o] = None /\ recovered[o] = None /\ Clean(o)
             /\ o \notin grants /\ o \notin exported
  BY <1>1 DEF NoRow, NoWorker, Clean
<1>5. ASSUME NEW o \in Ops PROVE OpInv(o)
  <2>1. ~Dispatched(o) /\ ~Looked(o) /\ ~Live(o) /\ ~Busy(o)
    BY <1>4 DEF Dispatched, Looked, Live, Busy
  <2>2. RowAt(o) /\ ProcessAt(o)
    BY <1>4, <2>1 DEF RowAt, ProcessAt, Holding
  <2>3. LookAt(o) /\ ConsentAt(o)
    BY <1>4, <2>1 DEF LookAt, ConsentAt
  <2>4. WorkAt(o)
    BY <1>4 DEF WorkAt, Clean
  <2>. QED
    BY <2>2, <2>3, <2>4 DEF OpInv
<1>6. OnePerVolume /\ HasTurn /\ LeaseExcludesWriters
  BY <1>4 DEF OnePerVolume, HasTurn, LeaseExcludesWriters, Unfinished, Holding, Live
<1>7. \A o \in Ops : Noticed(o)
  BY <1>4 DEF Noticed
<1>. QED
  BY <1>3, <1>5, <1>6, <1>7 DEF OwnerInv

LEMMA OwnerInvStep ==
  ASSUME OwnerInv, [Next]_vars
  PROVE  OwnerInv'
<1>1. ASSUME NEW o \in Ops, Submit(o) \/ Handler(o) PROVE OwnerInv'
  BY <1>1, EarlySteps, QueueSteps, NativeSteps DEF Handler
<1>2. ASSUME NEW o \in Ops,
             NativeError(o) \/ PosixTimer(o) \/ LoseReply(o) \/ JournalFails(o)
      PROVE  OwnerInv'
  BY <1>2, QueueSteps, NativeSteps
<1>3. ASSUME NEW t \in Tasks, LeaseAsk(t) \/ LeaseGrant(t) \/ LeaseRelease(t) PROVE OwnerInv'
  BY <1>3, LeaseSteps
<1>4. ASSUME NEW p \in Paths, Others(p) PROVE OwnerInv'
  BY <1>4, OthersStep
<1>. QED
  BY <1>1, <1>2, <1>3, <1>4, LifeSteps, CrashStep DEF Next

(* The inductive invariant: the row, the handler, the process and its      *)
(* effect agree, for every operation and whatever happens around it.       *)
THEOREM OwnerSafety == Spec => []OwnerInv
<1>1. OwnerInit => OwnerInv
  BY OwnerInvInit
<1>2. OwnerInv /\ [Next]_vars => OwnerInv'
  BY OwnerInvStep
<1>. QED
  BY <1>1, <1>2, PTL DEF Spec

(* Every variable keeps its type: rows, commands, recovery records and     *)
(* bindings are well formed (OwnerWorkspaceCore, LocalOperationRepository, *)
(* NativeWorkspaceTransport).                                              *)
THEOREM OwnerTypes == Spec => []OwnerTypeOK
<1>1. OwnerInv => OwnerTypeOK
  BY DEF OwnerInv
<1>. QED
  BY <1>1, OwnerSafety, PTL

(* While a task holds the lease of a repository no sandboxed worker writes *)
(* into it (AdmissionQueue, assertWorkspaceFree).                          *)
THEOREM LeaseHolderIsAlone == Spec => []LeaseExcludesWriters
<1>1. OwnerInv => LeaseExcludesWriters
  BY DEF OwnerInv
<1>. QED
  BY <1>1, OwnerSafety, PTL

(* DENIED means that nothing was changed and that nothing still can be:    *)
(* the replay of a row (LocalOperationRepository.finish).                  *)
THEOREM DenialIsHarmless == Spec => []DeniedLeftNoTrace
<1>1. OwnerInv => DeniedLeftNoTrace
  <2>. SUFFICES ASSUME OwnerInv, NEW o \in Ops, ReplayAnswer(o) = "DENIED"
                PROVE  effect[o] = None /\ temp[o] = None /\ ~Live(o)
    BY DEF DeniedLeftNoTrace
  <2>1. row[o].state = "DENIED"
    BY DEF ReplayAnswer
  <2>2. worker[o].pc \in {"none", "nochange"}
    BY <2>1 DEF OwnerInv, OpInv, ProcessAt
  <2>. QED
    BY <2>2 DEF OwnerInv, OpInv, WorkAt, Clean, Live
<1>. QED
  BY <1>1, OwnerSafety, PTL

(* APPLIED means that exactly what was observed and proposed was done      *)
(* (OwnerWorkspaceCore.mutate and the two workers).                        *)
THEOREM AppliedMeansExact == Spec => []AppliedIsExact
<1>1. OwnerInv => AppliedIsExact
  <2>. SUFFICES ASSUME OwnerInv, NEW o \in Ops, row[o].state = "APPLIED", row[o].kind = "MUTATION"
                PROVE  LET c == Order(o) IN
                       /\ effect[o] # None /\ effect[o].at = c.at
                       /\ \/ /\ effect[o].taken = c.old
                             /\ effect[o].put.bytes = CASE c.op = "write" -> c.bytes
                                                        [] c.op = "rename" -> c.old.bytes
                                                        [] c.op = "mkdir" -> Dir
                          \/ c.op = "rename" /\ ~Windows(o) /\ outside > 1
    BY DEF AppliedIsExact, Order
  <2>1. worker[o].pc = "ok" /\ worker[o].cmd = Order(o)
    BY DEF OwnerInv, OpInv, ProcessAt, WorkAt
  <2>2. effect[o] # None /\ effect[o].at = Order(o).at /\ (Renaming(o) \/ Exact(o))
    BY <2>1 DEF OwnerInv, OpInv, WorkAt
  <2>3. Exact(o) \/ (Renaming(o) /\ outside > 1)
    BY <2>1, <2>2 DEF OwnerInv, Noticed
  <2>. QED
    BY <2>1, <2>2, <2>3 DEF Exact, Renaming
<1>. QED
  BY <1>1, OwnerSafety, PTL

(* What an operation took away is in the vault, under its reserved name,   *)
(* at its new place or in the recovery record (writeRecoveryRecord and the *)
(* archive of the workers).                                                *)
THEOREM NothingIsLost == Spec => []NothingLost
<1>1. OwnerInv => NothingLost
  <2>. SUFFICES ASSUME OwnerInv, NEW o \in Ops, effect[o] # None, effect[o].taken # None
                PROVE  \/ effect[o].taken \in {temp[o], disk[o]}
                       \/ recovered[o] # None /\ recovered[o].object.bytes = effect[o].taken.bytes
                       \/ effect[o].put = effect[o].taken
    BY DEF NothingLost
  <2>1. worker[o].pc # "none" /\ Dispatched(o)
    BY DEF OwnerInv, OpInv, WorkAt, Clean, Dispatched
  <2>2. worker[o].cmd = Order(o)
    BY <2>1 DEF OwnerInv, OpInv, WorkAt
  <2>3. CASE effect[o].taken \in {None, temp[o], effect[o].put}
    BY <2>3
  <2>4. CASE worker[o].cmd.op = "write" /\ effect[o].taken = worker[o].cmd.old
    BY <2>1, <2>2, <2>4 DEF OwnerInv, OpInv, ConsentAt
  <2>. QED
    BY <2>3, <2>4 DEF OwnerInv, OpInv, WorkAt
<1>. QED
  BY <1>1, OwnerSafety, PTL

(* What is delicate was put before the owner.                              *)
LEMMA DelicateAsks ==
  ASSUME OwnerInv, NEW o \in Ops, effect[o] # None, Delicate(o)
  PROVE  AsksOwner(o)
<1>. DEFINE q == Req(o)
            s == seen[o]
<1>1. worker[o].pc # "none" /\ Dispatched(o) /\ Looked(o) /\ CoreTypeOK
  BY DEF OwnerInv, OwnerTypeOK, OpInv, WorkAt, Clean, Dispatched, Looked
<1>2. /\ q \in AllRequests /\ q.kind \notin Reads /\ Fits(o)
      /\ q.kind = "mkdir" => s = None
      /\ FromTrash(q) => s # None
  BY <1>1 DEF OwnerInv, OpInv, RowAt, ProcessAt, LookAt
<1>3. worker[o].cmd = Order(o)
      /\ (Order(o).op = "write" => effect[o].put.bytes = Order(o).bytes)
  BY <1>1 DEF OwnerInv, OpInv, WorkAt
<1>4. CASE q.kind = "trash"
  BY <1>4, Screening DEF AsksOwner
<1>5. CASE worker[o].cmd.op = "write" /\ effect[o].put.bytes \in Sensitive
  <2>1. /\ Order(o).bytes = Proposed(q, s)
        /\ q.kind \notin {"mkdir", "move", "trash"} /\ ~FromTrash(q)
    BY <1>1, <1>2, <1>3, <1>5, OrderType
  <2>2. Proposed(q, s) \in Sensitive
    BY <1>3, <1>5, <2>1
  <2>. QED
    BY <1>2, <2>1, <2>2, Screening DEF AsksOwner, Reads
<1>6. CASE s # None /\ s.bytes \in Sensitive \cup {Dir}
  <2>1. CASE q.kind = "move" \/ FromTrash(q)
    BY <1>6, <2>1, Screening DEF AsksOwner
  <2>2. CASE q.kind \notin {"move", "trash"} /\ ~FromTrash(q)
    <3>1. s.bytes \in Sensitive
      BY <1>2, <1>6, <2>2 DEF Fits, Acceptable, Reads
    <3>. QED
      BY <1>2, <1>6, <2>2, <3>1, Screening DEF AsksOwner, Reads
  <2>. QED
    BY <1>4, <2>1, <2>2
<1>. QED
  BY <1>4, <1>5, <1>6 DEF Delicate

(* Nothing the screening calls sensitive is changed or handed out unless   *)
(* the owner was shown exactly that, or a local policy opened both roots   *)
(* (requireConsent, LocalOwnerConsent.consume).                            *)
THEOREM ConsentIsAsked == Spec => []OwnerConsented
<1>1. OwnerInv => OwnerConsented
  <2>. SUFFICES ASSUME OwnerInv, NEW o \in Ops, ~Policy(o)
                PROVE  /\ effect[o] # None /\ Delicate(o) =>
                            /\ verified[o] # None /\ verified[o].request = Req(o)
                            /\ verified[o].old = seen[o]
                            /\ verified[o].new # None => effect[o].put.bytes = verified[o].new
                       /\ o \in exported => verified[o] # None /\ verified[o].old = seen[o]
    BY DEF OwnerConsented, Policy
  <2>1. verified[o] # None =>
          /\ verified[o].request = Req(o) /\ verified[o].old = seen[o]
          /\ verified[o].new = IF Req(o).kind = "export" THEN None ELSE Order(o).bytes
    <3>1. verified[o] # None => verified[o] = Binding(o)
      BY DEF OwnerInv, OpInv, ConsentAt
    <3>. QED
      BY <3>1 DEF Binding, Order
  <2>2. ASSUME effect[o] # None, Delicate(o)
        PROVE  /\ verified[o] # None
               /\ verified[o].new # None => effect[o].put.bytes = verified[o].new
    <3>1. worker[o].pc # "none" /\ Dispatched(o) /\ Looked(o) /\ CoreTypeOK
      BY <2>2 DEF OwnerInv, OwnerTypeOK, OpInv, WorkAt, Clean, Dispatched, Looked
    <3>2. verified[o] # None
      BY <2>2, <3>1, DelicateAsks DEF OwnerInv, OpInv, ConsentAt
    <3>3. /\ Req(o) \in AllRequests /\ Req(o).kind \notin Reads /\ Fits(o)
          /\ Req(o).kind = "mkdir" => seen[o] = None
          /\ FromTrash(Req(o)) => seen[o] # None
      BY <3>1 DEF OwnerInv, OpInv, RowAt, ProcessAt, LookAt
    <3>4. /\ Order(o).op \in {"write", "rename", "mkdir"}
          /\ Order(o).op \in {"rename", "mkdir"} => Order(o).bytes = None
      BY <3>1, <3>3, OrderType DEF Commands
    <3>5. Order(o).op = "write" => effect[o].put.bytes = Order(o).bytes
      BY <2>2, <3>1 DEF OwnerInv, OpInv, WorkAt
    <3>. QED
      BY <2>1, <3>2, <3>4, <3>5
  <2>3. o \in exported => verified[o] # None
    BY DEF OwnerInv, OpInv, ConsentAt
  <2>. QED
    BY <2>1, <2>2, <2>3
<1>. QED
  BY <1>1, OwnerSafety, PTL

(* Only a live process of an operation changes what the operation did.     *)
LEMMA OnlyTheLiveAct ==
  ASSUME OwnerInv, [Next]_vars, NEW o \in Ops, effect'[o] # effect[o]
  PROVE  Live(o)
<1>1. effect \in [Ops -> Effects \cup {None}]
  BY DEF OwnerInv, OwnerTypeOK, NativeTypeOK
<1>2. ASSUME NEW p \in Ops, Native(p) PROVE Live(o)
  <2>1. ASSUME NEW taken, NEW put, Changes(p, taken, put), Live(p) PROVE Live(o)
    BY <1>1, <2>1 DEF Changes
  <2>2. ~Untouched
    BY DEF Untouched
  <2>3. ~PosixCheck(p) /\ ~PosixReread(p) /\ ~PosixVerify(p) /\ ~WindowsRollback(p)
    BY <2>2 DEF PosixCheck, PosixReread, PosixVerify, WindowsRollback
  <2>4. ~PosixPrepare(p) /\ ~PosixArchive(p)
    BY <2>2 DEF PosixPrepare, PosixArchive
  <2>5. CASE PosixExchange(p) \/ PosixCreate(p) \/ PosixRename(p) \/ PosixMkdir(p)
    BY <2>1, <2>2, <2>5 DEF PosixExchange, PosixCreate, PosixRename, PosixMkdir, At, Live
  <2>6. CASE WindowsCommit(p)
    BY <2>1, <2>6 DEF WindowsCommit, Live
  <2>. QED
    BY <1>2, <2>3, <2>4, <2>5, <2>6 DEF Native, PosixStep
<1>3. ASSUME NEW p \in Ops, Submit(p) \/ Handler(p) PROVE Live(o)
  BY <1>2, <1>3 DEF Handler, Submit, Observe, OwnerVerifies, OwnerRefuses, Recheck, Spend, Reveal,
                    AdmitNative, Settle, nativeVars
<1>4. ASSUME NEW p \in Ops, \/ GrantExpires(p) \/ NativeError(p) \/ PosixTimer(p)
                            \/ LoseReply(p) \/ JournalFails(p)
      PROVE  FALSE
  BY <1>4 DEF GrantExpires, NativeError, PosixError, PosixTimer, LoseReply, JournalFails,
              Untouched, nativeVars
<1>5. ASSUME NEW t \in Tasks, LeaseAsk(t) \/ LeaseGrant(t) \/ LeaseRelease(t) PROVE FALSE
  BY <1>5 DEF LeaseAsk, LeaseGrant, LeaseRelease, nativeVars
<1>6. ASSUME NEW p \in Paths, Others(p) PROVE FALSE
  BY <1>6 DEF Others, OutsideWrites
<1>7. ASSUME Close \/ Closed \/ Crash \/ Restart \/ UNCHANGED vars PROVE FALSE
  BY <1>7 DEF Close, Closed, Crash, Restart, vars, nativeVars
<1>. QED
  BY <1>3, <1>4, <1>5, <1>6, <1>7 DEF Next

(* The journal fences the disk: an effect belongs to the one unfinished    *)
(* mutation of its volume (the partial unique index of local_operations).  *)
THEOREM JournalFencesDisk == Spec => EffectsAreFenced
<1>1. OwnerInv /\ [Next]_vars =>
        [\A o \in Ops : effect'[o] # effect[o]
           => /\ Unfinished(o)
              /\ \A p \in Ops \ {o} : row[p].volume = row[o].volume => ~Unfinished(p)]_vars
  <2>. SUFFICES ASSUME OwnerInv, [Next]_vars, NEW o \in Ops, effect'[o] # effect[o]
                PROVE  /\ Unfinished(o)
                       /\ \A p \in Ops \ {o} : row[p].volume = row[o].volume => ~Unfinished(p)
    OBVIOUS
  <2>1. Live(o)
    BY OnlyTheLiveAct
  <2>2. Unfinished(o)
    BY <2>1, Commanded DEF OwnerInv, OwnerTypeOK
  <2>. QED
    BY <2>2 DEF OwnerInv, OnePerVolume
<1>. QED
  BY <1>1, OwnerSafety, PTL DEF Spec, EffectsAreFenced

-----------------------------------------------------------------------------
(* The search of the workspace (SearchCursors): a second specification,    *)
(* about the cursors of its pages and what the pages return.               *)

(* The shape of the calls and of the map.                                  *)
SearchShape ==
  /\ DOMAIN call = Calls /\ DOMAIN cursors = Calls
  /\ \A k \in Calls : DOMAIN call[k] = {"at", "chain", "state", "page", "work", "seen"}
  /\ \A k \in Calls : call[k].at \in {"idle", "walking", "done"}
  /\ IsFiniteSet(LiveCursors) /\ Cardinality(LiveCursors) <= MaxCursors

Stored(k, c) == cursors[k] # Nil /\ cursors[k].chain = c
Walked(k, c) == call[k].at = "walking" /\ call[k].chain = c

(* A cursor is left by a call that is over; a chain whose state is         *)
(* anywhere was started; and it is in one place.                           *)
ChainAt(c) ==
  \A j, k \in Calls :
    /\ Stored(k, c) => call[k].at = "done" /\ call[c].at # "idle"
    /\ Walked(k, c) => call[c].at # "idle"
    /\ ~(Stored(j, c) /\ Walked(k, c))
    /\ Stored(j, c) /\ Stored(k, c) => j = k
    /\ Walked(j, c) /\ Walked(k, c) => j = k

SearchInv ==
  /\ SearchShape /\ \A c \in Calls : ChainAt(c)
  /\ \A k \in Calls : cursors[k] # Nil => call[k].at = "done" /\ cursors[k].chain \in Calls
  /\ \A k \in Calls : call[k].at = "walking" => call[k].chain \in Calls

LEMMA SearchInvInit ==
  ASSUME SearchInit
  PROVE  SearchInv
<1>1. call = [k \in Calls |-> Idle] /\ cursors = [k \in Calls |-> Nil]
  BY DEF SearchInit
<1>2. \A k \in Calls : call[k].at = "idle" /\ cursors[k] = Nil
  BY <1>1 DEF Idle
<1>3. LiveCursors = {}
  BY <1>2 DEF LiveCursors
<1>4. SearchShape
  <2>1. \A k \in Calls : DOMAIN call[k] = {"at", "chain", "state", "page", "work", "seen"}
    BY <1>1 DEF Idle
  <2>. QED
    BY <1>1, <1>2, <1>3, <2>1, FS_EmptySet, CursorsAreCounted DEF SearchShape
<1>. QED
  BY <1>2, <1>4 DEF SearchInv, ChainAt, Stored, Walked

(* A turn of a page's loop stays in its call and its chain.                *)
LEMMA TurnStep ==
  ASSUME SearchInv, NEW k \in Calls, Emit(k) \/ Rescan(k) \/ List(k) \/ Walk(k) \/ Denied(k)
  PROVE  SearchInv'
<1>1. UNCHANGED cursors
  BY DEF Emit, Rescan, List, Walk, Denied
<1>2. PICK r : /\ call' = [call EXCEPT ![k] = r] /\ r.at = call[k].at /\ r.chain = call[k].chain
               /\ DOMAIN r = {"at", "chain", "state", "page", "work", "seen"}
  <2>. DEFINE b == call[k]
  <2>0. DOMAIN b = {"at", "chain", "state", "page", "work", "seen"}
    BY DEF SearchInv, SearchShape
  <2>1. ASSUME NEW st, Advance(k, st)
        PROVE  \E r : /\ call' = [call EXCEPT ![k] = r] /\ r.at = b.at /\ r.chain = b.chain
                      /\ DOMAIN r = DOMAIN b
    <3>. DEFINE r == [b EXCEPT !.state = st, !.work = b.work + 1]
    <3>1. call' = [call EXCEPT ![k] = r] /\ r.at = b.at /\ r.chain = b.chain
          /\ DOMAIN r = DOMAIN b
      BY <2>0, <2>1 DEF Advance
    <3>. QED
      BY <3>1
  <2>2. CASE Emit(k)
    <3>. DEFINE r == [b EXCEPT !.page = Append(b.page, Head(b.state.pending)),
                               !.state.pending = Tail(b.state.pending)]
    <3>1. call' = [call EXCEPT ![k] = r] /\ r.at = b.at /\ r.chain = b.chain
          /\ DOMAIN r = DOMAIN b
      BY <2>0, <2>2 DEF Emit
    <3>. QED
      BY <2>0, <3>1
  <2>3. CASE /\ Walk(k)
             /\ call' = [call EXCEPT ![k].state = Popped(call[k].state)]
    <3>. DEFINE r == [b EXCEPT !.state = Popped(b.state)]
    <3>1. call' = [call EXCEPT ![k] = r] /\ r.at = b.at /\ r.chain = b.chain
          /\ DOMAIN r = DOMAIN b
      BY <2>0, <2>3
    <3>. QED
      BY <2>0, <3>1
  <2>4. CASE \E st : Advance(k, st)
    BY <2>0, <2>1, <2>4
  <2>5. CASE List(k)
    <3>1. PICK l : call' = [call EXCEPT ![k] = [b EXCEPT !.seen = l]]
      BY <2>0, <2>5 DEF List
    <3>. DEFINE r == [b EXCEPT !.seen = l]
    <3>2. call' = [call EXCEPT ![k] = r] /\ r.at = b.at /\ r.chain = b.chain
          /\ DOMAIN r = DOMAIN b
      BY <2>0, <3>1
    <3>. QED
      BY <2>0, <3>2
  <2>. QED
    BY <2>2, <2>3, <2>4, <2>5 DEF Rescan, Walk, Denied
<1>3. /\ call'[k].at = call[k].at /\ call'[k].chain = call[k].chain
      /\ \A j \in Calls \ {k} : call'[j] = call[j]
      /\ DOMAIN call' = Calls
      /\ \A j \in Calls : DOMAIN call'[j] = {"at", "chain", "state", "page", "work", "seen"}
  BY <1>2 DEF SearchInv, SearchShape
<1>4. \A j, c \in Calls : /\ call'[j].at = call[j].at
                          /\ Stored(j, c)' <=> Stored(j, c)
                          /\ Walked(j, c)' <=> Walked(j, c)
  BY <1>1, <1>3 DEF Stored, Walked
<1>5. SearchShape'
  BY <1>1, <1>3, <1>4 DEF SearchInv, SearchShape, LiveCursors
<1>6. \A c \in Calls : ChainAt(c)'
  BY <1>4 DEF SearchInv, ChainAt
<1>. QED
  BY <1>1, <1>3, <1>5, <1>6 DEF SearchInv

(* A call takes up a chain: its own, or the one a cursor stored.           *)
LEMMA TakeStep ==
  ASSUME SearchInv, NEW k \in Calls, Start(k) \/ \E j \in Calls : Resume(k, j)
  PROVE  SearchInv'
<1>1. PICK c \in Calls :
        /\ \E st : call' = [call EXCEPT ![k] =
                              [Idle EXCEPT !.at = "walking", !.chain = c, !.state = st]]
        /\ call[k].at = "idle"
        /\ DOMAIN cursors' = Calls /\ \A m \in Calls : cursors'[m] \in {cursors[m], Nil}
        /\ \A m \in Calls : ~Stored(m, c)' /\ ~Walked(m, c)
        /\ c = k \/ call[c].at # "idle"
  <2>0. DOMAIN Pruned = Calls /\ \A m \in Calls : Pruned[m] \in {cursors[m], Nil}
    BY DEF Pruned
  <2>1. CASE Start(k)
    <3>1. cursors' = Pruned /\ call[k].at = "idle"
      BY <2>1 DEF Start, Ready
    <3>2. \A m \in Calls : ~Stored(m, k) /\ ~Walked(m, k)
      BY <3>1 DEF SearchInv, ChainAt
    <3>. QED
      BY <2>0, <2>1, <3>1, <3>2 DEF Start, Stored
  <2>2. CASE \E j \in Calls : Resume(k, j)
    <3>1. PICK j \in Calls : Resume(k, j)
      BY <2>2
    <3>2. cursors[j] # Nil /\ call[k].at = "idle" /\ cursors' = [Pruned EXCEPT ![j] = Nil]
      BY <2>0, <3>1 DEF Resume, Ready
    <3>3. PICK c \in Calls : c = cursors[j].chain
      BY <3>2 DEF SearchInv
    <3>4. Stored(j, c) /\ call' = [call EXCEPT ![k] =
            [Idle EXCEPT !.at = "walking", !.chain = c, !.state = cursors[j].state]]
      BY <3>1, <3>2, <3>3 DEF Stored, Resume
    <3>5. call[c].at # "idle" /\ (\A m \in Calls : Stored(m, c) => m = j)
          /\ \A m \in Calls : ~Walked(m, c)
      BY <3>4 DEF SearchInv, ChainAt
    <3>6. DOMAIN cursors' = Calls /\ (\A m \in Calls : cursors'[m] \in {cursors[m], Nil})
          /\ cursors'[j] = Nil
      BY <2>0, <3>2
    <3>7. \A m \in Calls : ~Stored(m, c)'
      BY <3>5, <3>6 DEF Stored
    <3>. QED
      BY <3>2, <3>5, <3>6, <3>7, <3>4
  <2>. QED
    BY <2>1, <2>2
<1>2. /\ call'[k].at = "walking" /\ call'[k].chain = c
      /\ \A j \in Calls \ {k} : call'[j] = call[j]
      /\ DOMAIN call' = Calls
      /\ \A j \in Calls : DOMAIN call'[j] = {"at", "chain", "state", "page", "work", "seen"}
  BY <1>1 DEF SearchInv, SearchShape, Idle
<1>3. SearchShape'
  <2>1. LiveCursors' \subseteq LiveCursors
    BY <1>1 DEF LiveCursors
  <2>2. IsFiniteSet(LiveCursors') /\ Cardinality(LiveCursors') <= Cardinality(LiveCursors)
    BY <2>1, FS_Subset DEF SearchInv, SearchShape
  <2>3. /\ Cardinality(LiveCursors) \in Nat /\ Cardinality(LiveCursors') \in Nat
        /\ Cardinality(LiveCursors) <= MaxCursors
    BY <2>2, FS_CardinalityType DEF SearchInv, SearchShape
  <2>4. Cardinality(LiveCursors') <= MaxCursors
    BY <2>2, <2>3, CursorsAreCounted
  <2>. QED
    BY <1>1, <1>2, <2>2, <2>4 DEF SearchInv, SearchShape
<1>4. \A j, b \in Calls : /\ Stored(j, b)' => Stored(j, b) /\ j # k /\ b # c
                          /\ Walked(j, b)' <=> IF j = k THEN b = c ELSE Walked(j, b)
                          /\ b = c => ~Walked(j, b)
  BY <1>1, <1>2 DEF Stored, Walked, SearchInv
<1>5. \A b \in Calls : call'[b].at = "idle" => call[b].at = "idle" /\ b # c
  BY <1>1, <1>2
<1>6. ASSUME NEW b \in Calls PROVE ChainAt(b)'
  BY <1>1, <1>2, <1>4, <1>5 DEF SearchInv, ChainAt
<1>7. \A j \in Calls : cursors'[j] # Nil => call'[j].at = "done" /\ cursors'[j].chain \in Calls
  BY <1>1, <1>2 DEF SearchInv
<1>8. \A j \in Calls : call'[j].at = "walking" => call'[j].chain \in Calls
  BY <1>2 DEF SearchInv
<1>. QED
  BY <1>3, <1>6, <1>7, <1>8 DEF SearchInv

(* A page is over: its chain is stored under the call, or is no more.      *)
LEMMA PageStep ==
  ASSUME SearchInv, NEW k \in Calls, EndPage(k) \/ Fail(k)
  PROVE  SearchInv'
<1>1. /\ call[k].at = "walking" /\ call' = [call EXCEPT ![k] = [Idle EXCEPT !.at = "done"]]
      /\ \/ cursors' = cursors
         \/ /\ \E st : cursors' = [cursors EXCEPT ![k] = [chain |-> call[k].chain, state |-> st]]
            /\ ~(Cardinality(LiveCursors) >= MaxCursors)
  BY DEF EndPage, Fail
<1>. DEFINE c == call[k].chain
<1>2. /\ call'[k].at = "done" /\ c \in Calls /\ cursors[k] = Nil /\ Walked(k, c)
      /\ \A j \in Calls \ {k} : call'[j] = call[j] /\ cursors'[j] = cursors[j]
      /\ cursors'[k] = Nil \/ cursors'[k].chain = c
      /\ DOMAIN call' = Calls /\ DOMAIN cursors' = Calls
      /\ \A j \in Calls : DOMAIN call'[j] = {"at", "chain", "state", "page", "work", "seen"}
  BY <1>1 DEF SearchInv, SearchShape, Idle, Walked
<1>3. SearchShape'
  <2>1. IsFiniteSet(LiveCursors) /\ Cardinality(LiveCursors) \in Nat
        /\ Cardinality(LiveCursors) <= MaxCursors
    BY FS_CardinalityType DEF SearchInv, SearchShape
  <2>2. CASE cursors'[k] = Nil
    <3>1. LiveCursors' = LiveCursors
      BY <1>2, <2>2 DEF LiveCursors
    <3>. QED
      BY <1>2, <2>1, <3>1 DEF SearchInv, SearchShape
  <2>3. CASE cursors'[k] # Nil
    <3>1. LiveCursors' = LiveCursors \cup {k} /\ k \notin LiveCursors
      BY <1>2, <2>3 DEF LiveCursors
    <3>2. /\ IsFiniteSet(LiveCursors \cup {k})
          /\ Cardinality(LiveCursors \cup {k}) = Cardinality(LiveCursors) + 1
      BY <2>1, <3>1, FS_AddElement
    <3>3. Cardinality(LiveCursors) < MaxCursors
      BY <1>1, <1>2, <2>1, <2>3, CursorsAreCounted
    <3>. QED
      BY <1>2, <2>1, <3>1, <3>2, <3>3, CursorsAreCounted DEF SearchInv, SearchShape
  <2>. QED
    BY <2>2, <2>3
<1>4. \A j, b \in Calls : /\ Walked(j, b)' <=> Walked(j, b) /\ j # k
                          /\ Stored(j, b)' => (Stored(j, b) /\ j # k) \/ (j = k /\ b = c)
  BY <1>2 DEF Stored, Walked
<1>5. \A j \in Calls : ~Stored(j, c) /\ (Walked(j, c) => j = k)
  BY <1>2 DEF SearchInv, ChainAt
<1>6. \A b \in Calls : call'[b].at = "idle" => call[b].at = "idle" /\ b # k
  BY <1>1, <1>2
<1>7. call[c].at # "idle"
  BY <1>2 DEF SearchInv, ChainAt
<1>8. ASSUME NEW b \in Calls PROVE ChainAt(b)'
  BY <1>2, <1>4, <1>5, <1>6, <1>7, <1>8 DEF SearchInv, ChainAt
<1>9. \A j \in Calls : cursors'[j] # Nil => call'[j].at = "done" /\ cursors'[j].chain \in Calls
  BY <1>2 DEF SearchInv
<1>10. \A j \in Calls : call'[j].at = "walking" => call'[j].chain \in Calls
  BY <1>2 DEF SearchInv
<1>. QED
  BY <1>3, <1>8, <1>9, <1>10 DEF SearchInv

(* The state of a search is in one place, and the map stays bounded,       *)
(* although calls interleave between the reads (OwnerWorkspaceCore.search, *)
(* pruneSearchCursors).                                                    *)
THEOREM CursorsServeOnce == SearchSpec => []CursorsAreSpentOnce
<1>1. SearchInit => SearchInv
  BY SearchInvInit
<1>2. SearchInv /\ [SearchNext]_searchVars => SearchInv'
  <2>. SUFFICES ASSUME SearchInv, [SearchNext]_searchVars PROVE SearchInv'
    OBVIOUS
  <2>1. ASSUME NEW k \in Calls,
               \/ Start(k) \/ (\E j \in Calls : Resume(k, j)) \/ Emit(k) \/ Rescan(k)
               \/ List(k) \/ Walk(k) \/ Denied(k) \/ EndPage(k) \/ Fail(k)
        PROVE  SearchInv'
    BY <2>1, TakeStep, TurnStep, PageStep
  <2>2. CASE UNCHANGED <<call, cursors>>
    BY <2>2 DEF SearchInv, SearchShape, ChainAt, Stored, Walked, LiveCursors
  <2>. QED
    BY <2>1, <2>2 DEF SearchNext, ExpireChain, Edit, Change, searchVars
<1>3. SearchInv => CursorsAreSpentOnce
  <2>. SUFFICES ASSUME SearchInv, NEW c \in Calls
                PROVE  Cardinality({k \in Calls : Stored(k, c)})
                         + Cardinality({k \in Calls : Walked(k, c)}) <= 1
    BY DEF CursorsAreSpentOnce, SearchInv, SearchShape, Stored, Walked
  <2>. DEFINE S == {k \in Calls : Stored(k, c)}
              W == {k \in Calls : Walked(k, c)}
  <2>1. \A j, k \in Calls : /\ ~(Stored(j, c) /\ Walked(k, c))
                            /\ Stored(j, c) /\ Stored(k, c) => j = k
                            /\ Walked(j, c) /\ Walked(k, c) => j = k
    BY DEF SearchInv, ChainAt
  <2>2. S = {} \/ \E j \in Calls : S = {j}
    BY <2>1
  <2>3. W = {} \/ \E j \in Calls : W = {j}
    BY <2>1
  <2>4. S = {} \/ W = {}
    BY <2>1
  <2>5. Cardinality({}) = 0 /\ \A j \in Calls : Cardinality({j}) = 1
    BY FS_EmptySet, FS_Singleton
  <2>. HIDE DEF S, W
  <2>6. Cardinality(S) + Cardinality(W) <= 1
    BY <2>2, <2>3, <2>4, <2>5
  <2>. QED
    BY <2>6 DEF S, W
<1>. QED
  BY <1>1, <1>2, <1>3, PTL DEF SearchSpec

-----------------------------------------------------------------------------
(* The n-th number of a finite set: the sequence of them is in order, and  *)
(* it is the whole set.                                                    *)
LEMMA NthEnumerates ==
  ASSUME NEW S \in SUBSET Nat, IsFiniteSet(S)
  PROVE  /\ Cardinality(S) \in Nat
         /\ \A n \in 1..Cardinality(S) : Nth(S, n) \in S
         /\ \A m, n \in 1..Cardinality(S) : m < n => Nth(S, m) < Nth(S, n)
         /\ \A l \in S : \E n \in 1..Cardinality(S) : Nth(S, n) = l
         /\ \A l \in S : Cardinality({j \in S : j < l}) \in 0..(Cardinality(S) - 1)
         /\ \A k, l \in S : Cardinality({j \in S : j < k}) = Cardinality({j \in S : j < l}) => k = l
         /\ \A n \in 1..Cardinality(S) : Cardinality({j \in S : j < Nth(S, n)}) = n - 1
<1>. DEFINE C == Cardinality(S)
            B(l) == {j \in S : j < l}
            rank == [l \in S |-> Cardinality(B(l))]
<1>0. \A l \in S : l \in Nat
  OBVIOUS
<1>1. C \in Nat
  BY FS_CardinalityType
<1>2. \A l \in S : IsFiniteSet(B(l)) /\ rank[l] \in Nat /\ rank[l] < C
  <2>. SUFFICES ASSUME NEW l \in S PROVE IsFiniteSet(B(l)) /\ rank[l] \in Nat /\ rank[l] < C
    OBVIOUS
  <2>1. B(l) \in SUBSET S /\ l \notin B(l)
    OBVIOUS
  <2>2. /\ IsFiniteSet(B(l)) /\ Cardinality(B(l)) <= C
        /\ (C = Cardinality(B(l)) => S = B(l))
    BY <2>1, FS_Subset
  <2>3. Cardinality(B(l)) \in Nat
    BY <2>2, FS_CardinalityType
  <2>. QED
    BY <1>1, <2>1, <2>2, <2>3
<1>3. \A k, l \in S : k < l => rank[k] < rank[l]
  <2>. SUFFICES ASSUME NEW k \in S, NEW l \in S, k < l PROVE rank[k] < rank[l]
    OBVIOUS
  <2>1. B(k) \in SUBSET B(l) /\ k \in B(l) /\ k \notin B(k)
    <3>1. \A j \in S : j < k => j < l
      BY <1>0
    <3>2. ~(k < k)
      BY <1>0
    <3>. QED
      BY <3>1, <3>2
  <2>2. /\ Cardinality(B(k)) <= Cardinality(B(l))
        /\ (Cardinality(B(l)) = Cardinality(B(k)) => B(l) = B(k))
    BY <1>2, <2>1, FS_Subset
  <2>. QED
    BY <1>2, <2>1, <2>2
<1>4. \A k, l \in S : rank[k] = rank[l] => k = l
  <2>. SUFFICES ASSUME NEW k \in S, NEW l \in S, rank[k] = rank[l] PROVE k = l
    OBVIOUS
  <2>1. rank[k] \in Nat /\ rank[l] \in Nat
    BY <1>2
  <2>2. ~(k < l)
    <3>1. k < l => rank[k] < rank[l]
      BY <1>3
    <3>. HIDE DEF rank
    <3>. QED
      BY <2>1, <3>1
  <2>3. ~(l < k)
    <3>1. l < k => rank[l] < rank[k]
      BY <1>3
    <3>. HIDE DEF rank
    <3>. QED
      BY <2>1, <3>1
  <2>. QED
    BY <1>0, <2>2, <2>3
<1>5. \A n \in 1..C : \E l \in S : rank[l] = n - 1
  <2>. DEFINE R == 0..(C - 1)
  <2>1. IsFiniteSet(R) /\ Cardinality(R) = C
    <3>1. IsFiniteSet(R) /\ Cardinality(R) = IF 0 > C - 1 THEN 0 ELSE (C - 1) - 0 + 1
      BY <1>1, FS_Interval
    <3>. QED
      BY <1>1, <3>1
  <2>2. rank \in Injection(S, R)
    <3>1. rank \in [S -> R]
      BY <1>1, <1>2
    <3>. QED
      BY <1>4, <3>1 DEF Injection, IsInjective
  <2>3. rank \in Surjection(S, R)
    BY <2>1, <2>2, FS_Injection
  <2>. HIDE DEF rank
  <2>4. \A i \in R : \E l \in S : rank[l] = i
    BY <2>3 DEF Surjection
  <2>. QED
    BY <1>1, <2>4
<1>6. \A n \in 1..C : Nth(S, n) \in S /\ rank[Nth(S, n)] = n - 1
  BY <1>5 DEF Nth
<1>9. /\ \A l \in S : Cardinality(B(l)) \in 0..(C - 1)
      /\ \A k, l \in S : Cardinality(B(k)) = Cardinality(B(l)) => k = l
      /\ \A n \in 1..C : Cardinality(B(Nth(S, n))) = n - 1
  <2>1. \A l \in S : Cardinality(B(l)) = rank[l]
    OBVIOUS
  <2>. HIDE DEF rank, B, C
  <2>2. \A l \in S : Cardinality(B(l)) \in 0..(C - 1)
    BY <1>1, <1>2, <2>1
  <2>3. \A k, l \in S : Cardinality(B(k)) = Cardinality(B(l)) => k = l
    BY <1>4, <2>1
  <2>4. \A n \in 1..C : Cardinality(B(Nth(S, n))) = n - 1
    BY <1>6, <2>1
  <2>. QED
    BY <2>2, <2>3, <2>4
<1>. HIDE DEF rank
<1>7. \A m, n \in 1..C : m < n => Nth(S, m) < Nth(S, n)
  <2>. SUFFICES ASSUME NEW m \in 1..C, NEW n \in 1..C, m < n PROVE Nth(S, m) < Nth(S, n)
    OBVIOUS
  <2>. DEFINE a == Nth(S, m)
              b == Nth(S, n)
  <2>1. a \in S /\ b \in S /\ rank[a] = m - 1 /\ rank[b] = n - 1
    BY <1>6
  <2>. HIDE DEF a, b
  <2>2. ~(b < a) /\ b # a
    BY <1>1, <1>3, <2>1
  <2>3. a < b
    BY <2>1, <2>2
  <2>. QED
    BY <2>3 DEF a, b
<1>8. ASSUME NEW l \in S PROVE \E n \in 1..C : Nth(S, n) = l
  <2>0. rank[l] \in Nat /\ rank[l] < C
    BY <1>2
  <2>1. rank[l] + 1 \in 1..C /\ (rank[l] + 1) - 1 = rank[l]
    BY <1>1, <2>0
  <2>2. Nth(S, rank[l] + 1) \in S /\ rank[Nth(S, rank[l] + 1)] = rank[l]
    BY <1>6, <2>1
  <2>3. Nth(S, rank[l] + 1) = l
    BY <1>4, <2>2
  <2>. QED
    BY <2>1, <2>3
<1>. QED
  BY <1>1, <1>6, <1>7, <1>8, <1>9

Hits == [file : Files, line : Nat, version : Versions]
Scans == [file : Files, next : Nat, version : Versions]
Frames == [dir : Dirs, offset : Nat \ {0}]
WalkStates == [stack : Seq(Frames), pending : Seq(Hits), scan : Scans \cup {Nil},
               unreadable : Nat]

(* A sequence lists the matches of a version from a line to a line.        *)
Lists(q, f, v, a, b) ==
  /\ \A i \in DOMAIN q : \E l \in Match[f][v] : a <= l /\ l <= b /\ q[i] = Hit(f, l, v)
  /\ \A l \in Match[f][v] : a <= l /\ l <= b => \E i \in DOMAIN q : q[i] = Hit(f, l, v)
  /\ \A i, j \in DOMAIN q : i < j => q[i].line < q[j].line

LEMMA QueueLinesReads ==
  ASSUME NEW st \in WalkStates, NEW f \in Files, NEW a \in Nat,
         version \in [Files -> Versions]
  PROVE  LET r == QueueLines(st, f, a)
             v == version[f]
         IN  \E last \in 0..Lines[f][v] :
               /\ r \in WalkStates /\ r.stack = st.stack /\ r.unreadable = st.unreadable
               /\ Lists(r.pending, f, v, a, last)
               /\ r.scan = IF last < Lines[f][v]
                           THEN [file |-> f, next |-> last + 1, version |-> v] ELSE Nil
               /\ last < Lines[f][v] => a <= last
<1>. DEFINE v == version[f]
            hits == {i \in Match[f][v] : i >= a}
            full == {i \in hits : Cardinality({j \in hits : j <= i}) = MaxPending}
            last == IF full = {} THEN Lines[f][v] ELSE CHOOSE i \in full : TRUE
            taken == {i \in hits : i <= last}
            hitList == [n \in 1..Cardinality(taken) |-> Hit(f, Nth(taken, n), v)]
            scan == IF last < Lines[f][v]
                    THEN [file |-> f, next |-> last + 1, version |-> v] ELSE Nil
<1>1. v \in Versions /\ Lines[f][v] \in Nat /\ Match[f][v] \subseteq 1..Lines[f][v]
  BY FilesAreEntries
<1>2. last \in 0..Lines[f][v] /\ (last < Lines[f][v] => a <= last)
  <2>1. CASE full = {}
    BY <1>1, <2>1
  <2>2. CASE full # {}
    <3>1. last \in full
      BY <2>2
    <3>2. last \in Match[f][v] /\ last >= a
      BY <3>1
    <3>. QED
      BY <1>1, <3>2
  <2>. QED
    BY <2>1, <2>2
<1>3. QueueLines(st, f, a) = [st EXCEPT !.pending = hitList, !.scan = scan]
  BY DEF QueueLines
<1>. HIDE DEF last, full, v
<1>4. IsFiniteSet(taken) /\ taken \in SUBSET Nat
  <2>1. taken \in SUBSET (1..Lines[f][v])
    BY <1>1
  <2>4. IsFiniteSet(1..Lines[f][v])
    BY <1>1, FS_Interval
  <2>2. IsFiniteSet(taken)
    BY <2>1, <2>4, FS_Subset
  <2>. QED
    BY <1>1, <2>1, <2>2
<1>5. /\ Cardinality(taken) \in Nat
      /\ \A n \in 1..Cardinality(taken) : Nth(taken, n) \in taken
      /\ \A m, n \in 1..Cardinality(taken) : m < n => Nth(taken, m) < Nth(taken, n)
      /\ \A l \in taken : \E n \in 1..Cardinality(taken) : Nth(taken, n) = l
  BY <1>4, NthEnumerates
<1>6. taken \subseteq Match[f][v] /\ \A l \in Match[f][v] : l \in taken <=> a <= l /\ l <= last
  BY <1>1, <1>2
<1>. HIDE DEF taken
<1>7. Lists(hitList, f, v, a, last)
  <2>1. DOMAIN hitList = 1..Cardinality(taken)
        /\ \A n \in DOMAIN hitList : hitList[n] = Hit(f, Nth(taken, n), v)
    OBVIOUS
  <2>. HIDE DEF hitList
  <2>. QED
    BY <1>5, <1>6, <2>1 DEF Lists, Hit
<1>8. hitList \in Seq(Hits)
  <2>1. \A n \in 1..Cardinality(taken) : Hit(f, Nth(taken, n), v) \in Hits
    BY <1>1, <1>4, <1>5 DEF Hits, Hit
  <2>. QED
    BY <1>5, <2>1
<1>9. scan \in Scans \cup {Nil}
  BY <1>1, <1>2 DEF Scans
<1>. HIDE DEF hitList, scan
<1>10. /\ QueueLines(st, f, a) \in WalkStates
       /\ QueueLines(st, f, a).stack = st.stack
       /\ QueueLines(st, f, a).unreadable = st.unreadable
       /\ QueueLines(st, f, a).pending = hitList
       /\ QueueLines(st, f, a).scan = scan
  BY <1>3, <1>8, <1>9 DEF WalkStates
<1>11. scan = IF last < Lines[f][v] THEN [file |-> f, next |-> last + 1, version |-> v] ELSE Nil
  BY DEF scan
<1>. QED
  BY <1>2, <1>7, <1>10, <1>11 DEF v

(* No match of a file is among these.                                      *)
Unmatched(matches, f) == \A i \in DOMAIN matches : matches[i].file # f

(* What is known of a file of the whole is known of the concatenation with *)
(* the matches of the next lines, or of another file.                      *)
LEMMA ListingsExtend ==
  ASSUME NEW T \in Seq(Hits), NEW q \in Seq(Hits),
         NEW f \in Files, NEW v \in Versions, NEW a \in Nat, NEW b \in 0..Lines[f][v],
         Lists(q, f, v, a, b),
         (a = 1 /\ Unmatched(T, f)) \/ Holds(T, f, v, a),
         b < Lines[f][v] => a <= b
  PROVE  Holds(T \o q, f, v, b + 1)
<1>. DEFINE U == T \o q
            m == Len(T)
            n == Len(q)
<1>1. /\ U \in Seq(Hits) /\ m \in Nat /\ n \in Nat
      /\ DOMAIN U = 1..(m + n) /\ DOMAIN T = 1..m /\ DOMAIN q = 1..n
      /\ \A i \in 1..(m + n) : U[i] = IF i <= m THEN T[i] ELSE q[i - m]
  BY ConcatProperties
<1>2. /\ \A i \in DOMAIN T : U[i] = T[i] /\ i \in DOMAIN U
      /\ \A i \in DOMAIN q : U[m + i] = q[i] /\ m + i \in DOMAIN U
      /\ \A i \in DOMAIN U : i \in DOMAIN T \/ \E j \in DOMAIN q : i = m + j
  <2>1. ASSUME NEW i \in DOMAIN q PROVE U[m + i] = q[i] /\ m + i \in DOMAIN U
    <3>1. m + i \in 1..(m + n) /\ ~(m + i <= m) /\ (m + i) - m = i
      BY <1>1
    <3>. QED
      BY <1>1, <3>1
  <2>2. \A i \in 1..(m + n) : i \in 1..m \/ (i - m \in 1..n /\ i = m + (i - m))
    BY <1>1
  <2>3. \A i \in DOMAIN T : U[i] = T[i] /\ i \in DOMAIN U
    BY <1>1
  <2>4. \A i \in DOMAIN U : i \in DOMAIN T \/ \E j \in DOMAIN q : i = m + j
    BY <1>1, <2>2
  <2>. QED
    BY <2>1, <2>3, <2>4
<1>3. /\ Match[f][v] \subseteq 1..Lines[f][v] /\ Lines[f][v] \in Nat
  BY FilesAreEntries
<1>4. Holds(T, f, v, a)
  <2>. SUFFICES ASSUME a = 1, Unmatched(T, f) PROVE Holds(T, f, v, a)
    OBVIOUS
  <2>1. \A l \in Match[f][v] : ~(l < a)
    BY <1>3
  <2>. QED
    BY <2>1 DEF Holds, Unmatched
<1>. HIDE DEF U, m, n
<1>5. ASSUME NEW l \in Match[f][v], l < b + 1
      PROVE  \E i \in DOMAIN U : U[i] = Hit(f, l, v)
  <2>1. CASE l < a
    BY <1>2, <1>4, <2>1 DEF Holds
  <2>2. CASE a <= l
    <3>1. PICK i \in DOMAIN q : q[i] = Hit(f, l, v)
      BY <1>3, <1>5, <2>2 DEF Lists
    <3>. QED
      BY <1>2, <3>1
  <2>. QED
    BY <1>3, <2>1, <2>2
<1>6. \A i \in DOMAIN q : /\ q[i].file = f
                          /\ \E l \in Match[f][v] : a <= l /\ l <= b /\ q[i] = Hit(f, l, v)
  BY DEF Lists, Hit
<1>7. \A i \in DOMAIN T : T[i].file = f =>
        \E l \in Match[f][v] : l < a /\ l <= b /\ T[i] = Hit(f, l, v)
  <2>. SUFFICES ASSUME NEW i \in DOMAIN T, T[i].file = f
                PROVE  \E l \in Match[f][v] : l < a /\ l <= b /\ T[i] = Hit(f, l, v)
    OBVIOUS
  <2>1. PICK l \in Match[f][v] : l < a /\ T[i] = Hit(f, l, v)
    BY <1>4 DEF Holds
  <2>2. l <= b
    BY <1>3, <2>1
  <2>. QED
    BY <2>1, <2>2
<1>8. ASSUME NEW i \in DOMAIN U, U[i].file = f
      PROVE  \E l \in Match[f][v] : l < b + 1 /\ U[i] = Hit(f, l, v)
  <2>1. \E l \in Match[f][v] : l <= b /\ U[i] = Hit(f, l, v)
    BY <1>2, <1>6, <1>7, <1>8
  <2>. QED
    BY <1>3, <2>1
<1>9. ASSUME NEW i \in DOMAIN U, NEW j \in DOMAIN U, U[i].file = f, U[j].file = f, i < j
      PROVE  U[i].line < U[j].line
  <2>1. CASE i \in DOMAIN T /\ j \in DOMAIN T
    BY <1>2, <1>4, <1>9, <2>1 DEF Holds
  <2>2. CASE i \in DOMAIN T /\ \E k \in DOMAIN q : j = m + k
    <3>1. PICK k \in DOMAIN q : j = m + k
      BY <2>2
    <3>2. PICK l \in Match[f][v] : l < a /\ U[i] = Hit(f, l, v)
      BY <1>2, <1>7, <1>9, <2>2
    <3>3. PICK h \in Match[f][v] : a <= h /\ U[j] = Hit(f, h, v)
      BY <1>2, <1>6, <3>1
    <3>4. l < h
      BY <1>3, <3>2, <3>3
    <3>. QED
      BY <3>2, <3>3, <3>4 DEF Hit
  <2>3. CASE \E h, k \in DOMAIN q : i = m + h /\ j = m + k
    <3>0. PICK h \in DOMAIN q : \E k \in DOMAIN q : i = m + h /\ j = m + k
      BY <2>3
    <3>1. PICK k \in DOMAIN q : i = m + h /\ j = m + k
      BY <3>0
    <3>2. h < k
      BY <1>1, <1>9, <3>1
    <3>3. q[h].line < q[k].line
      BY <3>2 DEF Lists
    <3>. QED
      BY <1>2, <3>1, <3>3
  <2>4. ~(j \in DOMAIN T /\ \E h \in DOMAIN q : i = m + h)
    BY <1>1, <1>9
  <2>. QED
    BY <1>2, <2>1, <2>2, <2>3, <2>4
<1>. QED
  BY <1>5, <1>8, <1>9 DEF Holds, U

LEMMA OthersStay ==
  ASSUME NEW T \in Seq(Hits), NEW q \in Seq(Hits), NEW f \in Files,
         Unmatched(q, f)
  PROVE  /\ Unmatched(T, f) => Unmatched(T \o q, f)
         /\ \A v, n : Holds(T, f, v, n) => Holds(T \o q, f, v, n)
<1>. DEFINE U == T \o q
<1>1. /\ DOMAIN U = 1..(Len(T) + Len(q)) /\ DOMAIN T = 1..Len(T) /\ DOMAIN q = 1..Len(q)
      /\ Len(T) \in Nat /\ Len(q) \in Nat
      /\ \A i \in 1..(Len(T) + Len(q)) : U[i] = IF i <= Len(T) THEN T[i] ELSE q[i - Len(T)]
  BY ConcatProperties
<1>2. /\ \A i \in DOMAIN T : U[i] = T[i] /\ i \in DOMAIN U
      /\ \A i \in DOMAIN U : U[i].file = f => i \in DOMAIN T
  <2>1. \A i \in 1..(Len(T) + Len(q)) : i \in 1..Len(T) \/ (i > Len(T) /\ i - Len(T) \in 1..Len(q))
    BY <1>1
  <2>. QED
    BY <1>1, <2>1 DEF Unmatched
<1>. HIDE DEF U
<1>3. Unmatched(T, f) => Unmatched(U, f)
  BY <1>2 DEF Unmatched
<1>4. ASSUME NEW v, NEW n, Holds(T, f, v, n) PROVE Holds(U, f, v, n)
  BY <1>2, <1>4 DEF Holds
<1>. QED
  BY <1>3, <1>4 DEF U

-----------------------------------------------------------------------------
(* The listings of the directories, and the names of a listing from an      *)
(* offset on.                                                               *)
ListingsOK(L) == L \in [Dirs -> SUBSET Nat] /\ \A d \in Dirs : L[d] \subseteq Names[d]
LeftOf(N, o) == {x \in N : Cardinality({j \in N : j < x}) >= o - 1}

LEMMA NextOfAListing ==
  ASSUME NEW N \in SUBSET Nat, IsFiniteSet(N), NEW o \in Nat \ {0}
  PROVE  /\ Cardinality(N) \in Nat
         /\ LeftOf(N, 1) = N
         /\ o > Cardinality(N) => LeftOf(N, o) = {}
         /\ ~(o > Cardinality(N)) => /\ Nth(N, o) \in N /\ Nth(N, o) \notin LeftOf(N, o + 1)
                                     /\ LeftOf(N, o) = LeftOf(N, o + 1) \cup {Nth(N, o)}
<1>. DEFINE C == Cardinality(N)
            B(x) == Cardinality({j \in N : j < x})
<1>1. /\ C \in Nat
      /\ \A x \in N : B(x) \in 0..(C - 1)
      /\ \A x, y \in N : B(x) = B(y) => x = y
      /\ \A n \in 1..C : Nth(N, n) \in N /\ B(Nth(N, n)) = n - 1
  BY NthEnumerates
<1>2. \A i : LeftOf(N, i) = {x \in N : B(x) >= i - 1}
  BY DEF LeftOf
<1>. HIDE DEF B, C
<1>3. \A x \in N : B(x) \in Nat /\ B(x) < C
  BY <1>1
<1>4. LeftOf(N, 1) = N
  <2>1. \A x \in N : B(x) >= 1 - 1
    BY <1>3
  <2>2. LeftOf(N, 1) = {x \in N : B(x) >= 1 - 1}
    BY <1>2
  <2>. QED
    BY <2>1, <2>2
<1>5. ASSUME o > C PROVE LeftOf(N, o) = {}
  <2>1. \A x \in N : ~(B(x) >= o - 1)
    BY <1>1, <1>5, <1>3
  <2>2. LeftOf(N, o) = {x \in N : B(x) >= o - 1}
    BY <1>2
  <2>. QED
    BY <2>1, <2>2
<1>6. ASSUME ~(o > C)
      PROVE  /\ Nth(N, o) \in N /\ Nth(N, o) \notin LeftOf(N, o + 1)
             /\ LeftOf(N, o) = LeftOf(N, o + 1) \cup {Nth(N, o)}
  <2>. DEFINE x == Nth(N, o)
  <2>1. o \in 1..C
    BY <1>1, <1>6
  <2>2. x \in N /\ B(x) = o - 1
    BY <1>1, <2>1
  <2>. HIDE DEF x
  <2>3. \A y \in N : B(y) >= o - 1 <=> B(y) >= (o + 1) - 1 \/ y = x
    <3>. SUFFICES ASSUME NEW y \in N PROVE B(y) >= o - 1 <=> B(y) >= (o + 1) - 1 \/ y = x
      OBVIOUS
    <3>1. B(y) \in Nat /\ (B(y) = o - 1 => y = x)
      BY <1>1, <2>2
    <3>. QED
      BY <2>2, <3>1
  <2>4. x \notin LeftOf(N, o + 1)
    BY <1>2, <2>2
  <2>5. LeftOf(N, o) = LeftOf(N, o + 1) \cup {x}
    BY <1>2, <2>2, <2>3
  <2>. QED
    BY <2>2, <2>4, <2>5 DEF x
<1>. QED
  BY <1>1, <1>4, <1>5, <1>6 DEF C

LEMMA ListingsAreFinite ==
  ASSUME NEW L, ListingsOK(L), NEW d \in Dirs
  PROVE  L[d] \in SUBSET Nat /\ IsFiniteSet(L[d])
BY FilesAreEntries, FS_Subset DEF ListingsOK

(* A path that is another one or goes on from it.                          *)
Under(e, f) == Len(e) <= Len(f) /\ \A i \in 1..Len(e) : f[i] = e[i]

(* Names that a frame of the stack has still to come to.                   *)
Waiting(L, frame) == LeftOf(L[frame.dir], frame.offset)

(* The directories of the stack lead to the one on top, and a directory     *)
(* whose listing did not change (the others are D) is past the entry that   *)
(* leads on.                                                                *)
Leads(L, D, S, i, e) ==
  /\ \A g \in 1..(i - 1) : S[i].dir[g] = e[g]
  /\ S[i].dir \notin D => e[i] \notin Waiting(L, S[i])
StackOK(L, D, S) ==
  \A i \in 1..Len(S) : /\ Len(S[i].dir) = i - 1
                       /\ \A h \in 1..(i - 1) : Leads(L, D, S, h, S[i].dir)

(* A file the walk has still to come to.                                   *)
AheadAt(L, S, f, j) == /\ j <= Len(f) /\ f[j] \in Waiting(L, S[j])
                       /\ \A g \in 1..(j - 1) : f[g] = S[j].dir[g]
Ahead(L, S, f) == \E j \in 1..Len(S) : AheadAt(L, S, f, j)

(* The files in reach whose directories are none of D.                     *)
InReach(D) == {f \in Files : /\ Len(f) <= MaxDepth + 1
                             /\ \A i \in DOMAIN f : SubSeq(f, 1, i - 1) \notin D}
There(L, p) == \A i \in DOMAIN p : p[i] \in L[SubSeq(p, 1, i - 1)]

LEMMA PathsAreNumbered ==
  /\ \A f \in Files : /\ f \in Seq(Nat) /\ Len(f) \in Nat /\ DOMAIN f = 1..Len(f)
                      /\ \A i \in 1..Len(f) : f[i] \in Nat /\ SubSeq(f, 1, i - 1) \in Dirs
  /\ \A d \in Dirs : d \in Seq(Nat) /\ Len(d) \in Nat /\ DOMAIN d = 1..Len(d)
<1>1. ASSUME NEW p \in Files \cup Dirs
      PROVE  p \in Seq(Nat) /\ Len(p) \in Nat /\ DOMAIN p = 1..Len(p)
  BY FilesAreEntries, LenProperties
<1>2. ASSUME NEW f \in Files, NEW i \in 1..Len(f)
      PROVE  f[i] \in Nat /\ SubSeq(f, 1, i - 1) \in Dirs
  <2>1. f \in Seq(Nat) /\ i \in DOMAIN f /\ i \in 1..Len(f)
    BY <1>1, <1>2
  <2>2. f[i] \in Nat
    BY <2>1, ElementOfSeq
  <2>3. SubSeq(f, 1, i - 1) \in Dirs
    BY <2>1, FilesAreEntries
  <2>. QED
    BY <2>2, <2>3
<1>. QED
  BY <1>1, <1>2

(* The directory that holds the name at a place of a file's path.          *)
LEMMA HoldingDirectory ==
  ASSUME NEW f \in Files, NEW d \in Seq(Nat), NEW n \in 1..Len(f), Len(d) = n - 1,
         \A g \in 1..(n - 1) : f[g] = d[g]
  PROVE  /\ d = SubSeq(f, 1, n - 1) /\ d \in Dirs
         /\ \A D : f \in InReach(D) => d \notin D
         /\ \A L : There(L, f) => f[n] \in L[d]
<1>. DEFINE p == SubSeq(f, 1, n - 1)
<1>1. f \in Seq(Nat) /\ Len(f) \in Nat /\ p \in Dirs /\ n \in DOMAIN f
  BY PathsAreNumbered
<1>2. p \in Seq(Nat) /\ Len(p) = n - 1 /\ \A i \in 1..(n - 1) : p[i] = f[i]
  <2>1. \A i \in 1..(n - 1) : f[i] \in Nat
    BY <1>1, PathsAreNumbered
  <2>2. /\ p \in Seq(Nat) /\ Len(p) = IF 1 <= n - 1 THEN (n - 1) - 1 + 1 ELSE 0
        /\ \A i \in 1..((n - 1) - 1 + 1) : p[i] = f[1 + i - 1]
    BY <1>1, <2>1, SubSeqProperties
  <2>. QED
    BY <1>1, <2>2
<1>3. p = d
  <2>. HIDE DEF p
  <2>1. \A i \in 1..Len(p) : p[i] = d[i]
    BY <1>2
  <2>. QED
    BY <1>2, <2>1, SeqEqual
<1>4. /\ \A D : f \in InReach(D) => p \notin D
      /\ \A L : There(L, f) => f[n] \in L[p]
  BY <1>1 DEF InReach, There
<1>. QED
  BY <1>1, <1>3, <1>4

(* A file under an entry is the entry, or the entry is a directory.        *)
LEMMA UnderAnEntry ==
  ASSUME NEW e \in Seq(Nat), NEW f \in Files, Under(e, f)
  PROVE  /\ Len(e) = Len(f) => f = e
         /\ Len(e) < Len(f) => e \in Dirs /\ \A L : There(L, f) => f[Len(e) + 1] \in L[e]
<1>1. f \in Seq(Nat) /\ Len(f) \in Nat /\ Len(e) \in Nat
  BY PathsAreNumbered
<1>2. ASSUME Len(e) = Len(f) PROVE f = e
  <2>1. \A i \in 1..Len(f) : f[i] = e[i]
    BY <1>2 DEF Under
  <2>. QED
    BY <1>1, <1>2, <2>1, SeqEqual
<1>3. ASSUME Len(e) < Len(f)
      PROVE  e \in Dirs /\ \A L : There(L, f) => f[Len(e) + 1] \in L[e]
  <2>. DEFINE n == Len(e) + 1
  <2>1. n \in 1..Len(f) /\ Len(e) = n - 1
    BY <1>1, <1>3
  <2>2. \A g \in 1..(n - 1) : f[g] = e[g]
    BY <2>1 DEF Under
  <2>. QED
    BY <2>1, <2>2, HoldingDirectory
<1>. QED
  BY <1>2, <1>3

(* The offset of the directory on top goes up.                             *)
LEMMA NextOffset ==
  ASSUME NEW S \in Seq(Frames), S # <<>>, NEW L, NEW D, StackOK(L, D, S)
  PROVE  LET n == Len(S)
             T == [S EXCEPT ![n].offset = @ + 1]
         IN  /\ n \in Nat \ {0} /\ n \in 1..n
             /\ \A i \in 1..n : /\ S[i].dir \in Dirs /\ S[i].dir \in Seq(Nat)
                                /\ S[i].offset \in Nat \ {0}
             /\ T \in Seq(Frames) /\ Len(T) = n /\ StackOK(L, D, T)
             /\ \A i \in 1..n : T[i].dir = S[i].dir
             /\ \A i \in 1..(n - 1) : T[i] = S[i]
             /\ T[n].offset = S[n].offset + 1
<1>. DEFINE n == Len(S)
            top == [S[n] EXCEPT !.offset = S[n].offset + 1]
            T == [S EXCEPT ![n].offset = S[n].offset + 1]
<1>1. n \in Nat \ {0} /\ DOMAIN S = 1..n /\ n \in 1..n
  BY EmptySeq, LenProperties
<1>2. \A i \in 1..n : /\ S[i] \in Frames /\ S[i].dir \in Dirs /\ S[i].dir \in Seq(Nat)
                      /\ S[i].offset \in Nat \ {0}
  <2>1. \A i \in 1..n : S[i] \in Frames
    BY <1>1, ElementOfSeq
  <2>. QED
    BY <2>1, PathsAreNumbered DEF Frames
<1>3. /\ T \in Seq(Frames) /\ Len(T) = n
      /\ \A i \in 1..n : T[i].dir = S[i].dir
      /\ \A i \in 1..(n - 1) : T[i] = S[i]
      /\ T[n].offset = S[n].offset + 1
  <2>1. T = [S EXCEPT ![n] = top]
    BY <1>1
  <2>0. n \in 1..Len(S) /\ S[n] \in Frames /\ S[n].offset \in Nat
    BY <1>1, <1>2
  <2>2. n \in 1..Len(S) /\ top \in Frames /\ top.dir = S[n].dir
        /\ top.offset = S[n].offset + 1
    <3>. HIDE DEF n
    <3>. QED
      BY <2>0 DEF Frames
  <2>. HIDE DEF top
  <2>3. /\ T \in Seq(Frames) /\ Len(T) = Len(S)
        /\ \A j \in 1..Len(S) : T[j] = IF j = n THEN top ELSE S[j]
    BY <2>1, <2>2, ExceptSeq
  <2>. QED
    BY <1>1, <2>2, <2>3
<1>. HIDE DEF T, n, top
<1>4. StackOK(L, D, T)
  <2>1. \A i \in 1..n : /\ Len(S[i].dir) = i - 1
                        /\ \A h \in 1..(i - 1) : Leads(L, D, S, h, S[i].dir)
    BY DEF StackOK, n
  <2>2. \A i \in 1..n : \A h \in 1..(i - 1) : h \in 1..(n - 1)
    BY <1>1
  <2>3. \A h \in 1..(n - 1) : \A e : Leads(L, D, S, h, e) => Leads(L, D, T, h, e)
    BY <1>3 DEF Leads
  <2>. QED
    BY <1>3, <2>1, <2>2, <2>3 DEF StackOK
<1>. QED
  BY <1>1, <1>2, <1>3, <1>4 DEF T, n

(* An entry is passed: what is under it is not ahead any more.             *)
LEMMA PastAnEntry ==
  ASSUME NEW S \in Seq(Frames), S # <<>>, NEW L, ListingsOK(L), NEW D, StackOK(L, D, S),
         NEW x \in Nat,
         S[Len(S)].dir \notin D =>
           /\ ~(S[Len(S)].offset > Cardinality(L[S[Len(S)].dir]))
           /\ x = Nth(L[S[Len(S)].dir], S[Len(S)].offset)
  PROVE  LET n == Len(S)
             e == Append(S[n].dir, x)
             T == [S EXCEPT ![n].offset = @ + 1]
         IN  /\ n \in Nat \ {0} /\ e \in Seq(Nat) /\ Len(e) = n
             /\ T \in Seq(Frames) /\ Len(T) = n /\ StackOK(L, D, T)
             /\ \A i \in 1..n : Leads(L, D, T, i, e)
             /\ \A f \in InReach(D) : /\ Ahead(L, S, f) <=> Ahead(L, T, f) \/ Under(e, f)
                                      /\ Under(e, f) => ~Ahead(L, T, f)
<1>. DEFINE n == Len(S)
            d == S[n].dir
            o == S[n].offset
            e == Append(d, x)
            T == [S EXCEPT ![n].offset = @ + 1]
<1>1. /\ n \in Nat \ {0} /\ n \in 1..n
      /\ \A i \in 1..n : S[i].dir \in Dirs /\ S[i].dir \in Seq(Nat) /\ S[i].offset \in Nat \ {0}
      /\ T \in Seq(Frames) /\ Len(T) = n /\ StackOK(L, D, T)
      /\ \A i \in 1..n : T[i].dir = S[i].dir
      /\ \A i \in 1..(n - 1) : T[i] = S[i]
      /\ T[n].offset = o + 1
  BY NextOffset
<1>2. /\ \A i \in 1..n : Len(S[i].dir) = i - 1
      /\ \A i \in 1..n : \A h \in 1..(i - 1) : Leads(L, D, S, h, S[i].dir)
  BY DEF StackOK
<1>3. /\ e \in Seq(Nat) /\ Len(e) = n /\ e[n] = x
      /\ \A i \in 1..(n - 1) : e[i] = d[i]
  <2>1. d \in Seq(Nat) /\ Len(d) = n - 1
    BY <1>1, <1>2
  <2>2. e = Append(d, x)
    OBVIOUS
  <2>. HIDE DEF d, n, e
  <2>. QED
    BY <1>1, <2>1, <2>2
<1>4. ASSUME d \notin D
      PROVE  x \notin LeftOf(L[d], o + 1) /\ LeftOf(L[d], o) = LeftOf(L[d], o + 1) \cup {x}
  <2>1. L[d] \in SUBSET Nat /\ IsFiniteSet(L[d]) /\ o \in Nat \ {0}
    BY <1>1, ListingsAreFinite
  <2>2. ~(o > Cardinality(L[d])) /\ x = Nth(L[d], o)
    BY <1>4
  <2>. QED
    BY <2>1, <2>2, NextOfAListing
<1>5. /\ \A i \in 1..(n - 1) : Leads(L, D, S, i, d)
      /\ T[n].dir = d /\ S[n].dir = d /\ S[n].offset = o
  BY <1>1, <1>2
<1>. HIDE DEF T, e, n, d, o
<1>6. ASSUME NEW i \in 1..n PROVE Leads(L, D, T, i, e)
  <2>1. CASE i = n
    BY <1>1, <1>3, <1>4, <1>5, <2>1 DEF Leads, Waiting
  <2>2. CASE i # n
    <3>1. i \in 1..(n - 1) /\ \A g \in 1..(i - 1) : g \in 1..(n - 1)
      BY <1>1, <2>2
    <3>2. T[i] = S[i] /\ e[i] = d[i] /\ \A g \in 1..(i - 1) : e[g] = d[g]
      BY <1>1, <1>3, <3>1
    <3>3. Leads(L, D, S, i, d)
      BY <1>5, <3>1
    <3>. QED
      BY <3>2, <3>3 DEF Leads
  <2>. QED
    BY <2>1, <2>2
<1>7. ASSUME NEW f \in InReach(D)
      PROVE  /\ Ahead(L, S, f) <=> Ahead(L, T, f) \/ Under(e, f)
             /\ Under(e, f) => ~Ahead(L, T, f)
  <2>0. /\ f \in Files /\ Len(f) \in Nat
        /\ \A j \in 1..n : j <= Len(f) => j \in 1..Len(f)
    BY <1>1, PathsAreNumbered DEF InReach
  <2>1. Ahead(L, S, f) <=> \E j \in 1..n : AheadAt(L, S, f, j)
    BY DEF Ahead, n
  <2>2. Ahead(L, T, f) <=> \E j \in 1..n : AheadAt(L, T, f, j)
    BY <1>1 DEF Ahead
  <2>3. \A j \in 1..(n - 1) : AheadAt(L, S, f, j) <=> AheadAt(L, T, f, j)
    BY <1>1 DEF AheadAt
  <2>4. ASSUME n <= Len(f), \A g \in 1..(n - 1) : f[g] = d[g]
        PROVE  /\ f[n] \in Waiting(L, S[n]) <=> f[n] \in Waiting(L, T[n]) \/ f[n] = x
    <3>1. n \in 1..Len(f) /\ d \in Seq(Nat) /\ Len(d) = n - 1
      BY <1>1, <1>2, <1>5, <2>0, <2>4
    <3>2. d \notin D
      BY <2>0, <2>4, <3>1, HoldingDirectory
    <3>. QED
      BY <1>1, <1>4, <1>5, <3>2 DEF Waiting
  <2>5. Under(e, f) <=> n <= Len(f) /\ f[n] = x /\ \A g \in 1..(n - 1) : f[g] = d[g]
    <3>1. \A i \in 1..n : i = n \/ i \in 1..(n - 1)
      BY <1>1
    <3>2. n \in 1..n /\ \A i \in 1..(n - 1) : i \in 1..n
      BY <1>1
    <3>. QED
      BY <1>3, <3>1, <3>2 DEF Under
  <2>6. AheadAt(L, S, f, n) <=> AheadAt(L, T, f, n) \/ Under(e, f)
    BY <1>5, <2>4, <2>5 DEF AheadAt
  <2>7. Under(e, f) => \A j \in 1..n : ~AheadAt(L, T, f, j)
    <3>. SUFFICES ASSUME Under(e, f), NEW j \in 1..n, AheadAt(L, T, f, j) PROVE FALSE
      OBVIOUS
    <3>1. /\ j \in 1..Len(f) /\ f[j] \in Waiting(L, T[j])
          /\ \A g \in 1..(j - 1) : f[g] = T[j].dir[g]
          /\ T[j].dir \in Seq(Nat) /\ Len(T[j].dir) = j - 1
      BY <1>1, <1>2, <2>0 DEF AheadAt
    <3>2. T[j].dir \notin D
      BY <2>0, <3>1, HoldingDirectory
    <3>3. f[j] = e[j] /\ e[j] \notin Waiting(L, T[j])
      BY <1>3, <1>6, <3>2 DEF Under, Leads
    <3>. QED
      BY <3>1, <3>3
  <2>8. \A j \in 1..n : j = n \/ j \in 1..(n - 1)
    BY <1>1
  <2>9. n \in 1..n /\ \A j \in 1..(n - 1) : j \in 1..n
    BY <1>1
  <2>. QED
    BY <2>1, <2>2, <2>3, <2>6, <2>7, <2>8, <2>9
<1>. QED
  BY <1>1, <1>3, <1>6, <1>7 DEF T, e, n, d

(* A directory on the stack: what it holds is ahead again.                 *)
LEMMA IntoADirectory ==
  ASSUME NEW T \in Seq(Frames), NEW L, ListingsOK(L), NEW D, StackOK(L, D, T),
         NEW e \in Dirs, Len(e) = Len(T), \A i \in 1..Len(T) : Leads(L, D, T, i, e)
  PROVE  LET U == Append(T, [dir |-> e, offset |-> 1])
         IN  /\ U \in Seq(Frames) /\ StackOK(L, D, U)
             /\ \A f \in Files : Ahead(L, U, f) <=>
                  \/ Ahead(L, T, f)
                  \/ Under(e, f) /\ Len(e) < Len(f) /\ f[Len(e) + 1] \in L[e]
<1>. DEFINE n == Len(T)
            frame == [dir |-> e, offset |-> 1]
            U == Append(T, frame)
<1>1. /\ n \in Nat /\ U \in Seq(Frames) /\ Len(U) = n + 1 /\ U[n + 1] = frame
      /\ \A i \in 1..n : U[i] = T[i]
  <2>1. frame \in Frames
    BY DEF Frames
  <2>. QED
    BY <2>1
<1>2. frame.dir = e /\ Waiting(L, frame) = L[e] /\ Len(e) = n
  <2>1. LeftOf(L[e], 1) = L[e]
    BY ListingsAreFinite, NextOfAListing
  <2>. QED
    BY <2>1 DEF Waiting
<1>. HIDE DEF U, frame, n
<1>3. \A i \in 1..(n + 1) : i = n + 1 \/ i \in 1..n
  BY <1>1
<1>4. StackOK(L, D, U)
  <2>1. \A i \in 1..n : /\ Len(T[i].dir) = i - 1
                        /\ \A h \in 1..(i - 1) : h \in 1..n /\ Leads(L, D, T, h, T[i].dir)
    BY <1>1 DEF StackOK, n
  <2>2. \A h \in 1..n : \A p : Leads(L, D, T, h, p) => Leads(L, D, U, h, p)
    BY <1>1 DEF Leads
  <2>3. \A i \in 1..n : /\ Len(U[i].dir) = i - 1
                        /\ \A h \in 1..(i - 1) : Leads(L, D, U, h, U[i].dir)
    BY <1>1, <2>1, <2>2
  <2>4. Len(U[n + 1].dir) = (n + 1) - 1
    BY <1>1, <1>2
  <2>5. \A h \in 1..((n + 1) - 1) : h \in 1..n /\ Leads(L, D, U, h, U[n + 1].dir)
    <3>1. \A h \in 1..n : Leads(L, D, T, h, e)
      BY DEF n
    <3>. QED
      BY <1>1, <1>2, <2>2, <3>1
  <2>. QED
    BY <1>1, <1>3, <2>3, <2>4, <2>5 DEF StackOK
<1>5. ASSUME NEW f \in Files
      PROVE  Ahead(L, U, f) <=> \/ Ahead(L, T, f)
                                \/ Under(e, f) /\ Len(e) < Len(f) /\ f[Len(e) + 1] \in L[e]
  <2>1. Ahead(L, T, f) <=> \E j \in 1..n : AheadAt(L, T, f, j)
    BY DEF Ahead, n
  <2>2. Ahead(L, U, f) <=> \E j \in 1..(n + 1) : AheadAt(L, U, f, j)
    BY <1>1 DEF Ahead
  <2>3. \A j \in 1..n : AheadAt(L, T, f, j) <=> AheadAt(L, U, f, j)
    BY <1>1 DEF AheadAt
  <2>4. AheadAt(L, U, f, n + 1) <=> Under(e, f) /\ Len(e) < Len(f) /\ f[Len(e) + 1] \in L[e]
    <3>1. Len(f) \in Nat /\ (n + 1) - 1 = n
      BY <1>1, PathsAreNumbered
    <3>2. AheadAt(L, U, f, n + 1) <=> /\ n + 1 <= Len(f) /\ f[n + 1] \in L[e]
                                      /\ \A g \in 1..n : f[g] = e[g]
      BY <1>1, <1>2, <3>1 DEF AheadAt
    <3>3. n + 1 <= Len(f) <=> n < Len(f)
      BY <1>1, <3>1
    <3>4. n < Len(f) => n <= Len(f)
      BY <1>1, <3>1
    <3>. QED
      BY <1>2, <3>2, <3>3, <3>4 DEF Under
  <2>5. n + 1 \in 1..(n + 1) /\ \A j \in 1..n : j \in 1..(n + 1)
    BY <1>1
  <2>. QED
    BY <1>3, <2>1, <2>2, <2>3, <2>4, <2>5
<1>. QED
  BY <1>1, <1>4, <1>5 DEF U, frame

(* A directory without further entries leaves the stack: no file was ahead *)
(* in it.                                                                  *)
LEMMA OutOfADirectory ==
  ASSUME NEW S \in Seq(Frames), S # <<>>, NEW L, NEW D, StackOK(L, D, S)
  PROVE  LET n == Len(S)
             T == SubSeq(S, 1, n - 1)
         IN  /\ T \in Seq(Frames) /\ StackOK(L, D, T)
             /\ (S[n].dir \notin D => Waiting(L, S[n]) = {}) =>
                  \A f \in InReach(D) : Ahead(L, S, f) <=> Ahead(L, T, f)
<1>. DEFINE n == Len(S)
            T == SubSeq(S, 1, n - 1)
<1>1. n \in Nat \ {0} /\ DOMAIN S = 1..n
  BY EmptySeq, LenProperties
<1>2. \A i \in 1..n : S[i] \in Frames /\ S[i].dir \in Seq(Nat)
  <2>1. \A i \in 1..n : S[i] \in Frames
    BY <1>1, ElementOfSeq
  <2>. QED
    BY <2>1, PathsAreNumbered DEF Frames
<1>3. T \in Seq(Frames) /\ Len(T) = n - 1 /\ \A i \in 1..(n - 1) : T[i] = S[i]
  <2>0. \A i \in 1..(n - 1) : S[i] \in Frames
    BY <1>1, <1>2
  <2>1. /\ T \in Seq(Frames) /\ Len(T) = IF 1 <= n - 1 THEN (n - 1) - 1 + 1 ELSE 0
        /\ \A i \in 1..((n - 1) - 1 + 1) : T[i] = S[1 + i - 1]
    BY <1>1, <2>0, SubSeqProperties
  <2>. QED
    BY <1>1, <2>1
<1>. HIDE DEF T
<1>4. /\ \A i \in 1..n : Len(S[i].dir) = i - 1
      /\ \A i \in 1..n : \A h \in 1..(i - 1) : Leads(L, D, S, h, S[i].dir)
  BY DEF StackOK
<1>. HIDE DEF n
<1>5. \A i \in 1..(n - 1) : i \in 1..n /\ \A h \in 1..(i - 1) : h \in 1..(n - 1)
  BY <1>1
<1>6. StackOK(L, D, T)
  <2>1. \A h \in 1..(n - 1) : \A p : Leads(L, D, S, h, p) => Leads(L, D, T, h, p)
    BY <1>3 DEF Leads
  <2>2. \A i \in 1..(n - 1) : /\ Len(T[i].dir) = i - 1
                              /\ \A h \in 1..(i - 1) : Leads(L, D, T, h, T[i].dir)
    BY <1>3, <1>4, <1>5, <2>1
  <2>. QED
    BY <1>3, <2>2 DEF StackOK
<1>7. ASSUME S[n].dir \notin D => Waiting(L, S[n]) = {}, NEW f \in InReach(D)
      PROVE  Ahead(L, S, f) <=> Ahead(L, T, f)
  <2>1. Ahead(L, S, f) <=> \E j \in 1..n : AheadAt(L, S, f, j)
    BY DEF Ahead, n
  <2>2. Ahead(L, T, f) <=> \E j \in 1..(n - 1) : AheadAt(L, S, f, j)
    <3>1. \A j \in 1..(n - 1) : AheadAt(L, S, f, j) <=> AheadAt(L, T, f, j)
      BY <1>3 DEF AheadAt
    <3>. QED
      BY <1>3, <3>1 DEF Ahead
  <2>3. ~AheadAt(L, S, f, n)
    <3>. SUFFICES ASSUME AheadAt(L, S, f, n) PROVE FALSE
      OBVIOUS
    <3>1. /\ f \in Files /\ n \in 1..n /\ n \in 1..Len(f)
          /\ \A g \in 1..(n - 1) : f[g] = S[n].dir[g]
      BY <1>1, PathsAreNumbered DEF AheadAt, InReach
    <3>2. S[n].dir \in Seq(Nat) /\ Len(S[n].dir) = n - 1
      BY <1>2, <1>4, <3>1
    <3>3. S[n].dir \notin D
      BY <3>1, <3>2, HoldingDirectory
    <3>. QED
      BY <1>7, <3>3 DEF AheadAt
  <2>4. n \in 1..n /\ \A j \in 1..n : j = n \/ j \in 1..(n - 1)
    BY <1>1
  <2>. QED
    BY <1>5, <2>1, <2>2, <2>3, <2>4
<1>. QED
  BY <1>3, <1>6, <1>7 DEF T, n

-----------------------------------------------------------------------------

(* What a walk has to show for a file: nothing while the file is ahead or  *)
(* if it is not there, the matches before the next line while it is read,  *)
(* and afterwards those of one version.                                    *)
Settled(L, T, S, f) ==
  IF Ahead(L, S, f) \/ ~There(L, f) THEN Unmatched(T, f)
  ELSE \E v \in Versions : Holds(T, f, v, Lines[f][v] + 1)
Accounted(L, T, st, f) ==
  IF st.scan # Nil /\ st.scan.file = f
  THEN ~Ahead(L, st.stack, f) /\ Holds(T, f, st.scan.version, st.scan.next)
  ELSE Settled(L, T, st.stack, f)

(* The state of a walk after the matches R, with the listings L of which   *)
(* those of D changed under way.                                           *)
WalkOK(L, D, R, st) ==
  /\ R \in Seq(Hits) /\ st \in WalkStates /\ StackOK(L, D, st.stack)
  /\ st.unreadable = 0 => \A f \in InReach(D) : Accounted(L, R \o st.pending, st, f)

(* Lines of a file are queued.                                             *)
LEMMA ReadAFile ==
  ASSUME NEW L, NEW D, NEW R \in Seq(Hits), NEW st \in WalkStates, StackOK(L, D, st.stack),
         version \in [Files -> Versions], NEW f \in Files, NEW a \in Nat, There(L, f),
         st.unreadable = 0 =>
           /\ f \in InReach(D) =>
                /\ (a = 1 /\ Unmatched(R, f)) \/ Holds(R, f, version[f], a)
                /\ ~Ahead(L, st.stack, f)
           /\ \A g \in InReach(D) \ {f} : Settled(L, R, st.stack, g)
  PROVE  WalkOK(L, D, R, QueueLines(st, f, a))
<1>. DEFINE r == QueueLines(st, f, a)
            v == version[f]
            n == Lines[f][v]
<1>1. PICK last \in 0..n :
        /\ r \in WalkStates /\ r.stack = st.stack /\ r.unreadable = st.unreadable
        /\ Lists(r.pending, f, v, a, last)
        /\ r.scan = IF last < n THEN [file |-> f, next |-> last + 1, version |-> v] ELSE Nil
        /\ last < n => a <= last
  BY QueueLinesReads
<1>2. v \in Versions /\ n \in Nat /\ r.pending \in Seq(Hits)
  BY <1>1, FilesAreEntries DEF WalkStates
<1>. HIDE DEF r, v
<1>3. SUFFICES ASSUME st.unreadable = 0, NEW g \in InReach(D)
               PROVE  Accounted(L, R \o r.pending, r, g)
  BY <1>1 DEF WalkOK, r
<1>4. CASE g = f
  <2>1. (a = 1 /\ Unmatched(R, f)) \/ Holds(R, f, v, a)
    BY <1>3, <1>4 DEF v
  <2>2. Holds(R \o r.pending, f, v, last + 1)
    BY <1>1, <1>2, <2>1, ListingsExtend
  <2>3. CASE last < n
    <3>1. r.scan = [file |-> f, next |-> last + 1, version |-> v]
      BY <1>1, <2>3
    <3>2. r.scan # Nil
      BY <1>2, <3>1, NilIsNoScan
    <3>. QED
      BY <1>1, <1>3, <1>4, <2>2, <3>1, <3>2 DEF Accounted
  <2>4. CASE ~(last < n)
    <3>1. r.scan = Nil /\ last = n
      BY <1>1, <1>2, <2>4
    <3>. QED
      BY <1>1, <1>2, <1>3, <1>4, <2>2, <3>1 DEF Accounted, Settled
  <2>. QED
    BY <2>3, <2>4
<1>5. CASE g # f
  <2>1. Unmatched(r.pending, g)
    <3>1. \A l : Hit(f, l, v).file = f
      BY DEF Hit
    <3>2. \A i \in DOMAIN r.pending : r.pending[i].file = f
      BY <1>1, <3>1 DEF Lists
    <3>. QED
      BY <1>5, <3>2 DEF Unmatched
  <2>2. /\ Unmatched(R, g) => Unmatched(R \o r.pending, g)
        /\ \A w, k : Holds(R, g, w, k) => Holds(R \o r.pending, g, w, k)
    BY <1>2, <2>1, OthersStay DEF InReach
  <2>3. r.scan = Nil \/ r.scan.file # g
    BY <1>1, <1>5
  <2>4. Settled(L, R, st.stack, g)
    BY <1>3, <1>5
  <2>5. Settled(L, R \o r.pending, st.stack, g)
    BY <2>2, <2>4 DEF Settled
  <2>. QED
    BY <1>1, <2>3, <2>5 DEF Accounted
<1>. QED
  BY <1>4, <1>5

(* A match moves from the queue to the page.                               *)
LEMMA WalkEmits ==
  ASSUME NEW L, NEW D, NEW R, NEW st, WalkOK(L, D, R, st), st.pending # <<>>
  PROVE  WalkOK(L, D, Append(R, Head(st.pending)), [st EXCEPT !.pending = Tail(st.pending)])
<1>. DEFINE p == st.pending
            h == Head(p)
            r == [st EXCEPT !.pending = Tail(p)]
<1>1. R \in Seq(Hits) /\ p \in Seq(Hits) /\ p # <<>> /\ st \in WalkStates
  BY DEF WalkOK, WalkStates
<1>2. h \in Hits /\ Tail(p) \in Seq(Hits) /\ Append(R, h) \in Seq(Hits)
  BY <1>1, HeadTailProperties
<1>3. Append(R, h) \o Tail(p) = R \o p
  <2>. HIDE DEF p
  <2>. DEFINE t == Tail(p)
              A == Append(R, h)
  <2>1. t \in Seq(Hits) /\ A \in Seq(Hits) /\ Len(t) = Len(p) - 1 /\ Len(p) \in Nat
        /\ \A i \in 1..Len(t) : t[i] = p[i + 1]
    BY <1>1, <1>2, HeadTailProperties
  <2>2. Len(A) = Len(R) + 1 /\ Len(R) \in Nat /\ A[Len(R) + 1] = p[1]
        /\ \A i \in 1..Len(R) : A[i] = R[i]
    BY <1>1, <1>2
  <2>. HIDE DEF t, A
  <2>3. /\ A \o t \in Seq(Hits) /\ Len(A \o t) = Len(A) + Len(t)
        /\ \A i \in 1..(Len(A) + Len(t)) :
             (A \o t)[i] = IF i <= Len(A) THEN A[i] ELSE t[i - Len(A)]
    BY <2>1, ConcatProperties
  <2>4. /\ R \o p \in Seq(Hits) /\ Len(R \o p) = Len(R) + Len(p)
        /\ \A i \in 1..(Len(R) + Len(p)) :
             (R \o p)[i] = IF i <= Len(R) THEN R[i] ELSE p[i - Len(R)]
    BY <1>1, ConcatProperties
  <2>5. Len(A \o t) = Len(R \o p)
    BY <2>1, <2>2, <2>3, <2>4
  <2>6. ASSUME NEW i \in 1..Len(A \o t) PROVE (A \o t)[i] = (R \o p)[i]
    <3>1. CASE i <= Len(R)
      BY <2>1, <2>2, <2>3, <2>4, <2>5, <3>1
    <3>2. CASE i = Len(R) + 1
      <4>1. (A \o t)[i] = A[Len(R) + 1]
        BY <2>1, <2>2, <2>3, <3>2
      <4>2. (R \o p)[i] = p[i - Len(R)] /\ i - Len(R) = 1
        BY <2>2, <2>4, <2>5, <3>2
      <4>. QED
        BY <2>2, <4>1, <4>2
    <3>3. CASE i > Len(R) + 1
      <4>1. (A \o t)[i] = t[i - Len(A)] /\ i - Len(A) \in 1..Len(t)
        BY <2>1, <2>2, <2>3, <3>3
      <4>2. (R \o p)[i] = p[i - Len(R)] /\ i - Len(R) = (i - Len(A)) + 1
        BY <2>1, <2>2, <2>4, <2>5, <3>3
      <4>. QED
        BY <2>1, <4>1, <4>2
    <3>. QED
      BY <2>1, <2>2, <3>1, <3>2, <3>3
  <2>7. A \o t = R \o p
    BY <2>3, <2>4, <2>5, <2>6, SeqEqual
  <2>. QED
    BY <2>7 DEF A, t
<1>4. /\ r \in WalkStates /\ r.pending = Tail(p) /\ r.stack = st.stack
      /\ r.scan = st.scan /\ r.unreadable = st.unreadable
  BY <1>1, <1>2 DEF WalkStates
<1>. HIDE DEF r, p, h
<1>5. \A f : Accounted(L, Append(R, h) \o r.pending, r, f) <=> Accounted(L, R \o p, st, f)
  BY <1>3, <1>4 DEF Accounted
<1>6. WalkOK(L, D, Append(R, h), r)
  BY <1>2, <1>4, <1>5 DEF WalkOK, p
<1>. QED
  BY <1>6 DEF r, p, h

(* A file that was read in part is read again.                             *)
LEMMA WalkRescans ==
  ASSUME NEW L, NEW D, NEW R, NEW st, WalkOK(L, D, R, st), version \in [Files -> Versions],
         st.pending = <<>>, st.scan # Nil, There(L, st.scan.file)
  PROVE  WalkOK(L, D, R, IF version[st.scan.file] = st.scan.version
                   THEN QueueLines(st, st.scan.file, st.scan.next)
                   ELSE [st EXCEPT !.scan = Nil, !.unreadable = @ + 1])
<1>. DEFINE s == st.scan
<1>1. /\ R \in Seq(Hits) /\ st \in WalkStates /\ StackOK(L, D, st.stack) /\ s \in Scans
      /\ s.file \in Files /\ s.next \in Nat
  BY DEF WalkOK, WalkStates, Scans
<1>2. CASE version[s.file] = s.version
  <2>1. ASSUME st.unreadable = 0
        PROVE  /\ s.file \in InReach(D) => /\ Holds(R, s.file, s.version, s.next)
                                        /\ ~Ahead(L, st.stack, s.file)
               /\ \A g \in InReach(D) \ {s.file} : Settled(L, R, st.stack, g)
    <3>1. \A g \in InReach(D) : Accounted(L, R, st, g)
      BY <1>1, <2>1, ConcatEmptySeq DEF WalkOK
    <3>. QED
      BY <3>1 DEF Accounted
  <2>. QED
    BY <1>1, <1>2, <2>1, ReadAFile
<1>3. CASE version[s.file] # s.version
  <2>. DEFINE r == [st EXCEPT !.scan = Nil, !.unreadable = st.unreadable + 1]
  <2>0. st.unreadable \in Nat /\ st.unreadable + 1 # 0
    BY <1>1 DEF WalkStates
  <2>1. r \in WalkStates /\ r.stack = st.stack /\ r.unreadable = st.unreadable + 1
    <3>. DEFINE u == st.unreadable + 1
    <3>1. u \in Nat /\ r = [st EXCEPT !.scan = Nil, !.unreadable = u]
      BY <2>0
    <3>. HIDE DEF u, r
    <3>2. r \in WalkStates /\ r.stack = st.stack /\ r.unreadable = u
      BY <1>1, <3>1 DEF WalkStates
    <3>. QED
      BY <3>2 DEF u
  <2>2. WalkOK(L, D, R, r)
    BY <1>1, <2>0, <2>1 DEF WalkOK
  <2>. QED
    BY <1>3, <2>2
<1>. QED
  BY <1>2, <1>3

(* The next entry of a listing is walked to: of the directory as it is, if  *)
(* it did not change.                                                       *)
LEMMA WalkSteps ==
  ASSUME NEW L, ListingsOK(L), NEW D, NEW R, NEW st, WalkOK(L, D, R, st),
         version \in [Files -> Versions],
         st.pending = <<>>, st.scan = Nil, st.stack # <<>>,
         NEW N \in SUBSET Nat, IsFiniteSet(N),
         Top(st).dir \notin D => N = L[Top(st).dir],
         NEW e, e = Append(Top(st).dir, Nth(N, Top(st).offset))
  PROVE  IF Top(st).offset > Cardinality(N) THEN WalkOK(L, D, R, Popped(st))
         ELSE (e \in Files => There(L, e)) =>
              WalkOK(L, D, R, IF e \in Files THEN QueueLines(Past(st), e, 1)
                              ELSE IF e \in Dirs /\ Len(st.stack) <= MaxDepth
                              THEN [Past(st) EXCEPT !.stack = Append(@, [dir |-> e, offset |-> 1])]
                              ELSE Past(st))
<1>. DEFINE S == st.stack
            n == Len(S)
            d == S[n].dir
            o == S[n].offset
            x == Nth(N, o)
            T == [S EXCEPT ![n].offset = @ + 1]
            U == Append(T, [dir |-> e, offset |-> 1])
            P == SubSeq(S, 1, n - 1)
<1>1. /\ R \in Seq(Hits) /\ st \in WalkStates /\ S \in Seq(Frames) /\ S # <<>>
      /\ StackOK(L, D, S) /\ st.unreadable \in Nat
  BY DEF WalkOK, WalkStates
<1>2. /\ Top(st).dir = d /\ Top(st).offset = o /\ e = Append(d, x)
      /\ d \notin D => N = L[d]
      /\ n \in Nat \ {0} /\ d \in Dirs /\ o \in Nat \ {0}
  <2>1. n \in Nat \ {0} /\ n \in 1..n /\ S[n].dir \in Dirs /\ S[n].offset \in Nat \ {0}
    BY <1>1, NextOffset
  <2>. QED
    BY <2>1 DEF Top
<1>3. /\ P \in Seq(Frames) /\ StackOK(L, D, P)
      /\ o > Cardinality(N) => \A f \in InReach(D) : Ahead(L, S, f) <=> Ahead(L, P, f)
  <2>1. ASSUME o > Cardinality(N), d \notin D PROVE Waiting(L, S[n]) = {}
    BY <1>2, <2>1, NextOfAListing DEF Waiting
  <2>. QED
    BY <1>1, <2>1, OutOfADirectory
<1>4. ASSUME ~(o > Cardinality(N))
      PROVE  /\ e \in Seq(Nat) /\ Len(e) = n
             /\ T \in Seq(Frames) /\ Len(T) = n /\ StackOK(L, D, T)
             /\ \A i \in 1..n : Leads(L, D, T, i, e)
             /\ \A f \in InReach(D) : /\ Ahead(L, S, f) <=> Ahead(L, T, f) \/ Under(e, f)
                                      /\ Under(e, f) => ~Ahead(L, T, f)
  <2>1. x \in N /\ x \in Nat
    <3>1. ASSUME NEW i \in Nat \ {0}, ~(i > Cardinality(N)) PROVE Nth(N, i) \in N
      BY <3>1, NextOfAListing
    <3>. HIDE DEF o
    <3>. QED
      BY <1>2, <1>4, <3>1
  <2>2. d \notin D => ~(o > Cardinality(L[d])) /\ x = Nth(L[d], o)
    BY <1>2, <1>4
  <2>3. ASSUME NEW y \in Nat, d \notin D => ~(o > Cardinality(L[d])) /\ y = Nth(L[d], o)
        PROVE  LET a == Append(d, y)
               IN  /\ a \in Seq(Nat) /\ Len(a) = n
                   /\ T \in Seq(Frames) /\ Len(T) = n /\ StackOK(L, D, T)
                   /\ \A i \in 1..n : Leads(L, D, T, i, a)
                   /\ \A f \in InReach(D) : /\ Ahead(L, S, f) <=> Ahead(L, T, f) \/ Under(a, f)
                                            /\ Under(a, f) => ~Ahead(L, T, f)
    BY <1>1, <2>3, PastAnEntry
  <2>4. e = Append(d, x)
    BY <1>2
  <2>. HIDE DEF T, x, d, o, n, S
  <2>. QED
    BY <2>1, <2>2, <2>3, <2>4
<1>5. ASSUME ~(o > Cardinality(N)), e \in Dirs
      PROVE  /\ U \in Seq(Frames) /\ StackOK(L, D, U)
             /\ \A f \in Files : Ahead(L, U, f) <=>
                  \/ Ahead(L, T, f)
                  \/ Under(e, f) /\ Len(e) < Len(f) /\ f[Len(e) + 1] \in L[e]
  BY <1>4, <1>5, IntoADirectory
<1>6. ASSUME NEW Q, Q \in Seq(Frames)
      PROVE  /\ [st EXCEPT !.stack = Q] \in WalkStates
             /\ [st EXCEPT !.stack = Q].stack = Q
             /\ [st EXCEPT !.stack = Q].pending = <<>> /\ [st EXCEPT !.stack = Q].scan = Nil
             /\ [st EXCEPT !.stack = Q].unreadable = st.unreadable
  BY <1>1, <1>6 DEF WalkStates
<1>7. /\ Past(st) = [st EXCEPT !.stack = T] /\ Popped(st) = [st EXCEPT !.stack = P]
      /\ [Past(st) EXCEPT !.stack = Append(@, [dir |-> e, offset |-> 1])]
           = [st EXCEPT !.stack = U]
  BY <1>1 DEF Past, Popped, WalkStates
<1>8. st.unreadable = 0 => \A f \in InReach(D) : Settled(L, R, S, f)
  BY <1>1, ConcatEmptySeq DEF WalkOK, Accounted
<1>. HIDE DEF U, T, P, x, d, o, n, S
<1>9. ASSUME NEW Q \in Seq(Frames), StackOK(L, D, Q),
             \A f \in InReach(D) : /\ Ahead(L, Q, f) => Ahead(L, S, f)
                                   /\ Ahead(L, S, f) /\ There(L, f) => Ahead(L, Q, f)
      PROVE  WalkOK(L, D, R, [st EXCEPT !.stack = Q])
  <2>. DEFINE r == [st EXCEPT !.stack = Q]
  <2>1. r \in WalkStates /\ r.stack = Q /\ r.pending = <<>> /\ r.scan = Nil
        /\ r.unreadable = st.unreadable
    BY <1>6
  <2>. HIDE DEF r
  <2>2. ASSUME st.unreadable = 0, NEW f \in InReach(D) PROVE Accounted(L, R \o r.pending, r, f)
    <3>1. Settled(L, R, Q, f)
      BY <1>8, <1>9, <2>2 DEF Settled
    <3>. QED
      BY <1>1, <2>1, <3>1, ConcatEmptySeq DEF Accounted
  <2>3. WalkOK(L, D, R, r)
    BY <1>1, <1>9, <2>1, <2>2 DEF WalkOK
  <2>. QED
    BY <2>3 DEF r
<1>10. \A f \in InReach(D) : f \in Files /\ Len(f) <= MaxDepth + 1 /\ MaxDepth \in Nat
  BY CursorsAreCounted DEF InReach
<1>11. CASE o > Cardinality(N)
  <2>1. WalkOK(L, D, R, Popped(st))
    BY <1>3, <1>7, <1>9, <1>11
  <2>. QED
    BY <1>2, <1>11, <2>1
<1>12. ASSUME ~(o > Cardinality(N)), NEW f \in Files, Under(e, f)
       PROVE  /\ f = e \/ n < Len(f)
              /\ n < Len(f) => e \in Dirs
              /\ n < Len(f) /\ There(L, f) => f[Len(e) + 1] \in L[e]
  <2>1. e \in Seq(Nat) /\ Len(e) = n /\ n <= Len(f) /\ Len(f) \in Nat
    BY <1>4, <1>12, PathsAreNumbered DEF Under
  <2>2. /\ Len(e) = Len(f) => f = e
        /\ Len(e) < Len(f) => e \in Dirs /\ \A M : There(M, f) => f[Len(e) + 1] \in M[e]
    BY <1>12, <2>1, UnderAnEntry
  <2>3. n = Len(f) \/ n < Len(f)
    BY <1>2, <2>1
  <2>. QED
    BY <2>1, <2>2, <2>3
<1>13. CASE ~(o > Cardinality(N)) /\ e \in Files /\ There(L, e)
  <2>. DEFINE r == [st EXCEPT !.stack = T]
  <2>1. r \in WalkStates /\ r.stack = T /\ r.unreadable = st.unreadable
    BY <1>4, <1>6, <1>13
  <2>. HIDE DEF r
  <2>2. e \notin Dirs /\ Under(e, e)
    BY <1>4, <1>13, FilesAreEntries DEF Under
  <2>3. \A f \in Files : Under(e, f) <=> f = e
    BY <1>12, <1>13, <2>2
  <2>4. ASSUME st.unreadable = 0
        PROVE  /\ e \in InReach(D) => Unmatched(R, e) /\ ~Ahead(L, T, e)
               /\ \A g \in InReach(D) \ {e} : Settled(L, R, T, g)
    <3>1. e \in InReach(D) => Ahead(L, S, e) /\ ~Ahead(L, T, e)
      BY <1>4, <1>13, <2>2
    <3>2. \A g \in InReach(D) \ {e} : Ahead(L, S, g) <=> Ahead(L, T, g)
      BY <1>4, <1>10, <1>13, <2>3
    <3>. QED
      BY <1>8, <2>4, <3>1, <3>2 DEF Settled
  <2>5. WalkOK(L, D, R, QueueLines(r, e, 1))
    BY <1>1, <1>4, <1>13, <2>1, <2>4, ReadAFile
  <2>. QED
    BY <1>2, <1>7, <1>13, <2>5 DEF r
<1>14. CASE ~(o > Cardinality(N)) /\ e \notin Files /\ e \in Dirs /\ n <= MaxDepth
  <2>1. \A f \in InReach(D) : Under(e, f) => n < Len(f)
    BY <1>10, <1>12, <1>14
  <2>2. \A f \in InReach(D) : /\ Ahead(L, U, f) => Ahead(L, S, f)
                              /\ Ahead(L, S, f) /\ There(L, f) => Ahead(L, U, f)
    <3>1. Len(e) = n
      BY <1>4, <1>14
    <3>. QED
      BY <1>4, <1>5, <1>10, <1>12, <1>14, <2>1, <3>1
  <2>3. WalkOK(L, D, R, [st EXCEPT !.stack = U])
    BY <1>5, <1>9, <1>14, <2>2
  <2>. QED
    BY <1>2, <1>7, <1>14, <2>3 DEF n, S
<1>15. CASE ~(o > Cardinality(N)) /\ e \notin Files /\ ~(e \in Dirs /\ n <= MaxDepth)
  <2>1. ASSUME NEW f \in InReach(D), Under(e, f) PROVE FALSE
    <3>1. f \in Files /\ Len(f) <= MaxDepth + 1 /\ MaxDepth \in Nat /\ Len(f) \in Nat
      BY <1>10, PathsAreNumbered
    <3>2. n < Len(f) /\ e \in Dirs
      BY <1>12, <1>15, <2>1, <3>1
    <3>. QED
      BY <1>2, <1>15, <3>1, <3>2
  <2>2. \A f \in InReach(D) : Ahead(L, S, f) <=> Ahead(L, T, f)
    BY <1>4, <1>15, <2>1
  <2>3. WalkOK(L, D, R, [st EXCEPT !.stack = T])
    BY <1>4, <1>9, <1>15, <2>2
  <2>. QED
    BY <1>2, <1>7, <1>15, <2>3 DEF n, S
<1>. QED
  BY <1>2, <1>11, <1>13, <1>14, <1>15 DEF n, S

(* A read is denied: whatever is skipped, the count says so.               *)
LEMMA WalkSkips ==
  ASSUME NEW L, NEW D, NEW R, NEW st, WalkOK(L, D, R, st), st.pending = <<>>,
         NEW skipped,
         \/ skipped = [st EXCEPT !.scan = Nil]
         \/ st.scan = Nil /\ st.stack # <<>> /\ skipped \in {Past(st), Popped(st)}
  PROVE  WalkOK(L, D, R, [skipped EXCEPT !.unreadable = @ + 1])
<1>1. /\ R \in Seq(Hits) /\ st \in WalkStates /\ StackOK(L, D, st.stack)
      /\ st.stack \in Seq(Frames) /\ st.pending \in Seq(Hits) /\ st.unreadable \in Nat
      /\ st.scan \in Scans \cup {Nil}
  BY DEF WalkOK, WalkStates
<1>2. PICK Q \in Seq(Frames) :
        StackOK(L, D, Q) /\ skipped = [st EXCEPT !.stack = Q, !.scan = Nil]
  <2>1. CASE skipped = [st EXCEPT !.scan = Nil]
    <3>1. skipped = [st EXCEPT !.stack = st.stack, !.scan = Nil]
      BY <1>1, <2>1 DEF WalkStates
    <3>. QED
      BY <1>1, <3>1
  <2>2. CASE st.scan = Nil /\ st.stack # <<>> /\ skipped = Past(st)
    <3>. DEFINE T == [st.stack EXCEPT ![Len(st.stack)].offset = @ + 1]
    <3>1. T \in Seq(Frames) /\ StackOK(L, D, T)
      BY <1>1, <2>2, NextOffset
    <3>2. skipped = [st EXCEPT !.stack = T, !.scan = Nil]
      BY <1>1, <2>2 DEF WalkStates, Past
    <3>. QED
      BY <3>1, <3>2
  <2>3. CASE st.scan = Nil /\ st.stack # <<>> /\ skipped = Popped(st)
    <3>. DEFINE T == SubSeq(st.stack, 1, Len(st.stack) - 1)
    <3>1. T \in Seq(Frames) /\ StackOK(L, D, T)
      BY <1>1, <2>3, OutOfADirectory
    <3>2. skipped = [st EXCEPT !.stack = T, !.scan = Nil]
      BY <1>1, <2>3 DEF WalkStates, Popped
    <3>. QED
      BY <3>1, <3>2
  <2>. QED
    BY <2>1, <2>2, <2>3
<1>. DEFINE u == st.unreadable + 1
            r == [skipped EXCEPT !.unreadable = @ + 1]
<1>3. u \in Nat /\ u # 0 /\ r = [skipped EXCEPT !.unreadable = u]
  <2>1. skipped.unreadable = st.unreadable
    BY <1>1, <1>2 DEF WalkStates
  <2>. QED
    BY <1>1, <2>1
<1>. HIDE DEF r, u
<1>4. skipped \in WalkStates /\ skipped.stack = Q
  BY <1>1, <1>2 DEF WalkStates
<1>5. r \in WalkStates /\ r.stack = Q /\ r.unreadable # 0
  BY <1>3, <1>4 DEF WalkStates
<1>6. WalkOK(L, D, R, r)
  BY <1>1, <1>2, <1>5 DEF WalkOK
<1>. QED
  BY <1>6 DEF r

-----------------------------------------------------------------------------

(* What every walk is worth, in a call or under a cursor; the listings a    *)
(* page has read are as they are now, but of directories that changed; and  *)
(* a search that ended is nowhere any more.                                 *)
SeenOK(L, D, l) ==
  \A d \in DOMAIN l : d \in Dirs /\ l[d] \subseteq Names[d] /\ (d \notin D => l[d] = L[d])
ReportedIsExact(L, D, R) ==
  \A f \in InReach(D) : IF There(L, f) THEN \E v \in Versions : Holds(R, f, v, Lines[f][v] + 1)
                        ELSE Unmatched(R, f)

WalksOK ==
  \A k \in Calls : call[k].at = "walking" =>
    /\ call[k].page \in Seq(Hits)
    /\ WalkOK(listing, changed[call[k].chain], reported[call[k].chain] \o call[k].page, call[k].state)
    /\ SeenOK(listing, changed[call[k].chain], call[k].seen)
CursorsOK ==
  \A k \in Calls : cursors[k] # Nil =>
    WalkOK(listing, changed[cursors[k].chain], reported[cursors[k].chain], cursors[k].state)

SearchExactInv ==
  /\ SearchInv
  /\ version \in [Files -> Versions] /\ ListingsOK(listing)
  /\ reported \in [Calls -> Seq(Hits)] /\ DOMAIN ended = Calls /\ DOMAIN changed = Calls
  /\ \A k \in Calls : call[k].at = "idle" => reported[k] = <<>> /\ ended[k] = "open"
  /\ \A j, c \in Calls : Stored(j, c) \/ Walked(j, c) => ended[c] = "open"
  /\ WalksOK /\ CursorsOK
  /\ \A c \in Calls : ended[c] = "complete" => ReportedIsExact(listing, changed[c], reported[c])

LEMMA ExactMeans ==
  ASSUME \A c \in Calls : ended[c] = "complete" => ReportedIsExact(listing, changed[c], reported[c])
  PROVE  CompleteSearchIsExact
BY DEF CompleteSearchIsExact, ReportedIsExact, Exists, There, Steady, InReach, Unmatched

LEMMA FreshIsExact ==
  ASSUME NEW L, ListingsOK(L), NEW D
  PROVE  WalkOK(L, D, <<>>, Fresh)
<1>. DEFINE frame == [dir |-> <<>>, offset |-> 1]
            S == <<frame>>
<1>1. frame \in Frames /\ frame.dir = <<>> /\ frame.offset = 1 /\ Len(<<>>) = 0
      /\ Waiting(L, frame) = L[<<>>]
  <2>1. <<>> \in Dirs
    BY FilesAreEntries
  <2>2. LeftOf(L[<<>>], 1) = L[<<>>]
    BY <2>1, ListingsAreFinite, NextOfAListing
  <2>. QED
    BY <2>1, <2>2 DEF Frames, Waiting
<1>2. S \in Seq(Frames) /\ Len(S) = 1 /\ S[1] = frame
  BY <1>1
<1>3. Fresh.stack = S /\ Fresh.pending = <<>> /\ Fresh.scan = Nil /\ Fresh.unreadable = 0
  BY DEF Fresh
<1>4. Fresh \in WalkStates
  <2>1. <<>> \in Seq(Hits)
    OBVIOUS
  <2>. QED
    BY <1>2, <2>1 DEF Fresh, WalkStates
<1>. HIDE DEF S, frame
<1>5. StackOK(L, D, S)
  BY <1>1, <1>2 DEF StackOK
<1>6. ASSUME NEW f \in Files PROVE Settled(L, <<>>, S, f)
  <2>1. f # <<>> /\ f \in Seq(Nat) /\ Len(f) \in Nat
    BY FilesAreEntries, PathsAreNumbered
  <2>2. 1 \in 1..Len(f) /\ <<>> \in Seq(Nat)
    BY <2>1, EmptySeq
  <2>3. There(L, f) => f[1] \in L[<<>>]
    <3>. DEFINE root == <<>>
    <3>1. root \in Seq(Nat) /\ Len(root) = 1 - 1 /\ \A g \in 1..(1 - 1) : f[g] = root[g]
      BY <1>1, <2>2
    <3>. HIDE DEF root
    <3>2. There(L, f) => f[1] \in L[root]
      BY <2>2, <3>1, HoldingDirectory
    <3>. QED
      BY <3>2 DEF root
  <2>4. There(L, f) => Ahead(L, S, f)
    BY <1>1, <1>2, <2>2, <2>3 DEF Ahead, AheadAt
  <2>5. Unmatched(<<>>, f)
    BY DEF Unmatched
  <2>. QED
    BY <2>4, <2>5 DEF Settled
<1>7. <<>> \o Fresh.pending = <<>> /\ <<>> \in Seq(Hits)
  BY <1>3
<1>. QED
  BY <1>3, <1>4, <1>5, <1>6, <1>7 DEF WalkOK, Accounted, InReach

LEMMA AppendAndConcat ==
  ASSUME NEW s \in Seq(Hits), NEW t \in Seq(Hits), NEW x \in Hits
  PROVE  Append(s \o t, x) = s \o Append(t, x) /\ Append(t, x) \in Seq(Hits)
<1>. DEFINE A == Append(t, x)
            B == Append(s \o t, x)
<1>1. /\ A \in Seq(Hits) /\ Len(A) = Len(t) + 1 /\ A[Len(t) + 1] = x
      /\ \A i \in 1..Len(t) : A[i] = t[i]
      /\ Len(s) \in Nat /\ Len(t) \in Nat
  OBVIOUS
<1>2. /\ s \o t \in Seq(Hits) /\ Len(s \o t) = Len(s) + Len(t)
      /\ \A i \in 1..(Len(s) + Len(t)) :
           (s \o t)[i] = IF i <= Len(s) THEN s[i] ELSE t[i - Len(s)]
  BY ConcatProperties
<1>3. /\ B \in Seq(Hits) /\ Len(B) = Len(s) + Len(t) + 1 /\ B[Len(s) + Len(t) + 1] = x
      /\ \A i \in 1..(Len(s) + Len(t)) : B[i] = (s \o t)[i]
  BY <1>1, <1>2
<1>. HIDE DEF A, B
<1>4. /\ s \o A \in Seq(Hits) /\ Len(s \o A) = Len(s) + Len(A)
      /\ \A i \in 1..(Len(s) + Len(A)) :
           (s \o A)[i] = IF i <= Len(s) THEN s[i] ELSE A[i - Len(s)]
  BY <1>1, ConcatProperties
<1>5. ASSUME NEW i \in 1..Len(B) PROVE B[i] = (s \o A)[i]
  <2>1. CASE i <= Len(s)
    <3>1. i \in 1..(Len(s) + Len(t)) /\ i \in 1..(Len(s) + Len(A))
      BY <1>1, <1>3, <2>1
    <3>2. B[i] = s[i]
      BY <1>2, <1>3, <2>1, <3>1
    <3>3. (s \o A)[i] = s[i]
      BY <1>4, <2>1, <3>1
    <3>. QED
      BY <3>2, <3>3
  <2>2. CASE i > Len(s) /\ i <= Len(s) + Len(t)
    <3>1. i - Len(s) \in 1..Len(t) /\ i \in 1..(Len(s) + Len(t)) /\ i \in 1..(Len(s) + Len(A))
          /\ ~(i <= Len(s))
      BY <1>1, <2>2
    <3>. QED
      BY <1>1, <1>2, <1>3, <1>4, <3>1
  <2>3. CASE i = Len(s) + Len(t) + 1
    <3>1. i - Len(s) = Len(t) + 1 /\ i \in 1..(Len(s) + Len(A)) /\ ~(i <= Len(s))
      BY <1>1, <2>3
    <3>. QED
      BY <1>1, <1>3, <1>4, <2>3, <3>1
  <2>. QED
    BY <1>1, <1>3, <2>1, <2>2, <2>3
<1>6. B = s \o A
  BY <1>1, <1>3, <1>4, <1>5, SeqEqual
<1>. QED
  BY <1>1, <1>6 DEF A, B

(* A turn of the loop.                                                     *)
LEMMA TurnIsExact ==
  ASSUME SearchExactInv, NEW k \in Calls, Emit(k) \/ Rescan(k) \/ List(k) \/ Walk(k) \/ Denied(k)
  PROVE  SearchExactInv'
<1>. DEFINE b == call[k]
            st == b.state
            R == reported[b.chain]
            D == changed[b.chain]
<1>1. SearchInv' /\ UNCHANGED <<cursors, version, listing, reported, ended, changed>>
  <2>1. SearchInv'
    BY TurnStep DEF SearchExactInv
  <2>. QED
    BY <2>1 DEF Emit, Rescan, List, Walk, Denied
<1>2. /\ b.at = "walking" /\ b.chain \in Calls /\ R \in Seq(Hits)
      /\ b.page \in Seq(Hits) /\ WalkOK(listing, D, R \o b.page, st) /\ version \in [Files -> Versions]
      /\ DOMAIN b = {"at", "chain", "state", "page", "work", "seen"} /\ DOMAIN call = Calls
      /\ R \o b.page \in Seq(Hits) /\ ListingsOK(listing) /\ SeenOK(listing, D, b.seen)
  <2>1. b.at = "walking"
    BY DEF Emit, Rescan, List, Walk, Denied, Seeing, Reading, Working
  <2>. QED
    BY <2>1 DEF SearchExactInv, WalksOK, SearchInv, SearchShape
<1>3. /\ \A j \in Calls \ {k} : call'[j] = call[j]
      /\ call'[k].at = b.at /\ call'[k].chain = b.chain
      /\ call'[k].page \in Seq(Hits) /\ WalkOK(listing, D, R \o call'[k].page, call'[k].state)
      /\ SeenOK(listing, D, call'[k].seen)
  <2>. DEFINE Goal == /\ \A j \in Calls \ {k} : call'[j] = call[j]
                      /\ call'[k].at = b.at /\ call'[k].chain = b.chain
                      /\ call'[k].page \in Seq(Hits)
                      /\ WalkOK(listing, D, R \o call'[k].page, call'[k].state)
                      /\ SeenOK(listing, D, call'[k].seen)
  <2>1. ASSUME NEW s, WalkOK(listing, D, R \o b.page, s),
               Advance(k, s) \/ call' = [call EXCEPT ![k].state = s]
        PROVE  Goal
    <3>1. /\ \A j \in Calls \ {k} : call'[j] = call[j]
          /\ call'[k].at = b.at /\ call'[k].chain = b.chain
          /\ call'[k].page = b.page /\ call'[k].state = s /\ call'[k].seen = b.seen
      BY <1>2, <2>1 DEF Advance
    <3>. QED
      BY <1>2, <2>1, <3>1
  <2>2. CASE Emit(k)
    <3>. DEFINE h == Head(st.pending)
                s == [st EXCEPT !.pending = Tail(st.pending)]
    <3>1. WalkOK(listing, D, Append(R \o b.page, h), s)
      BY <1>2, <2>2, WalkEmits DEF Emit
    <3>2. h \in Hits
      BY <1>2, <2>2, HeadTailProperties DEF Emit, WalkOK, WalkStates
    <3>3. Append(R \o b.page, h) = R \o Append(b.page, h) /\ Append(b.page, h) \in Seq(Hits)
      <4>1. R \in Seq(Hits) /\ b.page \in Seq(Hits)
        BY <1>2
      <4>. HIDE DEF R, h
      <4>2. ASSUME NEW t \in Seq(Hits)
            PROVE  Append(R \o t, h) = R \o Append(t, h) /\ Append(t, h) \in Seq(Hits)
        BY <3>2, <4>1, AppendAndConcat
      <4>. QED
        BY <4>1, <4>2
    <3>4. /\ \A j \in Calls \ {k} : call'[j] = call[j]
          /\ call'[k].at = b.at /\ call'[k].chain = b.chain
          /\ call'[k].page = Append(b.page, h) /\ call'[k].state = s /\ call'[k].seen = b.seen
      <4>1. call' = [call EXCEPT ![k] = [b EXCEPT !.page = Append(b.page, h), !.state = s]]
        BY <1>2, <2>2 DEF Emit
      <4>. HIDE DEF s, h
      <4>. QED
        BY <1>2, <4>1
    <3>. QED
      BY <1>2, <3>1, <3>3, <3>4
  <2>3. CASE Rescan(k)
    <3>1. st.pending = <<>> /\ st.scan # Nil /\ There(listing, st.scan.file)
      BY <2>3 DEF Rescan, Reading, Exists, There
    <3>. QED
      BY <1>2, <2>1, <2>3, <3>1, WalkRescans DEF Rescan
  <2>4. CASE Walk(k)
    <3>. DEFINE N == Entries(k)
                e == Entry(k)
                next == IF e \in Files THEN QueueLines(Past(st), e, 1)
                        ELSE IF e \in Dirs /\ Len(st.stack) <= MaxDepth
                        THEN [Past(st) EXCEPT !.stack = Append(@, [dir |-> e, offset |-> 1])]
                        ELSE Past(st)
    <3>1. /\ st.pending = <<>> /\ st.scan = Nil /\ st.stack # <<>>
          /\ Top(st).dir \in DOMAIN b.seen /\ N = b.seen[Top(st).dir]
          /\ e = Append(Top(st).dir, Nth(N, Top(st).offset))
          /\ Exhausted(k) <=> Top(st).offset > Cardinality(N)
      BY <2>4 DEF Walk, Seeing, Reading, Listed, Entries, Entry, Exhausted
    <3>2. N \in SUBSET Nat /\ IsFiniteSet(N) /\ (Top(st).dir \notin D => N = listing[Top(st).dir])
      <4>1. /\ Top(st).dir \in Dirs /\ N \subseteq Names[Top(st).dir]
            /\ Top(st).dir \notin D => N = listing[Top(st).dir]
        BY <1>2, <3>1 DEF SeenOK
      <4>. QED
        BY <4>1, FilesAreEntries, FS_Subset
    <3>3. /\ e \in Files => (There(listing, e) <=> Exists(e))
          /\ Exhausted(k) => call' = [call EXCEPT ![k].state = Popped(st)]
          /\ ~Exhausted(k) => (e \in Files => Exists(e)) /\ Advance(k, next)
      BY <2>4 DEF Walk, Exists, There
    <3>. HIDE DEF N, e
    <3>. DEFINE walked == R \o b.page
    <3>4. IF Top(st).offset > Cardinality(N) THEN WalkOK(listing, D, walked, Popped(st))
          ELSE (e \in Files => There(listing, e)) => WalkOK(listing, D, walked, next)
      <4>1. WalkOK(listing, D, walked, st) /\ ListingsOK(listing) /\ version \in [Files -> Versions]
        BY <1>2
      <4>. HIDE DEF walked, D, st
      <4>. QED
        BY <3>1, <3>2, <4>1, WalkSteps
    <3>. HIDE DEF next
    <3>5. CASE Exhausted(k)
      BY <2>1, <3>1, <3>3, <3>4, <3>5
    <3>6. CASE ~Exhausted(k)
      BY <2>1, <3>1, <3>3, <3>4, <3>6
    <3>. QED
      BY <3>5, <3>6
  <2>5. CASE Denied(k)
    <3>1. PICK skipped :
            /\ \/ skipped = [st EXCEPT !.scan = Nil]
               \/ st.scan = Nil /\ st.stack # <<>> /\ skipped \in {Past(st), Popped(st)}
            /\ st.pending = <<>> /\ Advance(k, [skipped EXCEPT !.unreadable = @ + 1])
      BY <2>5 DEF Denied, Seeing, Reading
    <3>2. WalkOK(listing, D, R \o b.page, [skipped EXCEPT !.unreadable = @ + 1])
      BY <1>2, <3>1, WalkSkips
    <3>. QED
      BY <2>1, <3>1, <3>2
  <2>6. CASE List(k)
    <3>. DEFINE d == Top(st).dir
    <3>1. PICK kept \in SUBSET DOMAIN b.seen :
            call' = [call EXCEPT ![k].seen =
                       [e \in kept \cup {d} |-> IF e = d THEN listing[d] ELSE b.seen[e]]]
      BY <2>6 DEF List
    <3>. DEFINE l == [e \in kept \cup {d} |-> IF e = d THEN listing[d] ELSE b.seen[e]]
    <3>2. d \in Dirs
      <4>1. st.stack \in Seq(Frames) /\ st.stack # <<>> /\ StackOK(listing, D, st.stack)
        BY <1>2, <2>6 DEF List, Seeing, WalkOK, WalkStates
      <4>2. Len(st.stack) \in 1..Len(st.stack)
            /\ \A i \in 1..Len(st.stack) : st.stack[i].dir \in Dirs
        BY <4>1, NextOffset
      <4>. QED
        BY <4>2 DEF Top
    <3>3. SeenOK(listing, D, l)
      <4>1. \A e \in kept : /\ e \in Dirs /\ b.seen[e] \subseteq Names[e]
                            /\ e \notin D => b.seen[e] = listing[e]
        BY <1>2 DEF SeenOK
      <4>2. listing[d] \subseteq Names[d]
        BY <1>2, <3>2 DEF ListingsOK
      <4>. HIDE DEF d
      <4>. QED
        BY <3>2, <4>1, <4>2 DEF SeenOK
    <3>4. /\ \A j \in Calls \ {k} : call'[j] = call[j]
          /\ call'[k].at = b.at /\ call'[k].chain = b.chain
          /\ call'[k].page = b.page /\ call'[k].state = st /\ call'[k].seen = l
      BY <1>2, <3>1
    <3>. HIDE DEF l
    <3>. QED
      BY <1>2, <3>3, <3>4
  <2>. QED
    BY <2>2, <2>3, <2>4, <2>5, <2>6
<1>4. \A j, c \in Calls : /\ call'[j].at = call[j].at
                          /\ Stored(j, c)' <=> Stored(j, c)
                          /\ Walked(j, c)' <=> Walked(j, c)
  BY <1>1, <1>3 DEF Stored, Walked
<1>5. WalksOK'
  <2>. SUFFICES ASSUME NEW j \in Calls, call'[j].at = "walking"
                PROVE  /\ call'[j].page \in Seq(Hits)
                       /\ WalkOK(listing', changed'[call'[j].chain],
                                 reported'[call'[j].chain] \o call'[j].page, call'[j].state)
                       /\ SeenOK(listing', changed'[call'[j].chain], call'[j].seen)
    BY DEF WalksOK
  <2>1. CASE j = k
    BY <1>1, <1>3, <2>1
  <2>2. CASE j # k
    BY <1>1, <1>3, <2>2 DEF SearchExactInv, WalksOK
  <2>. QED
    BY <2>1, <2>2
<1>6. CursorsOK' /\ ListingsOK(listing)'
  BY <1>1 DEF SearchExactInv, CursorsOK, ListingsOK
<1>7. \A c \in Calls : ended'[c] = "complete" => ReportedIsExact(listing', changed'[c], reported'[c])
  BY <1>1 DEF SearchExactInv
<1>. QED
  BY <1>1, <1>4, <1>5, <1>6, <1>7 DEF SearchExactInv

(* A call takes up a fresh walk, or the one a cursor stored.               *)
LEMMA TakeIsExact ==
  ASSUME SearchExactInv, NEW k \in Calls, Start(k) \/ \E j \in Calls : Resume(k, j)
  PROVE  SearchExactInv'
<1>1. SearchInv' /\ UNCHANGED <<version, listing, reported, ended, changed>>
  <2>1. SearchInv'
    BY TakeStep DEF SearchExactInv
  <2>. QED
    BY <2>1 DEF Start, Resume
<1>. DEFINE Taken(c, st) ==
       /\ call' = [call EXCEPT ![k] = [Idle EXCEPT !.at = "walking", !.chain = c, !.state = st]]
       /\ ended[c] = "open" /\ WalkOK(listing, changed[c], reported[c], st)
       /\ reported[c] \in Seq(Hits)
       /\ \A m \in Calls : cursors'[m] \in {cursors[m], Nil}
<1>2. \E c \in Calls : \E st : Taken(c, st)
  <2>0. DOMAIN Pruned = Calls /\ \A m \in Calls : Pruned[m] \in {cursors[m], Nil}
    BY DEF Pruned
  <2>1. CASE Start(k)
    <3>1. reported[k] = <<>> /\ ended[k] = "open" /\ <<>> \in Seq(Hits)
      BY <2>1 DEF SearchExactInv, Start, Ready
    <3>2. cursors' = Pruned
          /\ call' = [call EXCEPT ![k] =
                [Idle EXCEPT !.at = "walking", !.chain = k, !.state = Fresh]]
      BY <2>1 DEF Start
    <3>3. WalkOK(listing, changed[k], reported[k], Fresh)
      BY <3>1, FreshIsExact DEF SearchExactInv
    <3>. QED
      BY <2>0, <3>1, <3>2, <3>3
  <2>2. CASE \E j \in Calls : Resume(k, j)
    <3>1. PICK j \in Calls : Resume(k, j)
      BY <2>2
    <3>. DEFINE c == cursors[j].chain
                st == cursors[j].state
    <3>2. /\ cursors[j] # Nil /\ cursors' = [Pruned EXCEPT ![j] = Nil]
          /\ call' = [call EXCEPT ![k] = [Idle EXCEPT !.at = "walking", !.chain = c, !.state = st]]
      BY <2>0, <3>1 DEF Resume
    <3>3. /\ c \in Calls /\ WalkOK(listing, changed[c], reported[c], st)
          /\ ended[c] = "open" /\ reported[c] \in Seq(Hits)
      BY <3>2 DEF SearchExactInv, CursorsOK, SearchInv, Stored
    <3>4. \A m \in Calls : cursors'[m] \in {cursors[m], Nil}
      BY <2>0, <3>2
    <3>. QED
      BY <3>2, <3>3, <3>4
  <2>. QED
    BY <2>1, <2>2
<1>3. PICK c \in Calls : \E st : Taken(c, st)
  BY <1>2
<1>4. PICK st : Taken(c, st)
  BY <1>3
<1>5. /\ \A j \in Calls \ {k} : call'[j] = call[j]
      /\ call'[k].at = "walking" /\ call'[k].chain = c
      /\ call'[k].page = <<>> /\ call'[k].state = st /\ call'[k].seen = <<>>
  BY <1>4 DEF SearchExactInv, SearchInv, SearchShape, Idle
<1>6. \A j, a \in Calls : /\ Stored(j, a)' => Stored(j, a)
                          /\ Walked(j, a)' => IF j = k THEN a = c ELSE Walked(j, a)
  BY <1>4, <1>5 DEF Stored, Walked
<1>7. \A a \in Calls : ended'[a] = "complete" => ReportedIsExact(listing', changed'[a], reported'[a])
  BY <1>1 DEF SearchExactInv
<1>8. WalksOK'
  <2>. SUFFICES ASSUME NEW j \in Calls, call'[j].at = "walking"
                PROVE  /\ call'[j].page \in Seq(Hits)
                       /\ WalkOK(listing', changed'[call'[j].chain],
                                 reported'[call'[j].chain] \o call'[j].page, call'[j].state)
                       /\ SeenOK(listing', changed'[call'[j].chain], call'[j].seen)
    BY DEF WalksOK
  <2>1. CASE j = k
    <3>1. reported[c] \o <<>> = reported[c] /\ <<>> \in Seq(Hits) /\ DOMAIN <<>> = {}
      BY <1>4, ConcatEmptySeq
    <3>. QED
      BY <1>1, <1>4, <1>5, <2>1, <3>1 DEF SeenOK
  <2>2. CASE j # k
    BY <1>1, <1>5, <2>2 DEF SearchExactInv, WalksOK
  <2>. QED
    BY <2>1, <2>2
<1>9. CursorsOK' /\ ListingsOK(listing)'
  BY <1>1, <1>4 DEF SearchExactInv, CursorsOK, ListingsOK
<1>10. \A j \in Calls : call'[j].at = "idle" => reported'[j] = <<>> /\ ended'[j] = "open"
  BY <1>1, <1>5 DEF SearchExactInv
<1>11. \A j, a \in Calls : Stored(j, a)' \/ Walked(j, a)' => ended'[a] = "open"
  BY <1>1, <1>4, <1>6 DEF SearchExactInv
<1>. QED
  BY <1>1, <1>7, <1>8, <1>9, <1>10, <1>11 DEF SearchExactInv

(* A page is over.                                                         *)
LEMMA PageIsExact ==
  ASSUME SearchExactInv, NEW k \in Calls, EndPage(k) \/ Fail(k)
  PROVE  SearchExactInv'
<1>. DEFINE b == call[k]
            st == b.state
            c == b.chain
            R == reported[c] \o b.page
            D == changed[c]
<1>1. SearchInv'
  BY PageStep DEF SearchExactInv
<1>2. /\ b.at = "walking" /\ c \in Calls /\ R \in Seq(Hits) /\ WalkOK(listing, D, R, st)
      /\ Walked(k, c) /\ ended[c] = "open" /\ cursors[k] = Nil
      /\ DOMAIN call = Calls /\ DOMAIN cursors = Calls /\ DOMAIN ended = Calls
      /\ reported \in [Calls -> Seq(Hits)] /\ call[c].at # "idle"
      /\ \A j \in Calls : ~Stored(j, c) /\ (Walked(j, c) => j = k)
  <2>1. b.at = "walking"
    BY DEF EndPage, Fail
  <2>2. c \in Calls /\ Walked(k, c)
    BY <2>1 DEF SearchExactInv, SearchInv, Walked
  <2>3. reported[c] \in Seq(Hits) /\ b.page \in Seq(Hits)
    BY <2>1, <2>2 DEF SearchExactInv, WalksOK
  <2>4. \A j \in Calls : ~Stored(j, c) /\ (Walked(j, c) => j = k)
    BY <2>2 DEF SearchExactInv, SearchInv, ChainAt
  <2>5. call[c].at # "idle" /\ cursors[k] = Nil
    BY <2>1, <2>2 DEF SearchExactInv, SearchInv, ChainAt
  <2>. QED
    BY <2>1, <2>2, <2>3, <2>4, <2>5 DEF SearchExactInv, WalksOK, SearchInv, SearchShape
<1>3. /\ \A j \in Calls \ {k} : call'[j] = call[j]
      /\ call'[k].at = "done" /\ UNCHANGED <<version, listing, changed>>
  BY <1>2 DEF EndPage, Fail, Idle
<1>4. /\ \A j \in Calls \ {k} : cursors'[j] = cursors[j]
      /\ cursors'[k] = Nil \/ (/\ cursors'[k].chain = c /\ cursors'[k].state = st
                               /\ reported'[c] = R /\ ended'[c] = "open")
      /\ \A a \in Calls \ {c} : reported'[a] = reported[a] /\ ended'[a] = ended[a]
      /\ reported' \in [Calls -> Seq(Hits)] /\ DOMAIN ended' = Calls
      /\ ended'[c] = "complete" =>
           /\ reported'[c] = R /\ st.unreadable = 0
           /\ st.pending = <<>> /\ st.stack = <<>> /\ st.scan = Nil
  <2>1. CASE /\ Lost(k) /\ UNCHANGED <<cursors, reported>>
    BY <1>2, <2>1 DEF Lost
  <2>2. CASE /\ reported' = [reported EXCEPT ![c] = R]
             /\ cursors' = [cursors EXCEPT ![k] = [chain |-> c, state |-> st]]
             /\ UNCHANGED ended
    BY <1>2, <2>2
  <2>3. CASE /\ reported' = [reported EXCEPT ![c] = R]
             /\ ended' = [ended EXCEPT ![c] = IF st.unreadable = 0 THEN "complete" ELSE "partial"]
             /\ UNCHANGED cursors /\ ~Truncated(st)
    <3>1. st.pending = <<>> /\ st.stack = <<>> /\ st.scan = Nil
      BY <2>3 DEF Truncated
    <3>2. ended'[c] = "complete" => st.unreadable = 0
      BY <1>2, <2>3
    <3>. QED
      BY <1>2, <2>3, <3>1, <3>2
  <2>. QED
    BY <2>1, <2>2, <2>3 DEF EndPage, Fail
<1>. HIDE DEF R, D, c, st, b
<1>5. ASSUME NEW a \in Calls, ended'[a] = "complete" PROVE ReportedIsExact(listing', changed'[a], reported'[a])
  <2>1. CASE a = c
    <3>1. \A f \in InReach(D) : Accounted(listing, R, st, f)
      BY <1>2, <1>4, <1>5, <2>1, ConcatEmptySeq DEF WalkOK
    <3>2. \A f : ~Ahead(listing, st.stack, f)
      <4>1. st.stack = <<>> /\ Len(<<>>) = 0
        BY <1>4, <1>5, <2>1
      <4>. QED
        BY <4>1 DEF Ahead
    <3>3. ReportedIsExact(listing, D, R)
      BY <1>4, <1>5, <2>1, <3>1, <3>2 DEF Accounted, Settled, ReportedIsExact
    <3>. QED
      BY <1>3, <1>4, <1>5, <2>1, <3>3 DEF D
  <2>2. CASE a # c
    BY <1>3, <1>4, <1>5, <2>2 DEF SearchExactInv
  <2>. QED
    BY <2>1, <2>2
<1>6. \A j \in Calls : call'[j].at = "idle" => reported'[j] = <<>> /\ ended'[j] = "open"
  BY <1>2, <1>3, <1>4 DEF SearchExactInv
<1>7. ASSUME NEW j \in Calls, NEW a \in Calls, Stored(j, a)' \/ Walked(j, a)'
      PROVE  ended'[a] = "open"
  <2>1. CASE a # c
    <3>1. Stored(j, a) \/ Walked(j, a)
      BY <1>2, <1>3, <1>4, <1>7, <2>1 DEF Stored, Walked
    <3>. QED
      BY <1>4, <2>1, <3>1 DEF SearchExactInv
  <2>2. CASE a = c
    BY <1>2, <1>3, <1>4, <1>7, <2>2 DEF Stored, Walked
  <2>. QED
    BY <2>1, <2>2
<1>8. WalksOK'
  <2>. SUFFICES ASSUME NEW j \in Calls, call'[j].at = "walking"
                PROVE  /\ call'[j].page \in Seq(Hits)
                       /\ WalkOK(listing', changed'[call'[j].chain],
                                 reported'[call'[j].chain] \o call'[j].page, call'[j].state)
                       /\ SeenOK(listing', changed'[call'[j].chain], call'[j].seen)
    BY DEF WalksOK
  <2>1. j # k /\ call'[j] = call[j] /\ call[j].chain \in Calls /\ call[j].chain # c
    BY <1>2, <1>3 DEF SearchExactInv, SearchInv, Walked
  <2>2. reported'[call[j].chain] = reported[call[j].chain]
    BY <1>4, <2>1
  <2>. QED
    BY <1>3, <2>1, <2>2 DEF SearchExactInv, WalksOK
<1>9. CursorsOK'
  <2>. SUFFICES ASSUME NEW j \in Calls, cursors'[j] # Nil
                PROVE  WalkOK(listing', changed'[cursors'[j].chain],
                              reported'[cursors'[j].chain], cursors'[j].state)
    BY DEF CursorsOK
  <2>1. CASE j = k
    BY <1>2, <1>3, <1>4, <2>1 DEF D
  <2>2. CASE j # k
    <3>1. cursors'[j] = cursors[j] /\ cursors[j].chain \in Calls /\ cursors[j].chain # c
      BY <1>2, <1>4, <2>2 DEF SearchExactInv, SearchInv, Stored
    <3>2. reported'[cursors[j].chain] = reported[cursors[j].chain]
      BY <1>4, <3>1
    <3>. QED
      BY <1>3, <3>1, <3>2 DEF SearchExactInv, CursorsOK
  <2>. QED
    BY <2>1, <2>2
<1>10. ListingsOK(listing)'
  BY <1>3 DEF SearchExactInv, ListingsOK
<1>. QED
  BY <1>1, <1>3, <1>4, <1>5, <1>6, <1>7, <1>8, <1>9, <1>10 DEF SearchExactInv

(* A listing changes: nothing is different for files of other directories. *)
LEMMA ChangedElsewhere ==
  ASSUME NEW L, NEW M, NEW d \in Dirs, \A e \in Dirs \ {d} : M[e] = L[e], NEW D
  PROVE  LET E == D \cup {d}
         IN  /\ \A R, st : WalkOK(L, D, R, st) => WalkOK(M, E, R, st)
             /\ \A R : ReportedIsExact(L, D, R) => ReportedIsExact(M, E, R)
             /\ \A l : SeenOK(L, D, l) => SeenOK(M, E, l)
<1>. DEFINE E == D \cup {d}
<1>1. ASSUME NEW f \in InReach(E)
      PROVE  f \in InReach(D) /\ f \in Files /\ (There(L, f) <=> There(M, f))
  <2>1. f \in Files /\ Len(f) <= MaxDepth + 1 /\ f \in InReach(D)
        /\ \A i \in DOMAIN f : SubSeq(f, 1, i - 1) \notin E
    BY DEF InReach
  <2>2. \A i \in DOMAIN f : SubSeq(f, 1, i - 1) \in Dirs \ {d}
    BY <2>1, PathsAreNumbered
  <2>. QED
    BY <2>1, <2>2 DEF There
<1>. HIDE DEF E
<1>2. ASSUME NEW S \in Seq(Frames), StackOK(L, D, S)
      PROVE  StackOK(M, E, S) /\ \A f \in InReach(E) : Ahead(L, S, f) <=> Ahead(M, S, f)
  <2>1. \A i \in 1..Len(S) : /\ S[i].dir \in Dirs /\ S[i].dir \in Seq(Nat)
                             /\ S[i].dir \notin E => /\ S[i].dir \notin D
                                                     /\ Waiting(M, S[i]) = Waiting(L, S[i])
    <3>. SUFFICES ASSUME NEW i \in 1..Len(S)
                  PROVE  /\ S[i].dir \in Dirs /\ S[i].dir \in Seq(Nat)
                         /\ S[i].dir \notin E => /\ S[i].dir \notin D
                                                 /\ Waiting(M, S[i]) = Waiting(L, S[i])
      OBVIOUS
    <3>1. S[i] \in Frames
      BY LenProperties, ElementOfSeq
    <3>2. S[i].dir \in Dirs /\ S[i].dir \in Seq(Nat)
      BY <3>1, PathsAreNumbered DEF Frames
    <3>. QED
      BY <3>2 DEF E, Waiting
  <2>2. \A i \in 1..Len(S) : \A p : Leads(L, D, S, i, p) => Leads(M, E, S, i, p)
    BY <2>1 DEF Leads
  <2>3. Len(S) \in Nat /\ \A i \in 1..Len(S) : \A h \in 1..(i - 1) : h \in 1..Len(S)
    BY LenProperties
  <2>4. \A i \in 1..Len(S) : /\ Len(S[i].dir) = i - 1
                             /\ \A h \in 1..(i - 1) : Leads(L, D, S, h, S[i].dir)
    BY <1>2 DEF StackOK
  <2>5. StackOK(M, E, S)
    <3>1. \A i \in 1..Len(S) : \A h \in 1..(i - 1) : Leads(M, E, S, h, S[i].dir)
      BY <2>2, <2>3, <2>4
    <3>. QED
      BY <2>4, <3>1 DEF StackOK
  <2>6. ASSUME NEW f \in InReach(E), NEW j \in 1..Len(S)
        PROVE  AheadAt(L, S, f, j) <=> AheadAt(M, S, f, j)
    <3>1. CASE j <= Len(f) /\ \A g \in 1..(j - 1) : f[g] = S[j].dir[g]
      <4>1. /\ f \in Files /\ j \in 1..Len(f) /\ S[j].dir \in Seq(Nat)
            /\ Len(S[j].dir) = j - 1
        BY <1>1, <2>1, <2>3, <2>4, <3>1, PathsAreNumbered
      <4>2. S[j].dir \notin E
        BY <3>1, <4>1, HoldingDirectory
      <4>. QED
        BY <2>1, <4>2 DEF AheadAt
    <3>2. CASE ~(j <= Len(f) /\ \A g \in 1..(j - 1) : f[g] = S[j].dir[g])
      BY <3>2 DEF AheadAt
    <3>. QED
      BY <3>1, <3>2
  <2>. QED
    BY <2>5, <2>6 DEF Ahead
<1>3. ASSUME NEW R, NEW st, WalkOK(L, D, R, st) PROVE WalkOK(M, E, R, st)
  <2>1. st.stack \in Seq(Frames) /\ StackOK(L, D, st.stack)
    BY <1>3 DEF WalkOK, WalkStates
  <2>2. \A T : \A f \in InReach(E) : Accounted(L, T, st, f) => Accounted(M, T, st, f)
    BY <1>1, <1>2, <2>1 DEF Accounted, Settled
  <2>. QED
    BY <1>1, <1>2, <1>3, <2>1, <2>2 DEF WalkOK
<1>4. \A R : ReportedIsExact(L, D, R) => ReportedIsExact(M, E, R)
  BY <1>1 DEF ReportedIsExact
<1>5. \A l : SeenOK(L, D, l) => SeenOK(M, E, l)
  BY DEF SeenOK, E
<1>. QED
  BY <1>3, <1>4, <1>5 DEF E

LEMMA ChangeIsExact ==
  ASSUME SearchExactInv, NEW d \in Dirs, Change(d)
  PROVE  SearchExactInv'
<1>1. UNCHANGED <<call, cursors, version, reported, ended>>
  BY DEF Change
<1>2. SearchInv'
  BY <1>1 DEF SearchExactInv, SearchInv, SearchShape, ChainAt, Stored, Walked, LiveCursors
<1>3. /\ ListingsOK(listing') /\ \A e \in Dirs \ {d} : listing'[e] = listing[e]
      /\ DOMAIN changed' = Calls
      /\ \A c \in Calls : call[c].at # "idle" => changed'[c] = changed[c] \cup {d}
  <2>1. PICK n \in Names[d] :
          listing' = [listing EXCEPT ![d] = IF n \in @ THEN @ \ {n} ELSE @ \cup {n}]
    BY DEF Change
  <2>2. ListingsOK(listing) /\ n \in Nat
    BY FilesAreEntries DEF SearchExactInv
  <2>3. changed' = [c \in Calls |-> IF call[c].at = "idle" THEN changed[c] ELSE changed[c] \cup {d}]
    BY DEF Change
  <2>. QED
    BY <2>1, <2>2, <2>3 DEF ListingsOK
<1>4. ASSUME NEW c \in Calls, call[c].at # "idle"
      PROVE  /\ \A R, st : WalkOK(listing, changed[c], R, st) => WalkOK(listing', changed'[c], R, st)
             /\ \A R : ReportedIsExact(listing, changed[c], R) => ReportedIsExact(listing', changed'[c], R)
             /\ \A l : SeenOK(listing, changed[c], l) => SeenOK(listing', changed'[c], l)
  <2>1. changed'[c] = changed[c] \cup {d}
    BY <1>3, <1>4
  <2>. DEFINE L == listing
              M == listing'
              D == changed[c]
  <2>2. \A e \in Dirs \ {d} : M[e] = L[e]
    BY <1>3
  <2>. HIDE DEF L, M, D
  <2>3. /\ \A R, st : WalkOK(L, D, R, st) => WalkOK(M, D \cup {d}, R, st)
        /\ \A R : ReportedIsExact(L, D, R) => ReportedIsExact(M, D \cup {d}, R)
        /\ \A l : SeenOK(L, D, l) => SeenOK(M, D \cup {d}, l)
    BY <2>2, ChangedElsewhere
  <2>. QED
    BY <2>1, <2>3 DEF L, M, D
<1>5. WalksOK'
  <2>. SUFFICES ASSUME NEW j \in Calls, call[j].at = "walking"
                PROVE  /\ call[j].page \in Seq(Hits)
                       /\ WalkOK(listing', changed'[call[j].chain],
                                 reported[call[j].chain] \o call[j].page, call[j].state)
                       /\ SeenOK(listing', changed'[call[j].chain], call[j].seen)
    BY <1>1 DEF WalksOK
  <2>1. call[j].chain \in Calls /\ call[call[j].chain].at # "idle"
    BY DEF SearchExactInv, SearchInv, ChainAt, Walked
  <2>. QED
    BY <1>4, <2>1 DEF SearchExactInv, WalksOK
<1>6. CursorsOK'
  <2>. SUFFICES ASSUME NEW j \in Calls, cursors[j] # Nil
                PROVE  WalkOK(listing', changed'[cursors[j].chain],
                              reported[cursors[j].chain], cursors[j].state)
    BY <1>1 DEF CursorsOK
  <2>1. cursors[j].chain \in Calls /\ call[cursors[j].chain].at # "idle"
    BY DEF SearchExactInv, SearchInv, ChainAt, Stored
  <2>. QED
    BY <1>4, <2>1 DEF SearchExactInv, CursorsOK
<1>7. ASSUME NEW c \in Calls, ended'[c] = "complete" PROVE ReportedIsExact(listing', changed'[c], reported'[c])
  <2>1. call[c].at # "idle" /\ ReportedIsExact(listing, changed[c], reported[c])
    BY <1>1, <1>7 DEF SearchExactInv
  <2>. QED
    BY <1>1, <1>4, <2>1
<1>8. \A j, c \in Calls : Stored(j, c)' \/ Walked(j, c)' => ended'[c] = "open"
  BY <1>1 DEF SearchExactInv, Stored, Walked
<1>9. /\ version' \in [Files -> Versions] /\ ListingsOK(listing)'
      /\ reported' \in [Calls -> Seq(Hits)] /\ DOMAIN ended' = Calls
      /\ \A k \in Calls : call'[k].at = "idle" => reported'[k] = <<>> /\ ended'[k] = "open"
  BY <1>1, <1>3 DEF SearchExactInv, ListingsOK
<1>. QED
  BY <1>2, <1>3, <1>5, <1>6, <1>7, <1>8, <1>9 DEF SearchExactInv

(* A search that ends without saying it is incomplete returned every       *)
(* matching line of every file in reach once, and the lines of a file from *)
(* one version of it, whatever pages, calls and edits came between, if the *)
(* directories that lead to the file had one listing all the time          *)
(* (OwnerWorkspaceCore.search).                                            *)
THEOREM CompleteSearches == SearchSpec => []CompleteSearchIsExact
<1>1. SearchInit => SearchExactInv
  <2>. SUFFICES ASSUME SearchInit PROVE SearchExactInv
    OBVIOUS
  <2>1. /\ call = [k \in Calls |-> Idle] /\ cursors = [k \in Calls |-> Nil]
        /\ version = [f \in Files |-> 1] /\ reported = [k \in Calls |-> <<>>]
        /\ ended = [k \in Calls |-> "open"] /\ listing = Present /\ changed = [k \in Calls |-> {}]
    BY DEF SearchInit
  <2>2. \A k \in Calls : /\ call[k].at = "idle" /\ cursors[k] = Nil
                         /\ reported[k] = <<>> /\ ended[k] = "open"
    BY <2>1 DEF Idle
  <2>3. SearchInv /\ <<>> \in Seq(Hits) /\ 1 \in Versions
    BY SearchInvInit DEF Versions
  <2>4. /\ version \in [Files -> Versions] /\ reported \in [Calls -> Seq(Hits)]
        /\ DOMAIN ended = Calls /\ DOMAIN changed = Calls
    BY <2>1, <2>3
  <2>5. ListingsOK(listing)
    BY <2>1, FilesAreEntries DEF ListingsOK
  <2>. QED
    BY <2>2, <2>3, <2>4, <2>5 DEF SearchExactInv, WalksOK, CursorsOK, Stored, Walked
<1>2. SearchExactInv /\ [SearchNext]_searchVars => SearchExactInv'
  <2>. SUFFICES ASSUME SearchExactInv, [SearchNext]_searchVars PROVE SearchExactInv'
    OBVIOUS
  <2>1. ASSUME NEW k \in Calls,
               \/ Start(k) \/ (\E j \in Calls : Resume(k, j)) \/ Emit(k) \/ Rescan(k)
               \/ List(k) \/ Walk(k) \/ Denied(k) \/ EndPage(k) \/ Fail(k)
        PROVE  SearchExactInv'
    BY <2>1, TakeIsExact, TurnIsExact, PageIsExact
  <2>2. CASE /\ UNCHANGED <<call, cursors, listing, reported, ended, changed>>
             /\ version' \in [Files -> Versions]
    <3>1. SearchInv'
      BY <2>2 DEF SearchExactInv, SearchInv, SearchShape, ChainAt, Stored, Walked, LiveCursors
    <3>2. WalksOK' /\ CursorsOK' /\ ListingsOK(listing)'
      BY <2>2 DEF SearchExactInv, WalksOK, CursorsOK, ListingsOK
    <3>3. \A j, a \in Calls : Stored(j, a)' \/ Walked(j, a)' => ended'[a] = "open"
      BY <2>2 DEF SearchExactInv, Stored, Walked
    <3>. QED
      BY <2>2, <3>1, <3>2, <3>3 DEF SearchExactInv
  <2>3. ASSUME NEW k \in Calls, ExpireChain(k) PROVE SearchExactInv'
    BY <2>2, <2>3 DEF ExpireChain, SearchExactInv
  <2>4. ASSUME NEW f \in Files, Edit(f) PROVE SearchExactInv'
    <3>1. version' \in [Files -> Versions]
      BY <2>4 DEF Edit, SearchExactInv, Versions
    <3>. QED
      BY <2>2, <2>4, <3>1 DEF Edit
  <2>5. CASE UNCHANGED searchVars
    BY <2>2, <2>5 DEF searchVars, SearchExactInv
  <2>. QED
    BY <2>1, <2>3, <2>4, <2>5, ChangeIsExact DEF SearchNext
<1>3. SearchExactInv => CompleteSearchIsExact
  BY ExactMeans DEF SearchExactInv
<1>. QED
  BY <1>1, <1>2, <1>3, PTL DEF SearchSpec

=============================================================================
