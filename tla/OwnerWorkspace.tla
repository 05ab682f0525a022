--------------------------- MODULE OwnerWorkspace ---------------------------
(***************************************************************************)
(* The owner's workspace: files outside the repositories that a remote     *)
(* caller may read and change through the agent (src/apps/agent/src/       *)
(* owner-workspace-core.ts, owner-workspace-runtime.ts,                    *)
(* local-owner-consent.ts and the two transports).                         *)
(*                                                                         *)
(* A mutation is journaled, observes what it will change, asks the owner   *)
(* when the content is sensitive, looks again, waits its turn in the one   *)
(* queue it shares with the repository leases, and lets a native process   *)
(* change the disk.  The reply ends its row; without a reply that can be   *)
(* trusted the row stays and blocks the volume.                            *)
(***************************************************************************)
EXTENDS NativeWorker, Sequences, FiniteSets

CONSTANTS
  Tasks,         \* tasks that want the lease of a repository
  Scope,         \* task: the workspace paths its repository covers
  Requests,      \* op: what its caller may ask
  Sensitive,     \* contents the screening masks, or that are not text
  Unattended,    \* paths in roots that a trusted local policy opened
  MaxGrants,     \* bound of the map of consent grants (256)
  MaxOutside,    \* bound: writes by other programs
  MaxFaults      \* bound: I/O errors, timeouts, lost replies, crashes

Volume(p) == IF p \in WindowsPaths THEN "windows" ELSE "linux"

(* A copy or a move stays in its root, and so on its volume; only a write  *)
(* or a restore may expect that nothing is there, a new directory always   *)
(* does.                                                                   *)
IsRequest(q) ==
  /\ q.path \in Paths /\ q.from \in Ops
  /\ q.kind \in {"copy", "move"} => q.dest \in Paths /\ Volume(q.dest) = Volume(q.path)
  /\ q.kind \in {"copy", "move", "trash", "patch", "export", "reveal"} => q.expected # None
  /\ q.kind = "mkdir" => q.expected = None

ASSUME ScopesArePaths == Scope \in [Tasks -> SUBSET Paths]
ASSUME TasksAreNotOps == Tasks \cap Ops = {}
ASSUME RequestsAreWellFormed == \A o \in Ops : \A q \in Requests[o] : IsRequest(q)

(* The values of the variables.                                            *)
AllRequests == UNION {Requests[o] : o \in Ops}
Bytes == Contents \cup {Dir, None} \cup {InitialDisk[p] : p \in Paths}
           \cup {q.bytes : q \in AllRequests}
Places == Paths \cup Ops
Objects == [ino : Places \cup {Outside}, bytes : Bytes]
Commands == [op : {"write", "rename", "mkdir"}, path : Paths, from : Places, at : Places,
             old : Objects \cup {None}, bytes : Bytes]
Effects == [at : Places, taken : Objects \cup {None}, put : Objects]
Recoveries == [path : Paths, object : Objects, trashed : BOOLEAN]
Bindings == [request : AllRequests, old : Objects \cup {None}, new : Bytes]

ASSUME NoneIsNoValue ==
  None \notin Objects \cup Effects \cup Recoveries \cup Bindings \cup AllRequests

VARIABLES
  stage,        \* op: how far its handler is
  seen,         \* op: the object it observed
  recovered,    \* op: its recovery record: path, object, trashed or replaced
  grants,       \* ops whose owner consent was given and is not spent
  queue,        \* the admission queue: ops and tasks, the head is running
  lease,        \* task: "none", "waiting", "held"
  phase,        \* of the runtime: "up", "closing", "closed", "down"
  quarantined,  \* the POSIX transport refuses mutations
  verified,     \* op: history, what the owner was shown
  exported,     \* ops that handed out the bytes they saw
  faults

coreVars == <<stage, seen, recovered, verified, exported>>
runtimeVars == <<grants, queue, lease, phase, quarantined, faults>>
vars == <<row, nativeVars, coreVars, runtimeVars>>

Req(o) == row[o].binding
Reads == {"read", "export", "reveal"}
Target(q) == IF q.kind \in {"copy", "move"} THEN q.dest ELSE q.path
Touched(q) == IF q.kind = "copy" THEN {q.dest} ELSE {q.path, Target(q)}
Busy(o) == stage[o] \notin {"idle", "done", "gone"}

OwnerInit ==
  /\ JournalInit /\ NativeInit
  /\ stage = [o \in Ops |-> "idle"]
  /\ seen = [o \in Ops |-> None]
  /\ recovered = [o \in Ops |-> None]
  /\ verified = [o \in Ops |-> None]
  /\ exported = {}
  /\ grants = {} /\ queue = <<>>
  /\ lease = [t \in Tasks |-> "none"]
  /\ phase = "up" /\ quarantined = FALSE /\ faults = 0

-----------------------------------------------------------------------------
(* How a handler ends.                                                     *)

(* The caller is answered as the row ends, now and whenever it sends the   *)
(* request again: ReplayAnswer.                                            *)
End(o, s) == FinishRow(o, s) /\ stage' = [stage EXCEPT ![o] = "done"]

(* Denied before anything was dispatched.                                  *)
Deny(o) == End(o, "DENIED") /\ UNCHANGED <<seen, recovered, verified, exported>>

Move(o, s) == stage' = [stage EXCEPT ![o] = s]

-----------------------------------------------------------------------------
(* Admission and observation.                                              *)

(* A request the journal refuses changes nothing, and one whose id it has  *)
(* is answered from its row: neither is a step.                            *)
Submit(o) ==
  /\ phase = "up" /\ stage[o] = "idle"
  /\ \E q \in Requests[o] :
       AdmitRow(o, IF q.kind \in Reads THEN "READ" ELSE "MUTATION", Volume(q.path), q)
  /\ Move(o, "opened")
  /\ UNCHANGED <<nativeVars, seen, recovered, verified, exported, runtimeVars>>

(* The recovery record that a restore names, if it is one of its path.     *)
Record(q) ==
  IF q.kind = "restore" /\ recovered[q.from] # None /\ recovered[q.from].path = q.path
  THEN recovered[q.from] ELSE None
FromTrash(q) == Record(q) # None /\ Record(q).trashed

(* Nothing is observed by a creation; a restore from the trash takes its   *)
(* preimage from the record.                                               *)
Preimage(q) ==
  IF FromTrash(q) THEN Record(q).object
  ELSE IF q.expected = None /\ q.kind # "read" THEN None
  ELSE disk[q.path]

(* The bytes the operation will leave at its target.                       *)
Proposed(q, s) ==
  CASE q.kind = "copy" -> s.bytes
    [] q.kind = "patch" -> IF s.bytes \in q.fits THEN q.bytes ELSE s.bytes
    [] q.kind = "restore" -> Record(q).object.bytes
    [] OTHER -> q.bytes

(* What the code compares with the version the caller expected; patch does *)
(* so only after the owner was asked.                                      *)
Acceptable(q, s) ==
  /\ q.kind = "restore" => Record(q) # None
  /\ FromTrash(q) => q.expected = None
  /\ s = None => q.expected = None /\ q.kind # "read"
  /\ s # None /\ q.kind \notin {"patch", "read"} /\ ~FromTrash(q) => s.bytes = q.expected
  /\ s # None /\ s.bytes = Dir => q.kind \in {"move", "trash", "read"} \/ FromTrash(q)

(* Mutant: only what would be replaced is screened.                        *)
NeedsOwnerForOld(q, s) ==
  CASE q.kind \in {"read", "reveal", "mkdir"} -> FALSE
    [] q.kind \in {"trash", "export"} -> TRUE
    [] OTHER -> s # None /\ s.bytes \in Sensitive \cup {Dir}

(* Content that may not be touched, shown or written without the owner.    *)
NeedsOwner(q, s) ==
  CASE q.kind \in {"read", "reveal", "mkdir"} -> FALSE
    [] q.kind \in {"trash", "export"} -> TRUE
    [] q.kind = "move" \/ FromTrash(q) -> s.bytes \in Sensitive \cup {Dir}
    [] OTHER -> \/ s # None /\ s.bytes \in Sensitive
                \/ Proposed(q, s) \in Sensitive

(* The command for the native process.                                     *)
Command(o, q, s) ==
  LET slot == IF FromTrash(q) THEN q.from ELSE o IN
  [op |-> CASE q.kind = "mkdir" -> "mkdir"
            [] q.kind \in {"move", "trash"} \/ FromTrash(q) -> "rename"
            [] OTHER -> "write",
   path |-> q.path,
   from |-> IF FromTrash(q) THEN slot ELSE q.path,
   at |-> IF q.kind = "trash" THEN slot ELSE Target(q),
   old |-> IF q.kind = "copy" THEN None ELSE s,
   bytes |-> IF q.kind \in {"mkdir", "move", "trash"} \/ FromTrash(q) THEN None
             ELSE Proposed(q, s)]

(* The recovery record, written under a new name and read back.            *)
Capture(o, s) ==
  recovered' = [recovered EXCEPT ![o] =
    [path |-> Req(o).path, object |-> s, trashed |-> Req(o).kind = "trash"]]

(* The last synchronous stretch: the preimage is saved and attached to the *)
(* row, and the dispatch takes its place in the queue.                     *)
Dispatch(o, s) ==
  LET q == Req(o) IN
  IF q.kind = "patch" /\ (s.bytes \notin q.fits \/ s.bytes # q.expected)
  THEN Deny(o) /\ UNCHANGED queue
  ELSE /\ IF s # None /\ q.kind \notin {"copy", "move"} /\ ~FromTrash(q)
          THEN Capture(o, s) /\ AttachRow(o)
          ELSE UNCHANGED <<recovered, row>>
       /\ seen' = [seen EXCEPT ![o] = s]
       /\ queue' = Append(queue, o)
       /\ Move(o, "queued")
       /\ UNCHANGED <<verified, exported>>

(* Only one challenge is on the owner's screen, and a full map of grants   *)
(* refuses before it asks.                                                 *)
MayAsk == Cardinality(grants) < MaxGrants /\ \A p \in Ops : stage[p] # "asking"

(* The first look.                                                         *)
Observe(o) ==
  LET q == Req(o)
      s == Preimage(q)
  IN
  /\ stage[o] = "opened"
  /\ IF ~Acceptable(q, s) THEN Deny(o) /\ UNCHANGED queue
     ELSE IF q.kind = "read"
     THEN End(o, "APPLIED") /\ UNCHANGED <<seen, recovered, verified, exported, queue>>
     ELSE IF q.kind = "reveal" \/ (NeedsOwner(q, s) /\ {q.path, Target(q)} \subseteq Unattended)
     THEN /\ seen' = [seen EXCEPT ![o] = s] /\ Move(o, "asked")
          /\ UNCHANGED <<row, recovered, verified, exported, queue>>
     ELSE IF NeedsOwner(q, s)
     THEN IF MayAsk
          THEN /\ seen' = [seen EXCEPT ![o] = s] /\ Move(o, "asking")
               /\ UNCHANGED <<row, recovered, verified, exported, queue>>
          ELSE Deny(o) /\ UNCHANGED queue
     ELSE Dispatch(o, s)
  /\ UNCHANGED <<nativeVars, grants, lease, phase, quarantined, faults>>

-----------------------------------------------------------------------------
(* Owner consent.                                                          *)

(* What the owner approves: the operation with both of its images.         *)
Binding(o) ==
  [request |-> Req(o), old |-> seen[o],
   new |-> IF Req(o).kind = "export" THEN None ELSE Command(o, Req(o), seen[o]).bytes]

OwnerVerifies(o) ==
  /\ stage[o] = "asking" /\ Cardinality(grants) < MaxGrants
  /\ grants' = grants \cup {o}
  /\ verified' = [verified EXCEPT ![o] = Binding(o)]
  /\ Move(o, "asked")
  /\ UNCHANGED <<row, nativeVars, seen, recovered, exported,
                 queue, lease, phase, quarantined, faults>>

(* Cancelled, expired, no such device, or no room for one more grant.      *)
OwnerRefuses(o) ==
  /\ stage[o] = "asking" /\ Deny(o)
  /\ UNCHANGED <<nativeVars, runtimeVars>>

GrantExpires(o) ==
  /\ o \in grants /\ grants' = grants \ {o}
  /\ UNCHANGED <<row, nativeVars, coreVars, queue, lease, phase, quarantined, faults>>

(* The live look after the owner's answer; a restore from the trash has    *)
(* none, and a creation only checks that its root is still there.          *)
Recheck(o) ==
  /\ stage[o] = "asked"
  /\ IF seen[o] = None \/ FromTrash(Req(o)) \/ disk[Req(o).path] = seen[o]
     THEN Move(o, "live") /\ UNCHANGED <<row, seen, recovered, verified, exported>>
     ELSE Deny(o)
  /\ UNCHANGED <<nativeVars, runtimeVars>>

(* The grant is compared and deleted in one step, and what follows it is   *)
(* done even if the effect fails: a grant is never given back.             *)
Spend(o) ==
  /\ stage[o] = "live" /\ Req(o).kind # "reveal"
  /\ IF o \in grants \/ {Req(o).path, Target(Req(o))} \subseteq Unattended
     THEN IF Req(o).kind = "export"
          THEN /\ End(o, "APPLIED") /\ exported' = exported \cup {o}
               /\ UNCHANGED <<seen, recovered, verified, queue>>
          ELSE Dispatch(o, seen[o])
     ELSE Deny(o) /\ UNCHANGED queue
  /\ grants' = grants \ {o}
  /\ UNCHANGED <<nativeVars, lease, phase, quarantined, faults>>

(* The content is shown on the owner's own screen, or is not.              *)
Reveal(o) ==
  /\ stage[o] = "live" /\ Req(o).kind = "reveal"
  /\ \/ Deny(o)
     \/ End(o, "APPLIED") /\ UNCHANGED <<seen, recovered, verified, exported>>
  /\ UNCHANGED <<nativeVars, runtimeVars>>

-----------------------------------------------------------------------------
(* The admission queue and the native call.                                *)

AtHead(x) == queue # <<>> /\ Head(queue) = x

Guarded(o) ==
  \E t \in Tasks : lease[t] = "held" /\ Touched(Req(o)) \cap Scope[t] # {}

(* Mutant: a refused operation stays at the head of the queue.             *)
AdmitNativeKeepsTurn(o) ==
  /\ AtHead(o) /\ stage[o] = "queued"
  /\ IF Guarded(o)
     THEN Deny(o) /\ UNCHANGED <<queue, worker>>
     ELSE /\ worker' = [worker EXCEPT ![o] =
                [pc |-> "started", cmd |-> Command(o, Req(o), seen[o])]]
          /\ Move(o, "running")
          /\ UNCHANGED <<row, queue, seen, recovered, verified, exported>>
  /\ UNCHANGED <<disk, temp, effect, outside, grants, lease, phase, quarantined, faults>>

(* At the head of the queue: a lease over the target refuses the operation *)
(* without a trace, a quarantined transport leaves it unresolved.          *)
AdmitNative(o) ==
  /\ AtHead(o) /\ stage[o] = "queued"
  /\ IF Guarded(o)
     THEN Deny(o) /\ queue' = Tail(queue) /\ UNCHANGED worker
     ELSE IF quarantined /\ Req(o).path \notin WindowsPaths
     THEN /\ End(o, "UNRESOLVED") /\ queue' = Tail(queue)
          /\ UNCHANGED <<worker, seen, recovered, verified, exported>>
     ELSE /\ worker' = [worker EXCEPT ![o] =
                [pc |-> "started", cmd |-> Command(o, Req(o), seen[o])]]
          /\ Move(o, "running")
          /\ UNCHANGED <<row, queue, seen, recovered, verified, exported>>
  /\ UNCHANGED <<disk, temp, effect, outside, grants, lease, phase, quarantined, faults>>

(* Either process works on by itself.                                      *)
Native(o) ==
  /\ PosixStep(o) \/ WindowsCommit(o) \/ WindowsRollback(o)
  /\ UNCHANGED <<row, coreVars, runtimeVars>>

Fault == faults < MaxFaults /\ faults' = faults + 1

NativeError(o) ==
  /\ PosixError(o) /\ Fault
  /\ UNCHANGED <<row, coreVars, grants, queue, lease, phase, quarantined>>

(* The transport's timer kills the POSIX worker for good.                  *)
PosixTimer(o) ==
  /\ stage[o] = "running" /\ Live(o) /\ ~Windows(o)
  /\ Go(o, "dead") /\ Fault
  /\ UNCHANGED <<row, disk, temp, effect, outside, coreVars, grants, queue, lease, phase, quarantined>>

Outcome(o) ==
  CASE worker[o].pc = "ok" -> "APPLIED"
    [] worker[o].pc = "nochange" -> "DENIED"
    [] OTHER -> "UNRESOLVED"

(* The reply frees the queue and ends the row.                             *)
Settle(o) ==
  /\ stage[o] = "running" /\ ~Live(o)
  /\ End(o, Outcome(o))
  /\ queue' = Tail(queue)
  /\ quarantined' = (quarantined \/ (Outcome(o) = "UNRESOLVED" /\ ~Windows(o)))
  /\ UNCHANGED <<nativeVars, seen, recovered, verified, exported, grants, lease, phase, faults>>

(* The relay of the Windows helper is killed, or its reply does not        *)
(* arrive whole.  The helper may still be at work.                         *)
LoseReply(o) ==
  /\ stage[o] = "running" /\ Windows(o) /\ Fault
  /\ End(o, "UNRESOLVED")
  /\ queue' = Tail(queue)
  /\ UNCHANGED <<nativeVars, seen, recovered, verified, exported, grants, lease, phase, quarantined>>

(* SQLite refuses to end the row: once, so that a success is recorded as   *)
(* unresolved, or twice, so that the row stays as it is.                   *)
JournalFails(o) ==
  /\ stage[o] = "running" /\ ~Live(o) /\ Fault
  /\ queue' = Tail(queue)
  /\ \/ /\ Outcome(o) = "APPLIED" /\ End(o, "UNRESOLVED")
     \/ Move(o, "done") /\ UNCHANGED row
  /\ quarantined' = (quarantined \/ (Outcome(o) = "UNRESOLVED" /\ ~Windows(o)))
  /\ UNCHANGED <<nativeVars, seen, recovered, verified, exported, grants, lease, phase>>

-----------------------------------------------------------------------------
(* Repository leases pass through the same queue.                          *)

LeaseAsk(t) ==
  /\ phase = "up" /\ lease[t] = "none"
  /\ lease' = [lease EXCEPT ![t] = "waiting"]
  /\ queue' = Append(queue, t)
  /\ UNCHANGED <<row, nativeVars, coreVars, grants, phase, quarantined, faults>>

(* Mutant: a lease does not wait its turn.                                 *)
LeaseGrantAtOnce(t) ==
  /\ lease[t] = "waiting"
  /\ lease' = [lease EXCEPT ![t] = "held"]
  /\ queue' = SelectSeq(queue, LAMBDA x : x # t)
  /\ UNCHANGED <<row, nativeVars, coreVars, grants, phase, quarantined, faults>>

LeaseGrant(t) ==
  /\ AtHead(t)
  /\ lease' = [lease EXCEPT ![t] = "held"]
  /\ queue' = Tail(queue)
  /\ UNCHANGED <<row, nativeVars, coreVars, grants, phase, quarantined, faults>>

LeaseRelease(t) ==
  /\ phase # "down" /\ lease[t] = "held"
  /\ lease' = [lease EXCEPT ![t] = "none"]
  /\ UNCHANGED <<row, nativeVars, coreVars, grants, queue, phase, quarantined, faults>>

-----------------------------------------------------------------------------
(* The life of the runtime.                                                *)

Close ==
  /\ phase = "up" /\ phase' = "closing"
  /\ UNCHANGED <<row, nativeVars, coreVars, grants, queue, lease, quarantined, faults>>

Closed ==
  /\ phase = "closing" /\ \A o \in Ops : ~Busy(o)
  /\ \A t \in Tasks : lease[t] # "waiting"
  /\ phase' = "closed"
  /\ UNCHANGED <<row, nativeVars, coreVars, grants, queue, lease, quarantined, faults>>

(* Handlers, grants and the queue are gone, and the POSIX worker dies with *)
(* its parent; the journal, the files and the leases stay.                 *)
Crash ==
  /\ phase \in {"up", "closing"} /\ phase' = "down" /\ Fault
  /\ stage' = [o \in Ops |-> IF Busy(o) THEN "gone" ELSE stage[o]]
  /\ worker' = [o \in Ops |->
       IF Live(o) /\ ~Windows(o) THEN [worker[o] EXCEPT !.pc = "dead"] ELSE worker[o]]
  /\ lease' = [t \in Tasks |-> IF lease[t] = "waiting" THEN "none" ELSE lease[t]]
  /\ queue' = <<>> /\ grants' = {}
  /\ UNCHANGED <<row, disk, temp, effect, outside, seen, recovered, verified, exported,
                 quarantined>>

Restart ==
  /\ phase = "down" /\ phase' = "up" /\ quarantined' = FALSE
  /\ UNCHANGED <<row, nativeVars, coreVars, grants, queue, lease, faults>>

Others(p) ==
  /\ outside < MaxOutside /\ OutsideWrites(p)
  /\ UNCHANGED <<row, coreVars, runtimeVars>>

Handler(o) ==
  \/ Observe(o) \/ OwnerVerifies(o) \/ OwnerRefuses(o) \/ Recheck(o) \/ Spend(o)
  \/ Reveal(o) \/ AdmitNative(o) \/ Native(o) \/ Settle(o)

Next ==
  \/ \E o \in Ops : \/ Submit(o) \/ Handler(o) \/ GrantExpires(o)
                    \/ NativeError(o) \/ PosixTimer(o) \/ LoseReply(o) \/ JournalFails(o)
  \/ \E t \in Tasks : LeaseAsk(t) \/ LeaseGrant(t) \/ LeaseRelease(t)
  \/ Close \/ Closed \/ Crash \/ Restart
  \/ \E p \in Paths : Others(p)

(* Handlers, processes, timers and the queue run on; callers and faults    *)
(* are free.                                                               *)
Fairness ==
  /\ \A o \in Ops : WF_vars(Handler(o))
  /\ \A t \in Tasks : WF_vars(LeaseGrant(t))
  /\ WF_vars(Closed)

Spec == OwnerInit /\ [][Next]_vars
FairSpec == Spec /\ Fairness

-----------------------------------------------------------------------------
(* Properties.                                                             *)

Unfinished(o) == row[o].kind = "MUTATION" /\ row[o].state \in Holding

(* A caller that is told DENIED, now or when it asks again, has changed    *)
(* nothing: no process of the operation touched the owner's files, and     *)
(* none is left that still could.                                          *)
DeniedLeftNoTrace ==
  \A o \in Ops : ReplayAnswer(o) = "DENIED"
                   => effect[o] = None /\ temp[o] = None /\ ~Live(o)

(* APPLIED means exactly what was asked: the object that was observed, and *)
(* approved if that was needed, is the one that was replaced or moved, and *)
(* the bytes proposed then are the ones put at the target.  (Only another  *)
(* program that changes a file while the POSIX worker moves it, and then   *)
(* changes it back, stays unnoticed.)                                      *)
AppliedIsExact ==
  \A o \in Ops : row[o].state = "APPLIED" /\ row[o].kind = "MUTATION"
                   => LET c == Command(o, Req(o), seen[o]) IN
                      /\ effect[o] # None /\ effect[o].at = c.at
                      /\ \/ /\ effect[o].taken = c.old
                            /\ effect[o].put.bytes = CASE c.op = "write" -> c.bytes
                                                       [] c.op = "rename" -> c.old.bytes
                                                       [] c.op = "mkdir" -> Dir
                         \/ c.op = "rename" /\ ~Windows(o) /\ outside > 1

(* The journal fences the disk: an operation changes the owner's files     *)
(* only while its own row is unfinished, and then no other mutation of its *)
(* volume is, whether its process was killed, its reply was lost or the    *)
(* agent died and came back.                                               *)
EffectsAreFenced ==
  [][\A o \in Ops : effect'[o] # effect[o]
       => /\ Unfinished(o)
          /\ \A p \in Ops \ {o} : row[p].volume = row[o].volume => ~Unfinished(p)]_vars

(* No content is lost: whatever an operation took from a path is under its *)
(* reserved name, in the vault, at its new place, or in the recovery       *)
(* record, unless another operation or another program moved it on.        *)
NothingLost ==
  \A o \in Ops : effect[o] # None /\ effect[o].taken # None
    => \/ effect[o].taken \in {temp[o], disk[o]}
       \/ recovered[o] # None /\ recovered[o].object.bytes = effect[o].taken.bytes
       \/ effect[o].put = effect[o].taken

Delicate(o) ==
  \/ Req(o).kind = "trash"
  \/ worker[o].cmd.op = "write" /\ effect[o].put.bytes \in Sensitive
  \/ seen[o] # None /\ seen[o].bytes \in Sensitive \cup {Dir}

(* Content the screening calls sensitive is neither replaced, written,     *)
(* moved nor handed out unless the owner was shown exactly this operation  *)
(* with exactly these images, or a local policy opened both roots.  (What  *)
(* another program puts under a name after the worker's check may be       *)
(* moved with it; the outcome is then unknown.)                            *)
OwnerConsented ==
  \A o \in Ops :
    LET b == verified[o]
        policy == {Req(o).path, Target(Req(o))} \subseteq Unattended
    IN /\ (effect[o] # None /\ Delicate(o) /\ ~policy)
            => /\ b # None /\ b.request = Req(o) /\ b.old = seen[o]
               /\ b.new # None => effect[o].put.bytes = b.new
       /\ (o \in exported /\ ~policy) => b # None /\ b.old = seen[o]

(* While a task holds the lease of a repository, no sandboxed worker is    *)
(* writing into it.  (A Windows helper that outlives its relay may be.)    *)
LeaseExcludesWriters ==
  \A t \in Tasks, o \in Ops :
    lease[t] = "held" /\ Live(o) /\ ~Windows(o)
      => Touched(Req(o)) \cap Scope[t] = {}

(* A runtime that is closing gets there: every handler ends, each by its   *)
(* own reply, timer or refusal, and the queue is served to the end.        *)
CloseCompletes == phase = "closing" ~> phase \in {"closed", "down"}

(* What a test of the core says of a creation over an existing file, that  *)
(* it is denied and changes nothing, for every platform.                   *)
CreateConflictIsDenied ==
  \A o \in Ops :
    row[o].state = "UNRESOLVED" /\ Req(o).kind = "write" /\ Req(o).expected = None
      => faults > 0 \/ outside > 0

=============================================================================
