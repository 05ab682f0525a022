---------------------------- MODULE LocalJournal ----------------------------
(***************************************************************************)
(* The journal of the owner's workspace: one row per operation, written by *)
(* the controller before and after the native effect (src/packages/        *)
(* persistence/src/repositories/local-operation-repository.ts).  A partial *)
(* unique index admits one unfinished mutation per volume; nothing but     *)
(* finish() ends a row, and finish() ends it once.                         *)
(***************************************************************************)
CONSTANTS
  Ops,    \* request ids
  None    \* no value

VARIABLE row

Holding == {"PREPARED", "UNRESOLVED"}

NoRow == [state |-> "none", kind |-> None, volume |-> None,
          binding |-> None, recovery |-> FALSE]

JournalInit == row = [o \in Ops |-> NoRow]

(* Mutant: an unresolved mutation does not hold its volume.                 *)
VolumeFreeOfPrepared(v) ==
  \A o \in Ops : row[o].volume = v => row[o].state # "PREPARED"

(* The unique index: no other mutation of the volume is unfinished.        *)
VolumeFree(v) ==
  \A o \in Ops : row[o].kind = "MUTATION" /\ row[o].volume = v
                   => row[o].state \notin Holding

(* A new row.  A refused insert leaves the journal as it was.              *)
AdmitRow(o, kind, v, q) ==
  /\ row[o].state = "none"
  /\ kind = "MUTATION" => VolumeFree(v)
  /\ row' = [row EXCEPT ![o] =
       [state |-> IF kind = "READ" THEN "OBSERVING" ELSE "PREPARED",
        kind |-> kind, volume |-> v, binding |-> q, recovery |-> FALSE]]

(* The one transition of a row.                                            *)
FinishRow(o, s) ==
  /\ row[o].state \in {"PREPARED", "OBSERVING"}
  /\ s = "UNRESOLVED" => row[o].kind = "MUTATION"
  /\ row' = [row EXCEPT ![o].state = s]

(* The recovery record of a mutation, attached before its dispatch.        *)
AttachRow(o) ==
  /\ row[o].kind = "MUTATION" /\ row[o].state = "PREPARED" /\ ~row[o].recovery
  /\ row' = [row EXCEPT ![o].recovery = TRUE]

(* What a request id that is already in the journal is answered.           *)
ReplayAnswer(o) ==
  IF row[o].state \in Holding THEN "NEEDS_RECONCILIATION" ELSE row[o].state

=============================================================================
