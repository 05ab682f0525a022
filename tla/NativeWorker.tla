---------------------------- MODULE NativeWorker ----------------------------
(***************************************************************************)
(* The processes that touch the owner's files: the sandboxed POSIX worker  *)
(* (src/apps/filesystem-worker/worker.mjs), which works in steps and keeps *)
(* what it displaces, and the Windows helper (src/apps/windows-workspace-  *)
(* helper/main.cpp), whose effect is one file transaction but which may    *)
(* outlive the controller.  Other programs write the same files.           *)
(*                                                                         *)
(* An object is an identity with its bytes.  Op o creates at most one      *)
(* object, whose identity is o; slot o of the vault holds what o archived  *)
(* or trashed.                                                             *)
(***************************************************************************)
EXTENDS LocalJournal, Naturals

CONSTANTS
  Paths,         \* paths of the workspace, the Windows ones among them
  WindowsPaths,
  Contents,      \* what other programs write into a file
  Dir,           \* the content of a directory
  Outside,       \* identity of an object another program creates
  InitialDisk    \* the files at the start: path: bytes, or None

ASSUME WindowsArePaths == WindowsPaths \subseteq Paths
ASSUME SlotsAreNotPaths == Ops \cap Paths = {}

VARIABLES
  disk,     \* paths and vault slots: the object there
  temp,     \* op: the reserved temporary name of its worker
  worker,   \* op: its native process
  effect,   \* op: history, what it took from the owner's files and put there
  outside   \* number of writes by other programs

nativeVars == <<disk, temp, worker, effect, outside>>

Object(i, b) == [ino |-> i, bytes |-> b]
NoWorker == [pc |-> "none", cmd |-> None]
Live(o) == worker[o].pc \in {"started", "checked", "prepared", "reread", "swapped", "placed"}
Windows(o) == worker[o].cmd.path \in WindowsPaths

NativeInit ==
  /\ disk = [x \in Paths \cup Ops |->
               IF x \in Ops \/ InitialDisk[x] = None THEN None
               ELSE Object(x, InitialDisk[x])]
  /\ temp = [o \in Ops |-> None]
  /\ worker = [o \in Ops |-> NoWorker]
  /\ effect = [o \in Ops |-> None]
  /\ outside = 0

-----------------------------------------------------------------------------
(* Building blocks.                                                        *)

Go(o, pc) == worker' = [worker EXCEPT ![o].pc = pc]

(* What op o takes away and what it puts at its target.                    *)
Changes(o, taken, put) ==
  effect' = [effect EXCEPT ![o] =
               [at |-> worker[o].cmd.at, taken |-> taken, put |-> put]]

Untouched == UNCHANGED <<disk, temp, effect, outside>>

At(o, pc, op) == worker[o].pc = pc /\ worker[o].cmd.op = op

-----------------------------------------------------------------------------
(* The POSIX worker.                                                       *)

(* The preimage, checked before anything is written.                       *)
PosixCheck(o) ==
  LET c == worker[o].cmd IN
  /\ worker[o].pc = "started" /\ ~Windows(o) /\ c.old # None
  /\ Go(o, IF disk[c.from] = c.old THEN "checked" ELSE "nochange")
  /\ Untouched

(* The new content under a reserved name beside the target.                *)
PosixPrepare(o) ==
  LET c == worker[o].cmd IN
  /\ c # None /\ c.op = "write" /\ ~Windows(o)
  /\ worker[o].pc = IF c.old = None THEN "started" ELSE "checked"
  /\ temp' = [temp EXCEPT ![o] = Object(o, c.bytes)]
  /\ Go(o, "prepared")
  /\ UNCHANGED <<disk, effect, outside>>

(* The pinned file is read again.                                          *)
PosixReread(o) ==
  LET c == worker[o].cmd IN
  /\ At(o, "prepared", "write") /\ c.old # None
  /\ Go(o, IF \E x \in Paths : disk[x] = c.old THEN "reread" ELSE "unknown")
  /\ Untouched

(* The names are exchanged: this takes whatever the name holds by then.    *)
PosixExchange(o) ==
  LET c == worker[o].cmd IN
  /\ At(o, "reread", "write")
  /\ IF disk[c.at] # None
     THEN /\ disk' = [disk EXCEPT ![c.at] = temp[o]]
          /\ temp' = [temp EXCEPT ![o] = disk[c.at]]
          /\ Changes(o, disk[c.at], temp[o])
          /\ Go(o, "swapped")
          /\ UNCHANGED outside
     ELSE Go(o, "unknown") /\ Untouched

(* Mutant: what was displaced is not compared.                             *)
PosixArchiveAnything(o) ==
  /\ At(o, "swapped", "write")
  /\ disk' = [disk EXCEPT ![o] = temp[o]]
  /\ temp' = [temp EXCEPT ![o] = None]
  /\ Go(o, "placed")
  /\ UNCHANGED <<effect, outside>>

(* What was displaced goes to the vault if it is what was expected, and    *)
(* stays under the reserved name if not.                                   *)
PosixArchive(o) ==
  LET c == worker[o].cmd IN
  /\ At(o, "swapped", "write")
  /\ IF temp[o] = c.old
     THEN /\ disk' = [disk EXCEPT ![o] = temp[o]]
          /\ temp' = [temp EXCEPT ![o] = None]
          /\ Go(o, "placed")
          /\ UNCHANGED <<effect, outside>>
     ELSE Go(o, "unknown") /\ Untouched

(* Mutant: a rename that replaces.                                         *)
PosixCreateOver(o) ==
  LET c == worker[o].cmd IN
  /\ At(o, "prepared", "write") /\ c.old = None
  /\ disk' = [disk EXCEPT ![c.at] = temp[o]]
  /\ temp' = [temp EXCEPT ![o] = None]
  /\ Changes(o, disk[c.at], temp[o])
  /\ Go(o, "placed")
  /\ UNCHANGED outside

(* A new file gets its name only if the name is free.                      *)
PosixCreate(o) ==
  LET c == worker[o].cmd IN
  /\ At(o, "prepared", "write") /\ c.old = None
  /\ IF disk[c.at] = None
     THEN /\ disk' = [disk EXCEPT ![c.at] = temp[o]]
          /\ temp' = [temp EXCEPT ![o] = None]
          /\ Changes(o, None, temp[o])
          /\ Go(o, "placed")
          /\ UNCHANGED outside
     ELSE Go(o, "unknown") /\ Untouched

(* Moves, and moves into and out of the vault: never over something.       *)
PosixRename(o) ==
  LET c == worker[o].cmd IN
  /\ At(o, "checked", "rename")
  /\ IF disk[c.from] # None /\ disk[c.at] = None
     THEN /\ disk' = [disk EXCEPT ![c.at] = disk[c.from], ![c.from] = None]
          /\ Changes(o, disk[c.from], disk[c.from])
          /\ Go(o, "placed")
          /\ UNCHANGED <<temp, outside>>
     ELSE Go(o, "unknown") /\ Untouched

PosixMkdir(o) ==
  LET c == worker[o].cmd IN
  /\ At(o, "started", "mkdir") /\ ~Windows(o)
  /\ IF disk[c.at] = None
     THEN /\ disk' = [disk EXCEPT ![c.at] = Object(o, Dir)]
          /\ Changes(o, None, Object(o, Dir))
          /\ Go(o, "placed")
          /\ UNCHANGED <<temp, outside>>
     ELSE Go(o, "unknown") /\ Untouched

(* The target is read again: the reply is a success only if it is what the *)
(* worker put there.                                                       *)
PosixVerify(o) ==
  LET c == worker[o].cmd
      there == CASE c.op = "write"  -> disk[c.at] = Object(o, c.bytes)
                 [] c.op = "rename" -> disk[c.at] = c.old
                 [] c.op = "mkdir"  -> disk[c.at] # None /\ disk[c.at].bytes = Dir
  IN
  /\ worker[o].pc = "placed"
  /\ Go(o, IF there THEN "ok" ELSE "unknown")
  /\ Untouched

(* Mutant: a file under the reserved name does not count as a change.      *)
PosixErrorIgnoresTemp(o) ==
  /\ Live(o) /\ ~Windows(o)
  /\ Go(o, IF worker[o].pc \in {"swapped", "placed"} THEN "unknown" ELSE "nochange")
  /\ Untouched

(* A call of the worker fails; before the first change that is a refusal.  *)
PosixError(o) ==
  /\ Live(o) /\ ~Windows(o)
  /\ Go(o, IF worker[o].pc \in {"started", "checked"} THEN "nochange" ELSE "unknown")
  /\ Untouched

PosixStep(o) ==
  \/ PosixCheck(o) \/ PosixPrepare(o) \/ PosixReread(o) \/ PosixExchange(o) \/ PosixArchive(o)
  \/ PosixCreate(o) \/ PosixRename(o) \/ PosixMkdir(o) \/ PosixVerify(o)

-----------------------------------------------------------------------------
(* The Windows helper: everything is one transaction.                      *)

WindowsAllows(c) ==
  CASE c.op = "write"  -> disk[c.at] = c.old
    [] c.op = "rename" -> disk[c.from] = c.old /\ disk[c.at] = None
    [] c.op = "mkdir"  -> disk[c.at] = None

(* A file is rewritten in place and keeps its identity.                    *)
WindowsPut(o, c) ==
  CASE c.op = "write"  -> Object(IF c.old = None THEN o ELSE c.old.ino, c.bytes)
    [] c.op = "rename" -> c.old
    [] c.op = "mkdir"  -> Object(o, Dir)

WindowsCommit(o) ==
  LET c == worker[o].cmd IN
  /\ worker[o].pc = "started" /\ Windows(o) /\ WindowsAllows(c)
  /\ disk' = [x \in DOMAIN disk |->
                IF x = c.at THEN WindowsPut(o, c)
                ELSE IF c.op = "rename" /\ x = c.from THEN None ELSE disk[x]]
  /\ Changes(o, c.old, WindowsPut(o, c))
  /\ \/ Go(o, "ok")
     \/ Go(o, "unknown")      \* the commit reports an error
  /\ UNCHANGED <<temp, outside>>

(* Rolled back: a check failed; or its own watchdog ended the process, or  *)
(* the commit did not go through.                                          *)
WindowsRollback(o) ==
  /\ worker[o].pc = "started" /\ Windows(o)
  /\ \/ ~WindowsAllows(worker[o].cmd) /\ Go(o, "nochange")
     \/ Go(o, "dead")
  /\ Untouched

-----------------------------------------------------------------------------
(* Another program replaces, rewrites or removes a file of the owner.      *)
OutsideWrites(p) ==
  /\ \E b \in Contents :
       \/ disk[p] = None /\ disk' = [disk EXCEPT ![p] = Object(Outside, b)]
       \/ /\ disk[p] # None
          /\ \E x \in {Object(disk[p].ino, b), Object(Outside, b), None} \ {disk[p]} :
               /\ disk[p].bytes = Dir => x = None
               /\ disk' = [disk EXCEPT ![p] = x]
  /\ outside' = outside + 1
  /\ UNCHANGED <<temp, worker, effect>>

=============================================================================
