-------------------------- MODULE MCOwnerWorkspace --------------------------
(***************************************************************************)
(* The owner's workspace for model checking: two operations and a lease    *)
(* over two POSIX paths and a Windows one.                                 *)
(***************************************************************************)
EXTENDS OwnerWorkspace, TLC

CONSTANTS o1, o2, t1, p1, p2, w1, plain, other, secret

R(kind, path, dest, expected, bytes) ==
  [kind |-> kind, path |-> path, dest |-> dest, expected |-> expected,
   bytes |-> bytes, fits |-> {plain}, from |-> o1]

MCRequests ==
  (o1 :> { R("write", p1, None, plain, other), R("write", p1, None, plain, secret),
           R("move", p1, p2, plain, None),     R("copy", p1, p2, plain, None),
           R("trash", p1, None, plain, None),  R("export", p1, None, plain, None),
           R("write", w1, None, secret, other) })
  @@
  (o2 :> { R("write", p2, None, None, other),  R("mkdir", p2, None, None, None),
           R("patch", p1, None, plain, other), R("restore", p1, None, None, None),
           R("reveal", p1, None, plain, None), R("read", p1, None, plain, None),
           R("trash", w1, None, secret, None) })
MCDisk == (p1 :> plain) @@ (p2 :> None) @@ (w1 :> secret)
MCScope == [t \in Tasks |-> {p1, w1}]

=============================================================================
