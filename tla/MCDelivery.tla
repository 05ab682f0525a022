----------------------------- MODULE MCDelivery -----------------------------
(* Delivery for model checking: a task with a check that two suites run     *)
(* and a task of another repository that requires no checks.                *)
EXTENDS Delivery, TLC
CONSTANTS t1, t2, r1, r2, c1, c2, c3
MCRepoOf == (t1 :> r1) @@ (t2 :> r2)
MCSlotOf == (c1 :> [task |-> t1, name |-> "build", app |-> "x"])
         @@ (c2 :> [task |-> t1, name |-> "build", app |-> "x"])
         @@ (c3 :> [task |-> t1, name |-> "build", app |-> "y"])
MCRequired == (r1 :> {[name |-> "build", app |-> "x"]}) @@ (r2 :> {})
MCPushed == (c1 :> {"queued", "success"}) @@ (c2 :> {"absent", "failure", "success"}) @@ (c3 :> {"success"})
MCListing == <<c1, c2, c3>>
=============================================================================
