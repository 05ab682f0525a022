---------------------------- MODULE LeaseMutex ----------------------------
(***************************************************************************)
(* What the repository lock promises its callers, without files, rows or   *)
(* heartbeats.  A repository is free or owned by exactly one lease token.  *)
(* A token whose lease object still exists in a process is live.  Only the *)
(* holder of a live token can free the repository; when that object is     *)
(* gone (crash, failed release, shutdown) the repository stays owned: the  *)
(* code has no takeover of a stale lease.                                  *)
(***************************************************************************)
EXTENDS Naturals

CONSTANT Repos

VARIABLES owner,  \* the token that owns each repository, 0 when it is free
          live    \* the tokens whose lease object can still release

vars == <<owner, live>>

Free   == 0
Tokens == Nat \ {Free}

Init == /\ owner = [r \in Repos |-> Free]
        /\ live = {}

Grant(r, k) ==
  /\ owner[r] = Free
  /\ k \in Tokens
  /\ k \notin live
  /\ \A q \in Repos : owner[q] # k
  /\ owner' = [owner EXCEPT ![r] = k]
  /\ live' = live \cup {k}

Release(r) ==
  /\ owner[r] \in live
  /\ owner' = [owner EXCEPT ![r] = Free]
  /\ live' = live \ {owner[r]}

Abandon ==
  /\ live' \subseteq live
  /\ UNCHANGED owner

Next ==
  \/ \E r \in Repos : Grant(r, owner'[r])   \* any fresh token
  \/ \E r \in Repos : Release(r)
  \/ Abandon

Spec == Init /\ [][Next]_vars

=============================================================================
