-------------------------- MODULE ApprovalLedger --------------------------
(***************************************************************************)
(* What approvals promise, without rows, clocks or transactions: for each  *)
(* operation at most one grant exists at a time, only the owner turns a    *)
(* request into a grant, and a grant pays for one operation of one command *)
(* and is gone.  A command that is refused loses what it had paid.         *)
(***************************************************************************)
EXTENDS Sequences

CONSTANTS Calls, Ops

VARIABLES
  grant,   \* "none", "asked" or "granted", for each operation
  paid     \* the operations each command in progress has paid for, in order

ledgerVars == <<grant, paid>>

LedgerInit ==
  /\ grant = [k \in Ops |-> "none"]
  /\ paid = [c \in Calls |-> <<>>]

Give(k) ==
  /\ grant[k] = "asked"
  /\ grant' = [grant EXCEPT ![k] = "granted"]
  /\ UNCHANGED paid

Withdraw(k) ==
  /\ grant[k] # "none"
  /\ grant' = [grant EXCEPT ![k] = "none"]
  /\ UNCHANGED paid

Spend(c, k) ==
  /\ grant[k] = "granted"
  /\ grant' = [grant EXCEPT ![k] = "none"]
  /\ paid' = [paid EXCEPT ![c] = Append(@, k)]

Refuse(c, k) ==
  /\ grant[k] = "none"
  /\ grant' = [grant EXCEPT ![k] = "asked"]
  /\ paid' = [paid EXCEPT ![c] = <<>>]

(* Commands end, or are refused without a new request; a crash ends all.    *)
End(S) ==
  /\ paid' = [c \in Calls |-> IF c \in S THEN <<>> ELSE paid[c]]
  /\ UNCHANGED grant

LedgerNext ==
  \/ \E k \in Ops :
       \/ Give(k)
       \/ Withdraw(k)
       \/ \E c \in Calls : Spend(c, k) \/ Refuse(c, k)
  \/ \E S \in SUBSET Calls : End(S)

LedgerSpec == LedgerInit /\ [][LedgerNext]_ledgerVars

=============================================================================
