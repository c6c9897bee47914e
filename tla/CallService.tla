----------------------------- MODULE CallService -----------------------------
(***************************************************************************)
(* What the signer promises to a client that posts a contract call and     *)
(* polls its status (GET /evm-transaction-request/{id}/tx-hash): the call  *)
(* is executed at most once, it is reported mined only after that, and     *)
(* reported failed only while it has not been executed.                    *)
(***************************************************************************)
EXTENDS Naturals

CONSTANT Calls

VARIABLES
    shown,     \* what a client reads: none, pending, failed or mined
    executed   \* how many times the call took effect on chain

vars == <<shown, executed>>

Init ==
    /\ shown = [c \in Calls |-> "none"]
    /\ executed = [c \in Calls |-> 0]

Show(c, before, after) ==
    /\ shown[c] = before
    /\ shown' = [shown EXCEPT ![c] = after]
    /\ UNCHANGED executed

Accept(c) == Show(c, "none", "pending")

Execute(c) ==
    /\ shown[c] = "pending"
    /\ executed[c] = 0
    /\ executed' = [executed EXCEPT ![c] = 1]
    /\ UNCHANGED shown

Confirm(c) == executed[c] = 1 /\ Show(c, "pending", "mined")

Refuse(c) == executed[c] = 0 /\ Show(c, "pending", "failed")

Retry(c) == Show(c, "failed", "pending")

Next ==
    \E c \in Calls :
        Accept(c) \/ Execute(c) \/ Confirm(c) \/ Refuse(c) \/ Retry(c)

Spec == Init /\ [][Next]_vars

=============================================================================
