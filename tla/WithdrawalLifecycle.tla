-------------------------- MODULE WithdrawalLifecycle --------------------------
(***************************************************************************)
(* What an exchange is promised about the withdrawals it registered: each  *)
(* is pending until its output is seen, confirmed only after that, and a   *)
(* rejection, which may revoke a confirmation, is final.                   *)
(***************************************************************************)
CONSTANT Withdrawals

VARIABLE status

Init == status = [w \in Withdrawals |-> "unknown"]

Move(w, from, to) == /\ status[w] \in from
                     /\ status' = [status EXCEPT ![w] = to]

Register(w) == Move(w, {"unknown"}, "pending")
See(w)      == Move(w, {"pending"}, "observed")
Confirm(w)  == Move(w, {"observed"}, "confirmed")
Reject(w)   == Move(w, {"observed", "confirmed"}, "rejected")

Next == \E w \in Withdrawals : Register(w) \/ See(w) \/ Confirm(w) \/ Reject(w)

Spec == Init /\ [][Next]_status
=============================================================================
