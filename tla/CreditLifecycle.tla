--------------------------- MODULE CreditLifecycle ---------------------------
(***************************************************************************)
(* What the deposit ledger promises an exchange that consumes its outbox.  *)
(* An outpoint is, for the consumer, in one of three standings: nothing    *)
(* was said about it, it was credited, or it was revoked.  A standing only *)
(* moves forward: a revoked outpoint is never credited again, and a        *)
(* credited one never silently becomes unknown.  One ledger transaction    *)
(* may move many outpoints at once, and may move one from "unknown"        *)
(* straight to "revoked" (it vanished before it was confirmed).            *)
(***************************************************************************)
CONSTANT Outpoints

VARIABLE standing

Standings == {"unknown", "credited", "revoked"}

TypeOK == standing \in [Outpoints -> Standings]

Init == standing = [op \in Outpoints |-> "unknown"]

(* One committed ledger transaction credits the outpoints of `credit` and  *)
(* revokes those of `revoke`.                                              *)
Commit(credit, revoke) ==
    /\ credit \cap revoke = {}
    /\ \A op \in credit : standing[op] = "unknown"
    /\ \A op \in revoke : standing[op] # "revoked"
    /\ standing' = [op \in Outpoints |->
                      IF op \in credit THEN "credited"
                      ELSE IF op \in revoke THEN "revoked"
                      ELSE standing[op]]

Next == \E credit, revoke \in SUBSET Outpoints : Commit(credit, revoke)

Spec == Init /\ [][Next]_standing

=============================================================================
