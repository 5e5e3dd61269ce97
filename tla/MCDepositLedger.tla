--------------------------- MODULE MCDepositLedger ---------------------------
(* Model-checking instance of DepositLedger. *)
EXTENDS DepositLedger
=============================================================================
