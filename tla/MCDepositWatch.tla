---------------------------- MODULE MCDepositWatch ----------------------------
(* Instances of DepositWatch for TLC. *)
EXTENDS DepositWatch
=============================================================================
