--------------------------- MODULE MCWithdrawalPoll ---------------------------
(* Instances of WithdrawalPoll for TLC. *)
EXTENDS WithdrawalPoll
=============================================================================
