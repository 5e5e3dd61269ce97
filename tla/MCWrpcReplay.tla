----------------------------- MODULE MCWrpcReplay -----------------------------
(* Instances of WrpcReplay for TLC. *)
EXTENDS WrpcReplay

Scores3 == 1 .. 3
=============================================================================
