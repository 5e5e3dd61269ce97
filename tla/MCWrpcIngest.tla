----------------------------- MODULE MCWrpcIngest -----------------------------
(* Instances of WrpcIngest for TLC. *)
EXTENDS WrpcIngest
=============================================================================
