--------------------------- MODULE MCOutboxDelivery ---------------------------
(* Model-checking instance of OutboxDelivery. *)
EXTENDS OutboxDelivery
=============================================================================
