------------------------------ MODULE MCOutbox ------------------------------
(* The outbox on a small instance, with the fairness its liveness needs. *)
EXTENDS Outbox
=============================================================================
