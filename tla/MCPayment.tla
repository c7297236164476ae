----------------------------- MODULE MCPayment ------------------------------
(* Two concurrent handlers, two payment attempts. *)
EXTENDS Payment
=============================================================================
