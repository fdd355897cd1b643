------------------------------ MODULE MCWaiter ------------------------------
(* The waiter for TLC. *)
EXTENDS Waiter
=============================================================================
