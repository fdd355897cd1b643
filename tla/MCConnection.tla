---------------------------- MODULE MCConnection ----------------------------
(* The connection table for TLC; queue objects are interchangeable. *)
EXTENDS Connection, TLC

PortSymmetry == Permutations(Ports)
=============================================================================
