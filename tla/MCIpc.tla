------------------------------- MODULE MCIpc --------------------------------
(* A channel or a route for TLC; the readers are interchangeable. *)
EXTENDS Ipc, TLC

ReaderSymmetry == Permutations(Receivers)
=============================================================================
