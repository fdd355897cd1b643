----------------------------- MODULE MCFragment -----------------------------
(* The memory of the messages for TLC; readers are interchangeable, and so  *)
(* are the fragments of a thread.                                           *)
EXTENDS Fragment, TLC

Symmetry == Permutations(Receivers) \cup Permutations(Copies)
=============================================================================
