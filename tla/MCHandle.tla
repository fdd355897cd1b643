------------------------------ MODULE MCHandle ------------------------------
(* Handles in their own processes, and one object more than handles, so     *)
(* that a new object can always be created.                                 *)
EXTENDS Handle, TLC

Symmetry == Permutations(Handles) \cup Permutations(Objects)
=============================================================================
