------------------------------ MODULE MCRobust ------------------------------
(* Three processes that come back after they died; one file more than       *)
(* processes, so that a new one can always be created.                      *)
EXTENDS RobustExclusiveLock, TLC

Symmetry == Permutations(Procs) \cup Permutations(Files)
=============================================================================
