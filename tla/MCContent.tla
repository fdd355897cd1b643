----------------------------- MODULE MCContent ------------------------------
(* The ring for TLC, and the plausible bugs its properties must catch. *)
EXTENDS Content
=============================================================================
