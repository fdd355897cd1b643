------------------------------- MODULE MCHead -------------------------------
(* Opening and closing a segment, for TLC. *)
EXTENDS Head
=============================================================================
