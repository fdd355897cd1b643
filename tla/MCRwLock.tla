------------------------------ MODULE MCRwLock ------------------------------
(* Three threads, each of which may read and write; a word of four bits.    *)
EXTENDS RwLock
=============================================================================
