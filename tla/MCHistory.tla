------------------------------ MODULE MCHistory ------------------------------
(* History with two files to move. *)
EXTENDS History
=============================================================================
