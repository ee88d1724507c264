---------------------------- MODULE MCProcessExit ----------------------------
(* ProcessExit with the table sizes of the code and five Process IDs. *)
EXTENDS ProcessExit
CONSTANTS t0, t1
MCThreads == {t0, t1}
=============================================================================
