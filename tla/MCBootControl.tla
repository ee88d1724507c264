--------------------------- MODULE MCBootControl ---------------------------
(* A factory image, an update that works, one that does not, and one with  *)
(* a lower rollback index.                                                 *)
EXTENDS BootControl

CONSTANTS factory, good, bad, old

MCRollbackIndex == [i \in Images |-> IF i = old THEN 0 ELSE 1]
=============================================================================
