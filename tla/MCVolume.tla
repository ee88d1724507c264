------------------------------ MODULE MCVolume ------------------------------
(* Two file inodes, three data blocks and directories of two records, one  *)
(* in each sector.  A file of two data blocks and its indirect block fill  *)
(* the volume.  What a power loss has damaged is not looked at further.    *)
EXTENDS Volume, TLC

Undamaged == OnlyLeaks
SameNames == Permutations(Names)

(* The last call is read by action properties only, in the step that       *)
(* makes it.                                                               *)
Disk == <<disk, cuts, ncuts>>
=============================================================================
