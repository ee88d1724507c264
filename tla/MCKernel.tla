------------------------------ MODULE MCKernel ------------------------------
(* One channel, two Process IDs of which one can be live at a time, three  *)
(* threads.                                                                *)
EXTENDS Kernel, TLC

FullMask == {{"READ", "WRITE", "WAIT", "TRANSFER"}}

(* The two ends of the channel are interchangeable. *)
Symmetry == Permutations(Endpoint)
=============================================================================
