----------------------------- MODULE MCChannels -----------------------------
(* Two channels, init and one isolated process.  Endpoint names are        *)
(* interchangeable.                                                        *)
EXTENDS Channels, TLC

CONSTANTS a1, a2, b1, b2

MCEndpoint == {a1, a2, b1, b2}
MCMasks == {Rights, {"READ", "TRANSFER"}}
Symmetry == Permutations(MCEndpoint)
=============================================================================
