---------------------------- MODULE MCRackHost -----------------------------
(* Small instances of RackHost for TLC.                                    *)
EXTENDS RackHost, TLC

Symm == Permutations(PlugId) \cup Permutations(Op)
=============================================================================
