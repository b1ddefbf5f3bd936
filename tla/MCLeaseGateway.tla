--------------------------- MODULE MCLeaseGateway ---------------------------
(* Small instances of LeaseGateway for TLC.                                *)
EXTENDS LeaseGateway, TLC

Symm == Permutations(PlugId) \cup Permutations(Handle) \cup Permutations(Call) \cup Permutations(Load)
=============================================================================
