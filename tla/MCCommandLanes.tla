--------------------------- MODULE MCCommandLanes ---------------------------
(* CommandLanes on small sets, for TLC. *)
EXTENDS CommandLanes, TLC

Symmetry == Permutations(Entries) \cup Permutations(Lanes)

=============================================================================
