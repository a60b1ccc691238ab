-------------------------- MODULE MCStationHealth --------------------------
(* Small instances of StationHealth for TLC. *)
EXTENDS StationHealth, TLC

Symmetry == Permutations(Ticks) \cup Permutations(Requests)
=============================================================================
