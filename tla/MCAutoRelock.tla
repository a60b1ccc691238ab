--------------------------- MODULE MCAutoRelock ---------------------------
(* Bounded instance of AutoRelock for TLC. *)
EXTENDS AutoRelock, TLC

Symmetry == Permutations(Lockers) \cup Permutations(Requests)
=============================================================================
