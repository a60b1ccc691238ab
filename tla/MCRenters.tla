----------------------------- MODULE MCRenters ------------------------------
(* Bounded instance of Renters for TLC. *)
EXTENDS Renters, TLC

Symmetry == Permutations(Ids) \cup Permutations(Phones) \cup Permutations(Requests)
=============================================================================
