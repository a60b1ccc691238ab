----------------------------- MODULE MCTariffs ------------------------------
(* Bounded instance of Tariffs for TLC. *)
EXTENDS Tariffs

Symmetry == Permutations(Ids) \cup Permutations(Requests)
=============================================================================
