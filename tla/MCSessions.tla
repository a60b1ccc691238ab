----------------------------- MODULE MCSessions -----------------------------
(* Bounded instance of Sessions for TLC. *)
EXTENDS Sessions, TLC

Symmetry == Permutations(Admins) \cup Permutations(Renters) \cup Permutations(Tokens)
            \cup Permutations(Requests)
=============================================================================
