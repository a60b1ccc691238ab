--------------------------- MODULE MCBookability ---------------------------
(* Bounded instance of Bookability for TLC: every locker is at one station. *)
EXTENDS Bookability, TLC

CONSTANT Main
AllAtMain == [l \in Lockers |-> Main]

Symmetry == Permutations(Lockers) \cup Permutations(Kits) \cup Permutations(KitTypes)
            \cup Permutations(DayTypes)
=============================================================================
