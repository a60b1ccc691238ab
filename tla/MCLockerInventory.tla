------------------------- MODULE MCLockerInventory -------------------------
(* Small instances of LockerInventory for TLC: the sets are model values of *)
(* the configurations, interchangeable within each set.                     *)
EXTENDS LockerInventory, TLC

Symmetry ==
    Permutations(Lockers) \cup Permutations(Kits) \cup
    Permutations(Rentals) \cup Permutations(Requests)
=============================================================================
