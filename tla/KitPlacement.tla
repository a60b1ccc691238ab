---------------------------- MODULE KitPlacement ----------------------------
(***************************************************************************)
(* What the kit tables promise the bookability rule: a kit is in at most   *)
(* one locker and a locker holds at most one kit, kits move one at a time, *)
(* and a kit enters a locker only when the locker is empty, never by       *)
(* pushing another kit out.                                                *)
(***************************************************************************)
CONSTANTS Kits, Lockers, None

VARIABLE at     \* the locker each kit is in, or None

Init == at = [k \in Kits |-> None]

Empty(l) == \A k \in Kits : at[k] # l

Move(k, l) ==
    /\ l = None \/ Empty(l)
    /\ at' = [at EXCEPT ![k] = l]

Next == \E k \in Kits, l \in Lockers \cup {None} : Move(k, l)

Spec == Init /\ [][Next]_at

=============================================================================
