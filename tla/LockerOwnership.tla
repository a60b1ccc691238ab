-------------------------- MODULE LockerOwnership --------------------------
(***************************************************************************)
(* What the lockers table promises the Rentals module (BR-05.5): a locker  *)
(* has at most one owner, passes from one owner to the next only by being  *)
(* free in between, and becomes free only when its owner yields it.  The   *)
(* promise is off for a locker in void, whose owner was rewritten by a     *)
(* third party.                                                            *)
(***************************************************************************)
CONSTANTS Lockers, Rentals, None

VARIABLES
    owner,      \* the rental each locker names, or None
    claims,     \* the lockers each rental counts on
    void        \* the lockers whose owner somebody else rewrote

vars == <<owner, claims, void>>

Init ==
    /\ owner = [l \in Lockers |-> None]
    /\ claims = [r \in Rentals |-> {}]
    /\ void = {}

Claim(r, l) ==
    /\ owner[l] = None
    /\ owner' = [owner EXCEPT ![l] = r]
    /\ claims' = [claims EXCEPT ![r] = @ \cup {l}]
    /\ UNCHANGED void

Yield(r, l) ==
    /\ l \in claims[r]
    /\ l \notin void => owner[l] = r
    /\ owner' = [owner EXCEPT ![l] = None]
    /\ claims' = [claims EXCEPT ![r] = @ \ {l}]
    /\ UNCHANGED void

Rewrite(l, o) ==
    /\ owner' = [owner EXCEPT ![l] = o]
    /\ void' = void \cup {l}
    /\ UNCHANGED claims

Next ==
    \E l \in Lockers :
        \/ \E r \in Rentals : Claim(r, l) \/ Yield(r, l)
        \/ \E o \in Rentals \cup {None} : Rewrite(l, o)

Spec == Init /\ [][Next]_vars

=============================================================================
