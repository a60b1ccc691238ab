-------------------------- MODULE RenterLifecycle ---------------------------
(***************************************************************************)
(* What the renters of an organization go through, one whole operation at  *)
(* a time: RenterService as a caller may think of it (BR-02), with nothing *)
(* between a read and its save.  Nothing is promised of the renters in     *)
(* lost, over whom saves have crossed, nor of two renters with one phone,  *)
(* if it is in contested.                                                  *)
(***************************************************************************)
EXTENDS Naturals

CONSTANTS Ids, Phones, Anonymous, Retention, None

VARIABLES renters, year, lost, contested

vars == <<renters, year, lost, contested>>

Init ==
    /\ renters = [i \in Ids |-> None]
    /\ year = 0
    /\ lost = {} /\ contested = {}

\* The consent of a new renter is at most as old as the request that gave it.  A
\* phone somebody already has is registered only if it is contested.
Register(i, p, given) ==
    /\ renters[i] = None /\ i \notin lost
    /\ (\E j \in Ids : renters[j] # None /\ renters[j].phone = p) => p \in contested
    /\ renters' = [renters EXCEPT ![i] =
                     [phone |-> p, status |-> "ACTIVE", reason |-> None, given |-> given]]
    /\ contested' \in {contested, contested \cup {p}}
    /\ UNCHANGED <<year, lost>>

Becomes(i, row) ==
    renters' = [renters EXCEPT ![i] = row] /\ UNCHANGED <<year, lost, contested>>

ReConsent(i, given) ==
    /\ given >= renters[i].given
    /\ Becomes(i, [renters[i] EXCEPT !.given = given])

RequestDeletion(i) ==
    Becomes(i, [renters[i] EXCEPT !.status = "DISABLED", !.reason = "DELETION_REQUEST"])

Disable(i) == Becomes(i, [renters[i] EXCEPT !.status = "DISABLED", !.reason = "ADMIN"])

ReEnable(i) ==
    /\ renters[i].reason # "DELETION_REQUEST"
    /\ Becomes(i, [renters[i] EXCEPT !.status = "ACTIVE", !.reason = None])

Anonymize(i) ==
    /\ renters[i].status = "DISABLED"
    /\ year >= renters[i].given + Retention
    /\ Becomes(i, [renters[i] EXCEPT !.phone = Anonymous])

\* A crossing save: from here on the row may be anything, and is not looked at.
Lose(i) ==
    /\ lost' = lost \cup {i}
    /\ renters' = [renters EXCEPT ![i] = None]
    /\ UNCHANGED <<year, contested>>

NextYear == year' = year + 1 /\ UNCHANGED <<renters, lost, contested>>

Next ==
    \/ \E i \in Ids, p \in Phones, given \in 0 .. year : Register(i, p, given)
    \/ \E i \in {x \in Ids : renters[x] # None} :
          \/ \E given \in 0 .. year : ReConsent(i, given)
          \/ RequestDeletion(i) \/ Disable(i) \/ ReEnable(i)
          \/ Anonymize(i)
          \/ Lose(i)
    \/ NextYear

Spec == Init /\ [][Next]_vars

=============================================================================
