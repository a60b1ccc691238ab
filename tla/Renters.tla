------------------------------ MODULE Renters ------------------------------
(***************************************************************************)
(* The renters of one organization: RenterService with the renters table   *)
(* and the RenterAnonymizer.                                               *)
(*                                                                         *)
(* There are no transactions and, in the database the migrations make, no  *)
(* unique key on the phone: every await is a step, a change of a renter    *)
(* reads the row and later writes the whole row back.                      *)
(*                                                                         *)
(* Of the consent only its date is kept, which the retention counts from;  *)
(* a registration or re-consent with an outdated version is refused before *)
(* it reads anything.  A change of locale is a change of no column kept    *)
(* here: it matters because it saves the rest of the row with it.          *)
(***************************************************************************)
EXTENDS Naturals

CONSTANTS
    Ids,            \* ids of renter rows
    Phones,
    Anonymous,      \* the phone of an anonymized renter
    Requests,       \* slots for requests in flight at the same time
    LastYear,       \* bound: the clock stops here
    Retention,      \* years from the last consent to anonymization
    None            \* no row; SQL NULL

ASSUME BoundsAssumption ==
    /\ LastYear \in Nat /\ Retention \in Nat \ {0}
    /\ Anonymous \notin Phones

VARIABLES
    renters,        \* the renters table
    requests,       \* the request each slot runs
    year,           \* the clock
    asked,          \* history: the renters whose deletion request was saved
    redisabled,     \* history: those an admin disabled after that
    crossed,        \* history: renters saved over somebody's read
    contested       \* history: phones registered twice at the same time

histories == <<asked, redisabled, crossed, contested>>
vars == <<renters, requests, year, histories>>

Year == 0 .. LastYear
Renter == [phone : Phones \cup {Anonymous}, status : {"ACTIVE", "DISABLED"},
           reason : {"ADMIN", "DELETION_REQUEST", None}, given : Year]
ASSUME NoneAssumption == None \notin Renter

Idle == [pc |-> "idle"]
Registration == [pc : {"findPhone", "saveNew"}, phone : Phones, given : Year]
Kind == {"locale", "reConsent", "delete", "disable", "reEnable", "anonymize"}
Change == [pc : {"save", "reread"}, id : Ids, row : Renter, kind : Kind]
Request == {Idle} \cup Registration \cup Change

Init ==
    /\ renters = [i \in Ids |-> None]
    /\ requests = [q \in Requests |-> Idle]
    /\ year = 0
    /\ asked = {} /\ redisabled = {} /\ crossed = {} /\ contested = {}

Run(q, r) == requests' = [requests EXCEPT ![q] = r]
Finish(q) == Run(q, Idle)

----------------------------------------------------------------------------
(* register *)

BeginRegister(q, p) ==
    /\ requests[q] = Idle
    /\ Run(q, [pc |-> "findPhone", phone |-> p, given |-> year])
    /\ UNCHANGED <<renters, year, histories>>

Registered_Never(p) == FALSE
Registered(p) == \E i \in Ids : renters[i] # None /\ renters[i].phone = p

\* findByOrgAndPhone: somebody known is told so, or refused when disabled.  The
\* consent is dated before the save.
FindPhone(q) ==
    LET r == requests[q] IN
    /\ r.pc = "findPhone"
    /\ IF Registered(r.phone) THEN Finish(q) ELSE Run(q, [r EXCEPT !.pc = "saveNew", !.given = year])
    /\ UNCHANGED <<renters, year, histories>>

SaveNew(q) ==
    LET r == requests[q]
        rivals == {p \in Requests \ {q} : requests[p].pc = "saveNew" /\ requests[p].phone = r.phone} IN
    /\ r.pc = "saveNew"
    /\ \E i \in {x \in Ids : renters[x] = None} :
          renters' = [renters EXCEPT ![i] =
                        [phone |-> r.phone, status |-> "ACTIVE", reason |-> None,
                         given |-> r.given]]
    /\ contested' = IF rivals # {} THEN contested \cup {r.phone} ELSE contested
    /\ Finish(q)
    /\ UNCHANGED <<year, asked, redisabled, crossed>>

----------------------------------------------------------------------------
(* Changes of a renter: changeLocale, reConsent, requestDeletion,          *)
(* disableByAdmin, reEnableByAdmin, and runAnonymizationIfEligible, which  *)
(* reads the row a second time before it saves.                            *)

ReEnableAllowed_Always(row) == TRUE
ReEnableAllowed(row) == row.reason # "DELETION_REQUEST"

IsRetentionElapsed_InLastYear(given) == year + 1 >= given + Retention
IsRetentionElapsed(given) == year >= given + Retention

Allowed(row, kind) ==
    /\ kind = "reEnable" => ReEnableAllowed(row)
    /\ kind = "anonymize" => row.status = "DISABLED" /\ IsRetentionElapsed(row.given)

Changed_KeepsReason(row, kind) ==
    CASE kind = "reConsent" -> [row EXCEPT !.given = year]
      [] kind = "delete" -> [row EXCEPT !.status = "DISABLED", !.reason = "DELETION_REQUEST"]
      [] kind = "disable" -> [row EXCEPT !.status = "DISABLED", !.reason = "ADMIN"]
      [] kind = "reEnable" -> [row EXCEPT !.status = "ACTIVE"]
      [] kind = "anonymize" -> [row EXCEPT !.phone = Anonymous]
      [] OTHER -> row
Changed_StatusAsReason(row, kind) ==
    CASE kind = "reConsent" -> [row EXCEPT !.given = year]
      [] kind \in {"delete", "disable"} -> [row EXCEPT !.status = "DISABLED", !.reason = "DISABLED"]
      [] kind = "reEnable" -> [row EXCEPT !.status = "ACTIVE", !.reason = None]
      [] kind = "anonymize" -> [row EXCEPT !.phone = Anonymous]
      [] OTHER -> row

\* The setters of Renter; a consent is dated when it is given.
Changed(row, kind) ==
    CASE kind = "reConsent" -> [row EXCEPT !.given = year]
      [] kind = "delete" -> [row EXCEPT !.status = "DISABLED", !.reason = "DELETION_REQUEST"]
      [] kind = "disable" -> [row EXCEPT !.status = "DISABLED", !.reason = "ADMIN"]
      [] kind = "reEnable" -> [row EXCEPT !.status = "ACTIVE", !.reason = None]
      [] kind = "anonymize" -> [row EXCEPT !.phone = Anonymous]
      [] OTHER -> row

\* The row is read, judged and changed in memory.  assertNoOpenObligations lets
\* every deletion pass.
BeginChange(q, i, kind) ==
    LET row == renters[i] IN
    /\ requests[q] = Idle
    /\ row # None
    /\ Allowed(row, kind)
    /\ Run(q, [pc |-> IF kind = "anonymize" THEN "reread" ELSE "save", id |-> i, kind |-> kind,
               row |-> IF kind = "anonymize" THEN row ELSE Changed(row, kind)])
    /\ UNCHANGED <<renters, year, histories>>

\* RenterRepository.anonymize takes the row as it is now, without judging again.
Reread(q) ==
    LET r == requests[q] IN
    /\ r.pc = "reread"
    /\ Run(q, [r EXCEPT !.pc = "save", !.row = Changed(renters[r.id], r.kind)])
    /\ UNCHANGED <<renters, year, histories>>

Changing(i, q) ==
    {p \in Requests \ {q} : requests[p].pc \in {"save", "reread"} /\ requests[p].id = i}

Save(q) ==
    LET r == requests[q] IN
    /\ r.pc = "save"
    /\ renters' = [renters EXCEPT ![r.id] = r.row]
    /\ asked' = IF r.kind = "delete" THEN asked \cup {r.id} ELSE asked
    /\ redisabled' = IF r.kind = "disable" /\ r.id \in asked THEN redisabled \cup {r.id}
                     ELSE redisabled
    /\ crossed' = IF Changing(r.id, q) # {} THEN crossed \cup {r.id} ELSE crossed
    /\ Finish(q)
    /\ UNCHANGED <<year, contested>>

----------------------------------------------------------------------------

\* Any await of a request may throw.
RequestFails(q) ==
    /\ requests[q] # Idle
    /\ Finish(q)
    /\ UNCHANGED <<renters, year, histories>>

\* The process restarts.
Restart ==
    /\ \E q \in Requests : requests[q] # Idle
    /\ requests' = [q \in Requests |-> Idle]
    /\ UNCHANGED <<renters, year, histories>>

NextYear ==
    /\ year < LastYear
    /\ year' = year + 1
    /\ UNCHANGED <<renters, requests, histories>>

Next ==
    \/ \E q \in Requests :
          \/ \E p \in Phones : BeginRegister(q, p)
          \/ FindPhone(q) \/ SaveNew(q)
          \/ \E i \in Ids, kind \in Kind : BeginChange(q, i, kind)
          \/ Reread(q) \/ Save(q)
          \/ RequestFails(q)
    \/ Restart
    \/ NextYear

Spec == Init /\ [][Next]_vars

----------------------------------------------------------------------------
(* Properties *)

\* Every variable has its type.
TypeOK ==
    /\ renters \in [Ids -> Renter \cup {None}]
    /\ requests \in [Requests -> Request]
    /\ year \in Year
    /\ asked \subseteq Ids /\ redisabled \subseteq Ids /\ crossed \subseteq Ids
    /\ contested \subseteq Phones

\* A renter who asked for deletion stays disabled for that reason, whatever the
\* admins and the renter do, until a save crosses another one's read or an admin
\* disables the renter once more.
DeletionSticks ==
    \A i \in asked \ (crossed \cup redisabled) :
        renters[i].status = "DISABLED" /\ renters[i].reason = "DELETION_REQUEST"

\* A phone belongs to one renter, unless it was registered twice at the same time
\* or a crossing save brought an anonymized phone back.
OneRenterPerPhone ==
    \A i, j \in Ids \ crossed :
        /\ renters[i] # None /\ renters[j] # None
        /\ renters[i].phone = renters[j].phone
        /\ renters[i].phone \notin contested \cup {Anonymous}
        => i = j

\* A renter's phone is only ever replaced when the renter is disabled and the
\* retention is over, and never comes back, whatever happens between the
\* anonymizer's first read, its second and its save, crossing saves excepted.
AnonymizedWhenDue ==
    [][\A i \in Ids \ crossed' :
          renters[i] # None /\ renters'[i].phone # renters[i].phone =>
             /\ renters[i].phone # Anonymous
             /\ renters[i].status = "DISABLED"
             /\ year >= renters[i].given + Retention]_vars

\* However the awaits of requests interleave, the renters nobody saved over a read
\* change only by whole operations, each judged by the row it changes: what
\* RenterLifecycle promises.
Lifecycle == INSTANCE RenterLifecycle WITH
    renters <- [i \in Ids |-> IF i \in crossed THEN None ELSE renters[i]],
    lost <- crossed
LifecycleSpec == Lifecycle!Spec

=============================================================================
