---------------------- MODULE LockerInventory_proofs ----------------------
(***************************************************************************)
(* Proofs about LockerInventory: its types, the agreement of status and    *)
(* rental, that a row names its holder, that a locker holds one kit, and   *)
(* that the rows implement LockerOwnership and KitPlacement.               *)
(***************************************************************************)
EXTENDS LockerInventory, TLAPS

----------------------------------------------------------------------------
(* Types *)

\* The idle record is a request any step may find.
LEMMA IdleOK == Idle \in Request /\ RequestOK(Idle)
BY SentinelsAssumption DEF Idle, Request, RequestOK, Status

\* Storing a well-formed record in a slot keeps all slots well-formed.
LEMMA RunKeepsRequests ==
    ASSUME TypeOK, RequestsOK, NEW q \in Requests,
           NEW r \in Request, RequestOK(r), Run(q, r)
    PROVE  requests' \in [Requests -> Request] /\ RequestsOK'
<1>1. requests' \in [Requests -> Request]
  BY DEF TypeOK, Run
<1>2. ASSUME NEW p \in Requests PROVE RequestOK(requests[p])'
  <2>1. requests'[p] = IF p = q THEN r ELSE requests[p]
    BY DEF TypeOK, Run
  <2>2. RequestOK(requests'[p])
    BY <2>1 DEF RequestsOK
  <2> QED BY <2>2 DEF RequestOK
<1> QED BY <1>1, <1>2 DEF RequestsOK

LEMMA FinishKeepsRequests ==
    ASSUME TypeOK, RequestsOK, NEW q \in Requests, Finish(q)
    PROVE  requests' \in [Requests -> Request] /\ RequestsOK'
BY IdleOK, RunKeepsRequests DEF Finish

LEMMA SameRequests ==
    ASSUME TypeOK, RequestsOK, UNCHANGED requests
    PROVE  requests' \in [Requests -> Request] /\ RequestsOK'
BY DEF TypeOK, RequestsOK, RequestOK

\* The record Then builds for a request whose kit at the locker is known.
LEMMA ThenOK ==
    ASSUME NEW s \in Request, s.locker \in Lockers,
           s.place # Keep => s.kit \in Kits,
           s.by = "kit" => s.place # Keep,
           s.status = "AVAILABLE" => s.rental = None,
           s.status = "RESERVED" => s.rental # None
    PROVE  [s EXCEPT !.pc = Then(s)] \in Request /\ RequestOK([s EXCEPT !.pc = Then(s)])
BY SentinelsAssumption DEF Request, RequestOK, Then, AfterClear

LEMMA InitTypes == Init => TypeOK /\ RequestsOK
<1> SUFFICES ASSUME Init PROVE TypeOK /\ RequestsOK
  OBVIOUS
<1>1. TypeOK
  BY IdleOK DEF Init, TypeOK
<1>2. RequestsOK
  BY IdleOK DEF Init, RequestsOK
<1> QED BY <1>1, <1>2

\* The admin's steps.
LEMMA AdminTypes ==
    ASSUME TypeOK, RequestsOK, StatusAgreesWithRental, NEW q \in Requests, AdminNext(q)
    PROVE  TypeOK' /\ RequestsOK'
<1> USE SentinelsAssumption, InputsAssumption
<1>0. requests[q] \in Request /\ RequestOK(requests[q])
  BY DEF TypeOK, RequestsOK
<1>1. ASSUME NEW l \in Lockers, NEW kit \in KitInputs, NEW set \in StatusInputs,
             BeginLockerPatch(q, l, kit, set)
      PROVE TypeOK' /\ RequestsOK'
  <2> DEFINE r == [Idle EXCEPT !.pc = IF kit = Keep THEN "saveLocker" ELSE "findCurrentKit",
                           !.locker = l, !.kit = kit, !.set = set,
                           !.status = lockers[l].status, !.rental = lockers[l].rental]
  <2>1. lockers[l] \in Row
    BY <1>1 DEF BeginLockerPatch, TypeOK, Exists, NoRow
  <2>2. r \in Request
    BY <2>1 DEF Idle, Request, Row
  <2>3. RequestOK(r)
    BY <2>1 DEF Idle, RequestOK, Row, StatusAgreesWithRental
  <2>4. requests' \in [Requests -> Request] /\ RequestsOK'
    BY <1>1, <2>2, <2>3, RunKeepsRequests DEF BeginLockerPatch
  <2> QED BY <1>1, <2>4 DEF BeginLockerPatch, TypeOK, rows, rentalVars
<1>2. ASSUME NEW k \in Kits, NEW l \in LockerInputs \cup {None}, BeginKitPatch(q, k, l)
      PROVE TypeOK' /\ RequestsOK'
  <2> DEFINE r == [Idle EXCEPT !.by = "kit", !.kit = k,
                           !.pc = IF l \in Lockers THEN "findCurrentKit" ELSE "placeKit",
                           !.locker = IF l \in Lockers THEN l ELSE None,
                           !.place = IF l = Keep THEN kits[k] ELSE l]
  <2>1. kits[k] \in Lockers \cup {None}
    BY <1>2 DEF BeginKitPatch, TypeOK
  <2>2. r \in Request
    BY <2>1 DEF Idle, Request, Status
  <2>3. RequestOK(r)
    BY <2>1 DEF Idle, RequestOK
  <2>4. requests' \in [Requests -> Request] /\ RequestsOK'
    BY <1>2, <2>2, <2>3, RunKeepsRequests DEF BeginKitPatch
  <2> QED BY <1>2, <2>4 DEF BeginKitPatch, TypeOK, rows, rentalVars
<1>3. ASSUME NEW k \in Kits, BeginRetire(q, k) PROVE TypeOK' /\ RequestsOK'
  BY <1>2, <1>3 DEF BeginRetire
<1>4. CASE FindCurrentKit(q)
  <2> DEFINE r == requests[q]
  <2>1. r.pc = "findCurrentKit" /\ r.locker \in Lockers
    BY <1>4, <1>0 DEF FindCurrentKit, RequestOK
  <2>2. CASE ~Exists(r.locker)
    <3>1. requests' \in [Requests -> Request] /\ RequestsOK'
      BY <1>4, <2>2, FinishKeepsRequests DEF FindCurrentKit
    <3> QED BY <1>4, <3>1 DEF FindCurrentKit, TypeOK, rows, rentalVars
  <2>3. CASE Exists(r.locker)
    <3>1. PICK cur \in IF KitsAt(r.locker) = {} THEN {None} ELSE KitsAt(r.locker) :
            Run(q, [[r EXCEPT !.current = cur] EXCEPT
                      !.pc = IF r.by = "locker" /\ r.kit # None THEN "findKit"
                             ELSE Then([r EXCEPT !.current = cur])])
      BY <1>4, <2>3 DEF FindCurrentKit
    <3> DEFINE s == [r EXCEPT !.current = cur]
    <3>2. cur \in Kits \cup {None}
      BY <3>1 DEF KitsAt
    <3>3. s \in Request /\ s.locker = r.locker /\ s.kit = r.kit /\ s.place = r.place
            /\ s.by = r.by /\ s.status = r.status /\ s.rental = r.rental
      BY <1>0, <3>2 DEF Request
    <3>4. CASE r.by = "locker" /\ r.kit # None
      <4>1. [s EXCEPT !.pc = "findKit"] \in Request
        BY <3>3 DEF Request
      <4>2. RequestOK([s EXCEPT !.pc = "findKit"])
        BY <3>3, <3>4, <2>1, <1>0 DEF RequestOK, Request
      <4>3. requests' \in [Requests -> Request] /\ RequestsOK'
        BY <3>1, <3>4, <4>1, <4>2, RunKeepsRequests
      <4> QED BY <1>4, <4>3 DEF FindCurrentKit, TypeOK, rows, rentalVars
    <3>5. CASE ~(r.by = "locker" /\ r.kit # None)
      <4>1. [s EXCEPT !.pc = Then(s)] \in Request /\ RequestOK([s EXCEPT !.pc = Then(s)])
        BY <3>3, <3>5, <2>1, <1>0, ThenOK DEF RequestOK
      <4>2. requests' \in [Requests -> Request] /\ RequestsOK'
        BY <3>1, <3>5, <4>1, RunKeepsRequests
      <4> QED BY <1>4, <4>2 DEF FindCurrentKit, TypeOK, rows, rentalVars
    <3> QED BY <3>4, <3>5
  <2> QED BY <2>2, <2>3
<1>5. CASE FindKit(q)
  <2> DEFINE r == requests[q]
             s == [r EXCEPT !.place = IF kits[r.kit] = r.locker THEN Keep ELSE r.locker]
  <2>1. r.locker \in Lockers /\ r.kit \in Kits /\ r.by = "locker"
    BY <1>5, <1>0 DEF FindKit, RequestOK
  <2>2. s \in Request /\ s.locker = r.locker /\ s.kit = r.kit /\ s.by = r.by
          /\ s.status = r.status /\ s.rental = r.rental
    BY <1>0, <2>1 DEF Request
  <2>3. [s EXCEPT !.pc = Then(s)] \in Request /\ RequestOK([s EXCEPT !.pc = Then(s)])
    <3>1. s.place # Keep => s.kit \in Kits
      BY <2>1, <2>2
    <3>2. (s.status = "AVAILABLE" => s.rental = None) /\ (s.status = "RESERVED" => s.rental # None)
      BY <1>0, <2>2 DEF RequestOK
    <3>3. s \in Request /\ s.locker \in Lockers /\ (s.by = "kit" => s.place # Keep)
      BY <2>1, <2>2
    <3> HIDE DEF s
    <3> QED BY <3>1, <3>2, <3>3, ThenOK
  <2>4. requests' \in [Requests -> Request] /\ RequestsOK'
    BY <1>5, <2>3, RunKeepsRequests, FinishKeepsRequests DEF FindKit
  <2> QED BY <1>5, <2>4 DEF FindKit, TypeOK, rows, rentalVars
<1>6. CASE ClearKit(q)
  <2> DEFINE r == requests[q]
  <2>1. r.pc = "clearKit" /\ r.current \in Kits
    BY <1>6, <1>0 DEF ClearKit, RequestOK
  <2>2. [r EXCEPT !.pc = AfterClear(r)] \in Request
    BY <1>0 DEF Request, AfterClear
  <2>3. RequestOK([r EXCEPT !.pc = AfterClear(r)])
    BY <1>0, <2>1 DEF RequestOK, Request, AfterClear
  <2>4. requests' \in [Requests -> Request] /\ RequestsOK'
    BY <1>6, <2>2, <2>3, RunKeepsRequests DEF ClearKit
  <2> QED BY <1>6, <2>4 DEF ClearKit, TypeOK, rows, rentalVars
<1>7. CASE PlaceKit(q)
  <2> DEFINE r == requests[q]
  <2>1. r.pc = "placeKit" /\ r.kit \in Kits /\ r.place \in Lockers \cup {None}
          /\ (r.by = "locker" => r.locker \in Lockers)
    BY <1>7, <1>0 DEF PlaceKit, RequestOK, Request
  <2>2. kits' \in [Kits -> Lockers \cup {None, Absent}]
    BY <1>7, <2>1 DEF PlaceKit, TypeOK
  <2>3. CASE Finish(q)
    BY <2>2, <2>3, <1>7, FinishKeepsRequests DEF PlaceKit, TypeOK, rentalVars
  <2>4. CASE r.by # "kit" /\ Run(q, [r EXCEPT !.pc = "saveLocker"])
    <3>1. [r EXCEPT !.pc = "saveLocker"] \in Request
      BY <1>0 DEF Request
    <3>2. RequestOK([r EXCEPT !.pc = "saveLocker"])
      BY <1>0, <2>1, <2>4 DEF RequestOK, Request
    <3>3. requests' \in [Requests -> Request] /\ RequestsOK'
      BY <2>4, <3>1, <3>2, RunKeepsRequests
    <3> QED BY <2>2, <3>3, <1>7 DEF PlaceKit, TypeOK, rentalVars
  <2> QED BY <1>7, <2>3, <2>4 DEF PlaceKit
<1>8. CASE SaveLocker(q)
  <2> DEFINE r == requests[q]
  <2>1. r.locker \in Lockers
    BY <1>8, <1>0 DEF SaveLocker, RequestOK
  <2>2. [status |-> IF r.set = "KEEP" THEN r.status ELSE r.set, rental |-> r.rental] \in Row
    BY <1>0 DEF Request, Row, Status
  <2>3. lockers' \in [Lockers -> Row \cup {NoRow}] /\ overwritten' \subseteq Lockers
    BY <1>8, <2>1, <2>2 DEF SaveLocker, TypeOK
  <2>4. requests' \in [Requests -> Request] /\ RequestsOK'
    BY <1>8, FinishKeepsRequests DEF SaveLocker
  <2> QED BY <1>8, <2>3, <2>4 DEF SaveLocker, TypeOK, rentalVars
<1>9. CASE RequestFails(q)
  <2>1. requests' \in [Requests -> Request] /\ RequestsOK'
    BY <1>9, FinishKeepsRequests DEF RequestFails
  <2> QED BY <1>9, <2>1 DEF RequestFails, TypeOK, rows, rentalVars
<1> QED BY <1>1, <1>2, <1>3, <1>4, <1>5, <1>6, <1>7, <1>8, <1>9 DEF AdminNext

\* The steps of the rentals, of new rows and of a restart.
LEMMA OtherTypes ==
    ASSUME TypeOK, RequestsOK,
           \/ \E l \in Lockers : CreateLocker(l)
           \/ \E k \in Kits : CreateKit(k)
           \/ \E r \in Rentals : RentalNext(r)
           \/ Crash
           \/ UNCHANGED vars
    PROVE  TypeOK' /\ RequestsOK'
<1>1. ASSUME NEW l \in Lockers, CreateLocker(l) PROVE TypeOK' /\ RequestsOK'
  BY <1>1, SameRequests DEF CreateLocker, TypeOK, Row, Status, rentalVars
<1>2. ASSUME NEW k \in Kits, CreateKit(k) PROVE TypeOK' /\ RequestsOK'
  BY <1>2, SameRequests DEF CreateKit, TypeOK, rentalVars
<1>3. ASSUME NEW r \in Rentals, NEW l \in Lockers, Reserve(r, l) PROVE TypeOK' /\ RequestsOK'
  <2>1. [status |-> "RESERVED", rental |-> r] \in Row
    BY DEF Row, Status
  <2> QED BY <1>3, <2>1, SameRequests DEF Reserve, TypeOK
<1>4. ASSUME NEW r \in Rentals, EndRental(r) PROVE TypeOK' /\ RequestsOK'
  BY <1>4, SameRequests DEF EndRental, TypeOK, rows
<1>5. ASSUME NEW r \in Rentals, ReleaseNext(r) PROVE TypeOK' /\ RequestsOK'
  <2>1. PICK l \in toRelease[r] :
          /\ lockers' = [lockers EXCEPT ![l] = Released(l)]
          /\ toRelease' = [toRelease EXCEPT ![r] = @ \ {l}]
          /\ UNCHANGED <<kits, requests, held, ended, leaked, overwritten>>
    BY <1>5 DEF ReleaseNext
  <2>2. Released(l) \in Row
    BY DEF Released, Row, Status
  <2> QED BY <2>1, <2>2, SameRequests DEF TypeOK
<1>6. CASE Crash
  <2>1. requests' \in [Requests -> Request] /\ RequestsOK'
    BY <1>6, IdleOK DEF Crash, RequestsOK, RequestOK
  <2> QED BY <1>6, <2>1 DEF Crash, TypeOK, rows
<1>7. CASE UNCHANGED vars
  BY <1>7, SameRequests DEF vars, rows, rentalVars, TypeOK
<1> QED BY <1>1, <1>2, <1>3, <1>4, <1>5, <1>6, <1>7 DEF RentalNext

----------------------------------------------------------------------------
(* Status and rental *)

LEMMA StatusStep ==
    ASSUME TypeOK, RequestsOK, StatusAgreesWithRental, [Next]_vars
    PROVE  StatusAgreesWithRental'
<1> USE SentinelsAssumption
<1>1. CASE UNCHANGED lockers
  BY <1>1 DEF StatusAgreesWithRental
<1>2. ASSUME NEW l \in Lockers, CreateLocker(l) PROVE StatusAgreesWithRental'
  BY <1>2 DEF CreateLocker, StatusAgreesWithRental, TypeOK
<1>3. ASSUME NEW q \in Requests, SaveLocker(q) PROVE StatusAgreesWithRental'
  <2> DEFINE r == requests[q]
             row == [status |-> IF r.set = "KEEP" THEN r.status ELSE r.set, rental |-> r.rental]
  <2>1. r \in Request /\ RequestOK(r) /\ r.locker \in Lockers
    BY <1>3 DEF SaveLocker, TypeOK, RequestsOK, RequestOK
  <2>2. CASE Refused(r)
    BY <1>3, <2>2 DEF SaveLocker, StatusAgreesWithRental
  <2>3. CASE ~Refused(r)
    <3>1. /\ row.status = "AVAILABLE" => row.rental = None
          /\ row.status = "RESERVED" => row.rental # None
      BY <2>1, <2>3 DEF Refused, RequestOK, Request
    <3>2. lockers' = [lockers EXCEPT ![r.locker] = row]
      BY <1>3, <2>3 DEF SaveLocker
    <3> HIDE DEF row
    <3> QED BY <2>1, <3>1, <3>2 DEF StatusAgreesWithRental, TypeOK
  <2> QED BY <2>2, <2>3
<1>4. ASSUME NEW r \in Rentals, NEW l \in Lockers, Reserve(r, l) PROVE StatusAgreesWithRental'
  BY <1>4 DEF Reserve, StatusAgreesWithRental, TypeOK
<1>5. ASSUME NEW r \in Rentals, ReleaseNext(r) PROVE StatusAgreesWithRental'
  BY <1>5 DEF ReleaseNext, Released, StatusAgreesWithRental, TypeOK
<1>6. Next => \/ UNCHANGED lockers
              \/ \E l \in Lockers : CreateLocker(l)
              \/ \E q \in Requests : SaveLocker(q)
              \/ \E r \in Rentals : ReleaseNext(r) \/ \E l \in Lockers : Reserve(r, l)
  BY DEF Next, AdminNext, RentalNext, CreateKit, BeginLockerPatch, BeginKitPatch, BeginRetire,
         FindCurrentKit, FindKit, ClearKit, PlaceKit, RequestFails, EndRental, Crash, rows
<1> QED BY <1>1, <1>2, <1>3, <1>4, <1>5, <1>6 DEF vars, rows

\* The types and the agreement of status and rental need each other: a request
\* remembers a row, and saves it later.
LEMMA TypesAndStatus == Spec => [](TypeOK /\ RequestsOK /\ StatusAgreesWithRental)
<1>1. Init => TypeOK /\ RequestsOK /\ StatusAgreesWithRental
  BY InitTypes DEF Init, StatusAgreesWithRental, NoRow
<1>2. TypeOK /\ RequestsOK /\ StatusAgreesWithRental /\ [Next]_vars
        => (TypeOK /\ RequestsOK /\ StatusAgreesWithRental)'
  <2> SUFFICES ASSUME TypeOK, RequestsOK, StatusAgreesWithRental, [Next]_vars
               PROVE  (TypeOK /\ RequestsOK /\ StatusAgreesWithRental)'
    OBVIOUS
  <2>1. StatusAgreesWithRental'
    BY StatusStep
  <2>2. TypeOK' /\ RequestsOK'
    BY AdminTypes, OtherTypes DEF Next
  <2> QED BY <2>1, <2>2
<1> QED BY <1>1, <1>2, PTL DEF Spec

\* Every variable of the locker and kit tables, of the requests and of the
\* rentals keeps its type.
THEOREM TypeCorrect == Spec => []TypeOK
BY TypesAndStatus, PTL

\* A locker row marked AVAILABLE has no rental and one marked RESERVED has one,
\* whatever requests, reservations, releases and crashes interleave.
THEOREM StatusAgrees == Spec => []StatusAgreesWithRental
BY TypesAndStatus, PTL

----------------------------------------------------------------------------
(* The holder of a locker *)

LEMMA ReleaseStep ==
    ASSUME TypeOK, ReleaseOK, [Next]_vars
    PROVE  ReleaseOK'
<1>1. CASE UNCHANGED <<held, ended, toRelease, leaked>>
  BY <1>1 DEF ReleaseOK
<1>2. ASSUME NEW r \in Rentals, NEW l \in Lockers, Reserve(r, l) PROVE ReleaseOK'
  BY <1>2 DEF Reserve, ReleaseOK, TypeOK
<1>3. ASSUME NEW r \in Rentals, EndRental(r) PROVE ReleaseOK'
  BY <1>3 DEF EndRental, ReleaseOK, TypeOK
<1>4. ASSUME NEW r \in Rentals, ReleaseNext(r) PROVE ReleaseOK'
  BY <1>4 DEF ReleaseNext, ReleaseOK, TypeOK
<1>5. CASE Crash
  BY <1>5 DEF Crash, ReleaseOK, TypeOK
<1>6. Next => \/ UNCHANGED <<held, ended, toRelease, leaked>>
              \/ Crash
              \/ \E r \in Rentals : \/ EndRental(r) \/ ReleaseNext(r)
                                    \/ \E l \in Lockers : Reserve(r, l)
  BY DEF Next, AdminNext, RentalNext, CreateLocker, CreateKit, BeginLockerPatch, BeginKitPatch,
         BeginRetire, FindCurrentKit, FindKit, ClearKit, PlaceKit, SaveLocker, RequestFails, rentalVars
<1> QED BY <1>1, <1>2, <1>3, <1>4, <1>5, <1>6 DEF vars, rentalVars

\* Only these steps write a rental column or a rental's part in a locker.
LEMMA StepKinds ==
    ASSUME [Next]_vars
    PROVE  \/ UNCHANGED <<lockers, rentalVars, overwritten>>
           \/ \E l \in Lockers : CreateLocker(l)
           \/ \E q \in Requests : SaveLocker(q)
           \/ \E r \in Rentals : \/ EndRental(r) \/ ReleaseNext(r)
                                 \/ \E l \in Lockers : Reserve(r, l)
           \/ Crash
BY DEF Next, AdminNext, RentalNext, CreateKit, BeginLockerPatch, BeginKitPatch, BeginRetire,
       FindCurrentKit, FindKit, ClearKit, PlaceKit, RequestFails, vars, rows

\* What each writing step does to a locker's rental column and its holders.
LEMMA CreateEffect ==
    ASSUME TypeOK, NEW x \in Lockers, CreateLocker(x), NEW l \in Lockers
    PROVE  lockers'[l].rental = lockers[l].rental /\ Holders(l)' = Holders(l)
<1>1. lockers[x] = NoRow
  BY DEF CreateLocker, Exists, TypeOK, Row, Status
<1> QED BY <1>1 DEF CreateLocker, NoRow, Holders, TypeOK, rentalVars

LEMMA SaveEffect ==
    ASSUME TypeOK, NEW q \in Requests, SaveLocker(q), NEW l \in Lockers
    PROVE  /\ l \notin overwritten' => lockers'[l].rental = lockers[l].rental
           /\ Holders(l)' = Holders(l)
           /\ overwritten \subseteq overwritten'
BY DEF SaveLocker, TypeOK, Holders, rentalVars

LEMMA ReserveEffect ==
    ASSUME TypeOK, ReleaseOK, NEW r \in Rentals, NEW x \in Lockers, Reserve(r, x), NEW l \in Lockers
    PROVE  /\ lockers[x].rental = None /\ x \notin held[r]
           /\ lockers'[l].rental = IF l = x THEN r ELSE lockers[l].rental
           /\ Holders(l)' = IF l = x THEN Holders(l) \cup {r} ELSE Holders(l)
BY DEF Reserve, Reservable, ReleaseOK, TypeOK, Holders

LEMMA EndEffect ==
    ASSUME TypeOK, ReleaseOK, NEW r \in Rentals, EndRental(r), NEW l \in Lockers
    PROVE  lockers'[l].rental = lockers[l].rental /\ Holders(l)' = Holders(l)
BY DEF EndRental, ReleaseOK, TypeOK, Holders, rows

LEMMA ReleaseEffect ==
    ASSUME TypeOK, ReleaseOK, NEW r \in Rentals, ReleaseNext(r)
    PROVE  \E x \in Lockers :
             /\ r \in Holders(x)
             /\ lockers' = [lockers EXCEPT ![x] = Released(x)]
             /\ UNCHANGED overwritten
             /\ \A l \in Lockers :
                  /\ lockers'[l].rental = IF l = x THEN None ELSE lockers[l].rental
                  /\ Holders(l)' = IF l = x THEN Holders(l) \ {r} ELSE Holders(l)
<1>1. PICK x \in toRelease[r] :
          /\ lockers' = [lockers EXCEPT ![x] = Released(x)]
          /\ toRelease' = [toRelease EXCEPT ![r] = @ \ {x}]
          /\ UNCHANGED <<kits, requests, held, ended, leaked, overwritten>>
  BY DEF ReleaseNext
<1>2. x \in Lockers /\ r \in ended /\ x \in held[r] /\ x \notin leaked[r]
  BY <1>1 DEF TypeOK, ReleaseOK
<1>3. r \in Holders(x)
  BY <1>1, <1>2 DEF Holders
<1>4. ASSUME NEW l \in Lockers
      PROVE /\ lockers'[l].rental = IF l = x THEN None ELSE lockers[l].rental
            /\ Holders(l)' = IF l = x THEN Holders(l) \ {r} ELSE Holders(l)
  BY <1>1, <1>2 DEF Released, Holders, TypeOK
<1> QED BY <1>1, <1>2, <1>3, <1>4

LEMMA CrashEffect ==
    ASSUME TypeOK, ReleaseOK, Crash, NEW l \in Lockers
    PROVE  lockers'[l].rental = lockers[l].rental /\ Holders(l)' = Holders(l)
BY DEF Crash, ReleaseOK, TypeOK, Holders, rows

LEMMA SameEffect ==
    ASSUME UNCHANGED <<lockers, rentalVars, overwritten>>, NEW l \in Lockers
    PROVE  lockers'[l].rental = lockers[l].rental /\ Holders(l)' = Holders(l)
BY DEF rentalVars, Holders

LEMMA HolderStep ==
    ASSUME TypeOK, ReleaseOK, RowNamesItsHolder, [Next]_vars
    PROVE  RowNamesItsHolder'
<1> DEFINE Fits(l) == Holders(l) = IF lockers[l].rental = None THEN {} ELSE {lockers[l].rental}
<1> SUFFICES ASSUME NEW l \in Lockers, l \notin overwritten' PROVE Fits(l)'
  BY DEF RowNamesItsHolder
<1>0. l \notin overwritten => Fits(l)
  BY DEF RowNamesItsHolder
<1>1. CASE UNCHANGED <<lockers, rentalVars, overwritten>>
  BY <1>0, <1>1, SameEffect
<1>2. ASSUME NEW x \in Lockers, CreateLocker(x) PROVE Fits(l)'
  BY <1>0, <1>2, CreateEffect DEF CreateLocker
<1>3. ASSUME NEW q \in Requests, SaveLocker(q) PROVE Fits(l)'
  BY <1>0, <1>3, SaveEffect
<1>4. ASSUME NEW r \in Rentals, NEW x \in Lockers, Reserve(r, x) PROVE Fits(l)'
  <2>1. l \notin overwritten
    BY <1>4 DEF Reserve
  <2>2. r # None
    BY SentinelsAssumption
  <2> QED BY <1>0, <1>4, <2>1, <2>2, ReserveEffect
<1>5. ASSUME NEW r \in Rentals, EndRental(r) PROVE Fits(l)'
  BY <1>0, <1>5, EndEffect DEF EndRental
<1>6. ASSUME NEW r \in Rentals, ReleaseNext(r) PROVE Fits(l)'
  <2>1. PICK x \in Lockers :
             /\ r \in Holders(x)
             /\ UNCHANGED overwritten
             /\ lockers'[l].rental = IF l = x THEN None ELSE lockers[l].rental
             /\ Holders(l)' = IF l = x THEN Holders(l) \ {r} ELSE Holders(l)
    BY <1>6, ReleaseEffect
  <2> QED BY <1>0, <2>1
<1>7. CASE Crash
  BY <1>0, <1>7, CrashEffect DEF Crash
<1> QED BY <1>1, <1>2, <1>3, <1>4, <1>5, <1>6, <1>7, StepKinds

LEMMA InitHolder == Init => ReleaseOK /\ RowNamesItsHolder
BY DEF Init, ReleaseOK, RowNamesItsHolder, Holders, NoRow

LEMMA HolderInvariant == Spec => [](TypeOK /\ ReleaseOK /\ RowNamesItsHolder)
<1>1. TypeOK /\ ReleaseOK /\ RowNamesItsHolder /\ [Next]_vars
        => (ReleaseOK /\ RowNamesItsHolder)'
  BY ReleaseStep, HolderStep
<1> QED BY <1>1, InitHolder, TypeCorrect, PTL DEF Spec

\* Unless a PATCH saved an old read over its reservation, a locker row names
\* exactly the rental that holds the locker.
THEOREM HolderCorrect == Spec => []RowNamesItsHolder
BY HolderInvariant, PTL

\* The rows do what LockerOwnership promises: a locker changes owner only by
\* being free in between, and only its owner frees it, unless it is in void.
THEOREM ImplementsOwnership == Spec => OwnershipSpec
<1> DEFINE owner == [l \in Lockers |-> lockers[l].rental]
           claims == [r \in Rentals |-> {l \in Lockers : r \in Holders(l)}]
<1>1. Init => Ownership!Init
  BY DEF Init, Ownership!Init, Holders, NoRow
<1>2. TypeOK /\ RequestsOK /\ ReleaseOK /\ RowNamesItsHolder /\ [Next]_vars
        => [Ownership!Next]_(Ownership!vars)
  <2> SUFFICES ASSUME TypeOK, RequestsOK, ReleaseOK, RowNamesItsHolder, [Next]_vars
               PROVE  Ownership!Next \/ UNCHANGED <<owner, claims, overwritten>>
    BY DEF Ownership!vars
  <2>1. CASE UNCHANGED <<lockers, rentalVars, overwritten>>
    BY <2>1, SameEffect
  <2>2. ASSUME NEW x \in Lockers, CreateLocker(x) PROVE UNCHANGED <<owner, claims, overwritten>>
    BY <2>2, CreateEffect DEF CreateLocker
  <2>3. ASSUME NEW q \in Requests, SaveLocker(q)
        PROVE Ownership!Next \/ UNCHANGED <<owner, claims, overwritten>>
    <3> DEFINE r == requests[q]
    <3>1. claims' = claims
      BY <2>3, SaveEffect
    <3>2. r.locker \in Lockers /\ r.rental \in Rentals \cup {None}
      BY <2>3 DEF SaveLocker, RequestsOK, RequestOK, TypeOK, Request
    <3>3. CASE UNCHANGED <<lockers, overwritten>>
      BY <3>1, <3>3
    <3>4. CASE ~UNCHANGED <<lockers, overwritten>> /\ lockers[r.locker].rental = r.rental
      BY <2>3, <3>1, <3>4 DEF SaveLocker, TypeOK
    <3>5. CASE ~UNCHANGED <<lockers, overwritten>> /\ lockers[r.locker].rental # r.rental
      <4>1. PICK l \in Lockers, o \in Rentals \cup {None} : l = r.locker /\ o = r.rental
        BY <3>2
      <4>2. overwritten' = overwritten \cup {l}
        BY <2>3, <3>5, <4>1 DEF SaveLocker
      <4>3. ASSUME NEW x \in Lockers
            PROVE  owner'[x] = IF x = l THEN o ELSE owner[x]
        BY <2>3, <3>5, <4>1 DEF SaveLocker, TypeOK
      <4>4. owner' = [owner EXCEPT ![l] = o]
        BY <4>3
      <4> QED BY <3>1, <4>2, <4>4 DEF Ownership!Next, Ownership!Rewrite
    <3> QED BY <3>3, <3>4, <3>5
  <2>4. ASSUME NEW r \in Rentals, NEW x \in Lockers, Reserve(r, x) PROVE Ownership!Next
    <3>1. owner[x] = None /\ UNCHANGED overwritten
      BY <2>4, ReserveEffect DEF Reserve
    <3>2. owner' = [owner EXCEPT ![x] = r]
      BY <2>4, ReserveEffect
    <3>3. claims' = [claims EXCEPT ![r] = @ \cup {x}]
      <4>1. ASSUME NEW p \in Rentals, NEW l \in Lockers
            PROVE  p \in Holders(l)' <=> p \in Holders(l) \/ (p = r /\ l = x)
        BY <2>4, ReserveEffect
      <4>2. ASSUME NEW p \in Rentals
            PROVE  claims'[p] = IF p = r THEN claims[p] \cup {x} ELSE claims[p]
        BY <4>1
      <4> QED BY <4>2
    <3> QED BY <3>1, <3>2, <3>3 DEF Ownership!Next, Ownership!Claim
  <2>5. ASSUME NEW r \in Rentals, EndRental(r) PROVE UNCHANGED <<owner, claims, overwritten>>
    BY <2>5, EndEffect DEF EndRental
  <2>6. ASSUME NEW r \in Rentals, ReleaseNext(r) PROVE Ownership!Next
    <3>1. PICK x \in Lockers :
             /\ r \in Holders(x)
             /\ UNCHANGED overwritten
             /\ \A l \in Lockers :
                  /\ lockers'[l].rental = IF l = x THEN None ELSE lockers[l].rental
                  /\ Holders(l)' = IF l = x THEN Holders(l) \ {r} ELSE Holders(l)
      BY <2>6, ReleaseEffect
    <3>2. x \in claims[r]
      BY <3>1
    <3>3. x \notin overwritten => owner[x] = r
      BY <3>1 DEF RowNamesItsHolder
    <3>4. owner' = [owner EXCEPT ![x] = None]
      BY <3>1
    <3>5. claims' = [claims EXCEPT ![r] = @ \ {x}]
      BY <3>1
    <3> QED BY <3>1, <3>2, <3>3, <3>4, <3>5 DEF Ownership!Next, Ownership!Yield
  <2>7. CASE Crash
    BY <2>7, CrashEffect DEF Crash
  <2> QED BY <2>1, <2>2, <2>3, <2>4, <2>5, <2>6, <2>7, StepKinds
<1> QED BY <1>1, <1>2, HolderInvariant, TypesAndStatus, PTL DEF Spec, OwnershipSpec, Ownership!Spec

----------------------------------------------------------------------------
(* Kits *)

\* A step that changes the kit rows puts one kit somewhere, and into a locker
\* only if no other kit is there.
LEMMA KitStep ==
    ASSUME TypeOK, RequestsOK, [Next]_vars
    PROVE  \/ UNCHANGED kits
           \/ \E k \in Kits, l \in Lockers \cup {None} :
                 /\ kits' = [kits EXCEPT ![k] = l]
                 /\ ~Taken(k, l)
<1>1. ASSUME NEW k \in Kits, CreateKit(k)
      PROVE  kits' = [kits EXCEPT ![k] = None] /\ ~Taken(k, None)
  BY <1>1 DEF CreateKit, Taken
<1>2. ASSUME NEW q \in Requests, ClearKit(q)
      PROVE  \E k \in Kits : kits' = [kits EXCEPT ![k] = None] /\ ~Taken(k, None)
  BY <1>2 DEF ClearKit, RequestsOK, RequestOK, Taken
<1>3. ASSUME NEW q \in Requests, PlaceKit(q)
      PROVE  \/ UNCHANGED kits
             \/ \E k \in Kits, l \in Lockers \cup {None} :
                   kits' = [kits EXCEPT ![k] = l] /\ ~Taken(k, l)
  <2>1. requests[q].kit \in Kits /\ requests[q].place \in Lockers \cup {None}
    BY <1>3 DEF PlaceKit, RequestsOK, RequestOK, TypeOK, Request
  <2> QED BY <1>3, <2>1 DEF PlaceKit
<1>4. Next => \/ UNCHANGED kits
              \/ \E k \in Kits : CreateKit(k)
              \/ \E q \in Requests : ClearKit(q) \/ PlaceKit(q)
  BY DEF Next, AdminNext, RentalNext, CreateLocker, BeginLockerPatch, BeginKitPatch, BeginRetire,
         FindCurrentKit, FindKit, SaveLocker, RequestFails, Reserve, EndRental, ReleaseNext, Crash, rows
<1> QED BY <1>1, <1>2, <1>3, <1>4 DEF vars, rows

LEMMA OneKitStep ==
    ASSUME TypeOK, RequestsOK, OneKitPerLocker, [Next]_vars
    PROVE  OneKitPerLocker'
<1>1. CASE UNCHANGED kits
  BY <1>1 DEF OneKitPerLocker
<1>2. CASE ~UNCHANGED kits
  <2>1. PICK k \in Kits, l \in Lockers \cup {None} :
           kits' = [kits EXCEPT ![k] = l] /\ ~Taken(k, l)
    BY <1>2, KitStep
  <2> QED BY <2>1, SentinelsAssumption DEF Taken, OneKitPerLocker, TypeOK
<1> QED BY <1>1, <1>2

\* A locker never holds two kits, whatever requests place and clear kits at the
\* same time.
THEOREM OneKit == Spec => []OneKitPerLocker
<1>1. Init => OneKitPerLocker
  BY SentinelsAssumption DEF Init, OneKitPerLocker
<1>2. TypeOK /\ RequestsOK /\ OneKitPerLocker /\ [Next]_vars => OneKitPerLocker'
  BY OneKitStep
<1> QED BY <1>1, <1>2, TypesAndStatus, PTL DEF Spec

\* The kit rows do what KitPlacement promises: one kit moves at a time, and into
\* a locker only when the locker is empty.
THEOREM ImplementsPlacement == Spec => PlacementSpec
<1> DEFINE at == [k \in Kits |-> IF kits[k] = Absent THEN None ELSE kits[k]]
<1> USE SentinelsAssumption
<1>1. Init => Placement!Init
  BY DEF Init, Placement!Init
<1>2. TypeOK /\ RequestsOK /\ [Next]_vars => [Placement!Next]_at
  <2> SUFFICES ASSUME TypeOK, RequestsOK, [Next]_vars, at' # at PROVE Placement!Next
    OBVIOUS
  <2>1. PICK k \in Kits, l \in Lockers \cup {None} :
           kits' = [kits EXCEPT ![k] = l] /\ ~Taken(k, l)
    BY KitStep
  <2>2. at' = [at EXCEPT ![k] = l]
    BY <2>1 DEF TypeOK
  <2>3. at[k] # l
    BY <2>2
  <2>4. l = None \/ Placement!Empty(l)
    BY <2>1, <2>3 DEF Taken, Placement!Empty, TypeOK
  <2> QED BY <2>2, <2>4 DEF Placement!Next, Placement!Move
<1> QED BY <1>1, <1>2, TypesAndStatus, PTL DEF Spec, PlacementSpec, Placement!Spec

----------------------------------------------------------------------------
(* BR-05.5, and the one way to break it *)

LEMMA ExclusiveWhereNamed == TypeOK /\ RowNamesItsHolder /\ overwritten = {} => ExclusiveReservation
<1> SUFFICES ASSUME TypeOK, RowNamesItsHolder, overwritten = {},
                    NEW r1 \in Rentals \ ended, NEW r2 \in Rentals \ ended, r1 # r2,
                    NEW l \in Lockers, l \in held[r1], l \in held[r2]
             PROVE  FALSE
  BY DEF ExclusiveReservation, TypeOK
<1>1. r1 \in Holders(l) /\ r2 \in Holders(l)
  BY DEF Holders
<1>2. Holders(l) = {} \/ Holders(l) = {lockers[l].rental}
  BY DEF RowNamesItsHolder
<1> QED BY <1>1, <1>2

\* A PATCH of l is under way.
Patched(l) ==
    \E q \in Requests :
        requests[q].pc # "idle" /\ requests[q].by = "locker" /\ requests[q].locker = l

\* No reservation and no release of a locker happens while a PATCH of it is under way;
\* those are the steps that are no request's.
RentalsWait ==
    [][\A l \in Lockers :
          Patched(l) /\ UNCHANGED requests => lockers'[l].rental = lockers[l].rental]_vars

\* A PATCH of a locker carries the locker's rental, and a PATCH of a kit saves no locker.
CarriesRental(r) ==
    /\ r.pc # "idle" /\ r.by = "locker" =>
          r.locker \in Lockers /\ r.rental = lockers[r.locker].rental
    /\ r.by = "kit" => /\ r.pc # "saveLocker"
                       /\ r.pc = "clearKit" => r.place # Keep

Carried == overwritten = {} /\ \A q \in Requests : CarriesRental(requests[q])

LEMMA StoredCarries ==
    ASSUME TypeOK, Carried, NEW q \in Requests, NEW r, Run(q, r), CarriesRental(r),
           UNCHANGED <<lockers, overwritten>>
    PROVE  Carried'
<1>1. ASSUME NEW p \in Requests PROVE CarriesRental(requests[p])'
  <2>1. requests'[p] = IF p = q THEN r ELSE requests[p]
    BY DEF TypeOK, Run
  <2>2. CarriesRental(requests'[p])
    BY <2>1 DEF Carried
  <2> QED BY <2>2 DEF CarriesRental
<1> QED BY <1>1 DEF Carried

LEMMA FinishedCarries ==
    ASSUME TypeOK, Carried, NEW q \in Requests, Finish(q), UNCHANGED <<lockers, overwritten>>
    PROVE  Carried'
<1>1. CarriesRental(Idle)
  BY DEF CarriesRental, Idle
<1> QED BY <1>1, StoredCarries DEF Finish

\* The next await of a request that has found the kit at its locker.
LEMMA ThenCarries ==
    ASSUME NEW s \in Request, s.by = "kit" => s.place # Keep,
           s.by = "locker" => s.locker \in Lockers /\ s.rental = lockers[s.locker].rental
    PROVE  CarriesRental([s EXCEPT !.pc = Then(s)])
BY DEF Request, CarriesRental, Then, AfterClear

\* The steps of a request.  A save gives the locker the rental it has.
LEMMA CarriedRequest ==
    ASSUME TypeOK, RequestsOK, Carried, NEW q \in Requests, AdminNext(q)
    PROVE  Carried'
<1>0. /\ requests[q] \in Request
      /\ RequestOK(requests[q])
      /\ CarriesRental(requests[q])
  BY DEF TypeOK, RequestsOK, Carried
<1>1. ASSUME NEW l \in Lockers, NEW kit \in KitInputs, NEW set \in StatusInputs,
             BeginLockerPatch(q, l, kit, set)
      PROVE Carried'
  <2> DEFINE r == [Idle EXCEPT !.pc = IF kit = Keep THEN "saveLocker" ELSE "findCurrentKit",
                           !.locker = l, !.kit = kit, !.set = set,
                           !.status = lockers[l].status, !.rental = lockers[l].rental]
  <2>1. CarriesRental(r)
    BY DEF CarriesRental, Idle
  <2>2. Run(q, r) /\ UNCHANGED <<lockers, overwritten>>
    BY <1>1 DEF BeginLockerPatch, rows
  <2> QED BY <2>1, <2>2, StoredCarries
<1>2. ASSUME NEW k \in Kits, NEW l \in LockerInputs \cup {None}, BeginKitPatch(q, k, l)
      PROVE Carried'
  <2> DEFINE r == [Idle EXCEPT !.by = "kit", !.kit = k,
                           !.pc = IF l \in Lockers THEN "findCurrentKit" ELSE "placeKit",
                           !.locker = IF l \in Lockers THEN l ELSE None,
                           !.place = IF l = Keep THEN kits[k] ELSE l]
  <2>1. CarriesRental(r)
    BY DEF CarriesRental, Idle
  <2>2. Run(q, r) /\ UNCHANGED <<lockers, overwritten>>
    BY <1>2 DEF BeginKitPatch, rows
  <2> QED BY <2>1, <2>2, StoredCarries
<1>3. ASSUME NEW k \in Kits, BeginRetire(q, k) PROVE Carried'
  BY <1>2, <1>3 DEF BeginRetire
<1>4. CASE FindCurrentKit(q)
  <2> DEFINE r == requests[q]
  <2>0. UNCHANGED <<lockers, overwritten>>
    BY <1>4 DEF FindCurrentKit, rows
  <2>1. CASE Finish(q)
    BY <2>0, <2>1, FinishedCarries
  <2>2. CASE ~Finish(q)
    <3>1. PICK cur \in IF KitsAt(r.locker) = {} THEN {None} ELSE KitsAt(r.locker) :
            Run(q, [[r EXCEPT !.current = cur] EXCEPT
                      !.pc = IF r.by = "locker" /\ r.kit # None THEN "findKit"
                             ELSE Then([r EXCEPT !.current = cur])])
      BY <1>4, <2>2 DEF FindCurrentKit
    <3> DEFINE s == [r EXCEPT !.current = cur]
    <3>2. cur \in Kits \cup {None}
      BY <3>1 DEF KitsAt
    <3>3. s \in Request /\ s.locker = r.locker /\ s.place = r.place
            /\ s.by = r.by /\ s.rental = r.rental
      BY <1>0, <3>2 DEF Request
    <3>4. /\ r.by = "kit" => r.place # Keep
          /\ r.by = "locker" => r.locker \in Lockers /\ r.rental = lockers[r.locker].rental
      BY <1>0, <1>4, SentinelsAssumption DEF FindCurrentKit, RequestOK, CarriesRental
    <3>5. CASE r.by = "locker" /\ r.kit # None
      <4>1. CarriesRental([s EXCEPT !.pc = "findKit"])
        BY <3>3, <3>4, <3>5 DEF CarriesRental, Request
      <4> QED BY <2>0, <3>1, <3>5, <4>1, StoredCarries
    <3>6. CASE ~(r.by = "locker" /\ r.kit # None)
      <4>1. CarriesRental([s EXCEPT !.pc = Then(s)])
        BY <3>3, <3>4, ThenCarries
      <4> QED BY <2>0, <3>1, <3>6, <4>1, StoredCarries
    <3> QED BY <3>5, <3>6
  <2> QED BY <2>1, <2>2
<1>5. CASE FindKit(q)
  <2> DEFINE r == requests[q]
             s == [r EXCEPT !.place = IF kits[r.kit] = r.locker THEN Keep ELSE r.locker]
  <2>0. UNCHANGED <<lockers, overwritten>>
    BY <1>5 DEF FindKit, rows
  <2>1. r.by = "locker" /\ r.locker \in Lockers /\ r.rental = lockers[r.locker].rental
    BY <1>0, <1>5 DEF FindKit, RequestOK, CarriesRental
  <2>2. s \in Request /\ s.by = r.by /\ s.locker = r.locker /\ s.rental = r.rental
    BY <1>0, <2>1 DEF Request
  <2>3. CarriesRental([s EXCEPT !.pc = Then(s)])
    <3> HIDE DEF s
    <3> QED BY <2>1, <2>2, ThenCarries
  <2> QED BY <1>5, <2>0, <2>3, StoredCarries, FinishedCarries DEF FindKit
<1>6. CASE ClearKit(q)
  <2> DEFINE r == requests[q]
  <2>1. CarriesRental([r EXCEPT !.pc = AfterClear(r)])
    BY <1>0, <1>6 DEF ClearKit, CarriesRental, AfterClear, Request
  <2> QED BY <1>6, <2>1, StoredCarries DEF ClearKit
<1>7. CASE PlaceKit(q)
  <2> DEFINE r == requests[q]
  <2>0. UNCHANGED <<lockers, overwritten>>
    BY <1>7 DEF PlaceKit
  <2>1. CASE Finish(q)
    BY <2>0, <2>1, FinishedCarries
  <2>2. CASE r.by # "kit" /\ Run(q, [r EXCEPT !.pc = "saveLocker"])
    <3>1. CarriesRental([r EXCEPT !.pc = "saveLocker"])
      BY <1>0, <1>7, <2>2 DEF PlaceKit, CarriesRental, Request
    <3> QED BY <2>0, <2>2, <3>1, StoredCarries
  <2> QED BY <1>7, <2>1, <2>2 DEF PlaceKit
<1>8. CASE SaveLocker(q)
  <2> DEFINE r == requests[q]
  <2>1. r.by = "locker" /\ r.locker \in Lockers /\ r.rental = lockers[r.locker].rental
    BY <1>0, <1>8 DEF SaveLocker, CarriesRental, Request
  <2>2. overwritten' = overwritten
    BY <1>8, <2>1 DEF SaveLocker
  <2>3. ASSUME NEW l \in Lockers PROVE lockers'[l].rental = lockers[l].rental
    BY <1>8, <2>1 DEF SaveLocker, TypeOK
  <2>4. ASSUME NEW p \in Requests PROVE CarriesRental(requests[p])'
    <3>1. requests'[p] = IF p = q THEN Idle ELSE requests[p]
      BY <1>8 DEF SaveLocker, Finish, Run, TypeOK
    <3>2. CarriesRental(requests[p])
      BY DEF Carried
    <3> QED BY <2>3, <3>1, <3>2 DEF CarriesRental, Idle
  <2> QED BY <2>2, <2>4 DEF Carried
<1>9. CASE RequestFails(q)
  BY <1>9, FinishedCarries DEF RequestFails, rows
<1> QED BY <1>1, <1>2, <1>3, <1>4, <1>5, <1>6, <1>7, <1>8, <1>9 DEF AdminNext

\* The steps that are no request's, when the rentals wait.
LEMMA CarriedOther ==
    ASSUME TypeOK, Carried, [Next]_vars, \A q \in Requests : ~AdminNext(q),
           \A l \in Lockers :
              Patched(l) /\ UNCHANGED requests => lockers'[l].rental = lockers[l].rental
    PROVE  Carried'
<1>1. overwritten' = overwritten
  BY DEF Next, vars, rows, rentalVars, CreateLocker, CreateKit, RentalNext, Reserve, EndRental,
         ReleaseNext, Crash
<1>2. CASE Crash
  BY <1>1, <1>2 DEF Crash, Carried, CarriesRental, Idle
<1>3. CASE ~Crash
  <2>1. UNCHANGED requests
    BY <1>3 DEF Next, vars, rows, rentalVars, CreateLocker, CreateKit, RentalNext, Reserve,
                EndRental, ReleaseNext
  <2>2. ASSUME NEW p \in Requests PROVE CarriesRental(requests[p])'
    <3>1. CarriesRental(requests[p])
      BY DEF Carried
    <3> DEFINE r == requests[p]
    <3>2. ASSUME r.pc # "idle", r.by = "locker"
          PROVE  r.locker \in Lockers /\ r.rental = lockers'[r.locker].rental
      <4>1. r.locker \in Lockers /\ r.rental = lockers[r.locker].rental
        BY <3>1, <3>2 DEF CarriesRental
      <4>2. Patched(r.locker)
        BY <3>2 DEF Patched
      <4> QED BY <2>1, <4>1, <4>2
    <3> QED BY <2>1, <3>1, <3>2 DEF CarriesRental
  <2> QED BY <1>1, <2>2 DEF Carried
<1> QED BY <1>2, <1>3

\* BR-05.5 needs one thing the code does not do: where no reservation and no release
\* of a locker falls between the read and the save of a PATCH of it, no locker belongs
\* to two running rentals, whatever else overlaps, fails or is lost in a crash.
THEOREM ExclusiveIfRentalsWait == Spec /\ RentalsWait => []ExclusiveReservation
<1> DEFINE Wait == \A l \in Lockers :
               Patched(l) /\ UNCHANGED requests => lockers'[l].rental = lockers[l].rental
<1>1. Init => Carried
  BY DEF Init, Carried, CarriesRental, Idle
<1>2. TypeOK /\ RequestsOK /\ Carried /\ [Next]_vars /\ [Wait]_vars => Carried'
  <2> SUFFICES ASSUME TypeOK, RequestsOK, Carried, [Next]_vars, [Wait]_vars PROVE Carried'
    OBVIOUS
  <2>1. CASE UNCHANGED vars
    BY <2>1 DEF Carried, CarriesRental, vars, rows
  <2>2. CASE \E q \in Requests : AdminNext(q)
    BY <2>2, CarriedRequest
  <2>3. CASE ~UNCHANGED vars /\ \A q \in Requests : ~AdminNext(q)
    BY <2>3, CarriedOther
  <2> QED BY <2>1, <2>2, <2>3
<1>3. TypeOK /\ RowNamesItsHolder /\ Carried => ExclusiveReservation
  BY ExclusiveWhereNamed DEF Carried
<1> QED BY <1>1, <1>2, <1>3, TypesAndStatus, HolderCorrect, PTL DEF Spec, RentalsWait

=============================================================================
