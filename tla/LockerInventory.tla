-------------------------- MODULE LockerInventory --------------------------
(***************************************************************************)
(* The tables lockers and inventory_kits of the locations module, with     *)
(* every handler that writes them: the admin's locker and kit requests     *)
(* (LockersService, InventoryKitService), the reservation the Rentals      *)
(* module makes with LockerRepository.reserveAtomic, and the release loop  *)
(* of RentalEventHandlers.                                                 *)
(*                                                                         *)
(* Nothing runs in a transaction, so each await of a handler is a step: an *)
(* admin request reads rows into memory and later writes back the whole    *)
(* row it read, whatever was stored in between.                            *)
(*                                                                         *)
(* The Rentals module is not written yet.  Its part (held, ended,          *)
(* EndRental) follows from the calls and events the locations code         *)
(* defines for it.  leaked and overwritten are history variables.          *)
(***************************************************************************)
CONSTANTS
    Lockers, Kits, Rentals,
    Requests,       \* slots for admin requests in flight at the same time
    StatusInputs,   \* values of `status` in a PATCH of a locker, or "KEEP"
    KitInputs,      \* values of `inventoryKitId` in a PATCH of a locker
    LockerInputs,   \* values of `lockerId` in a PATCH of a kit
    None,           \* SQL NULL
    Keep,           \* a field the request body does not hold
    Absent          \* no such row

ASSUME InputsAssumption ==
    /\ StatusInputs \subseteq {"KEEP", "AVAILABLE", "MAINTENANCE"}
    /\ KitInputs \subseteq Kits \cup {None, Keep}
    /\ LockerInputs \subseteq Lockers \cup {None, Keep}

ASSUME SentinelsAssumption ==
    /\ {None, Keep, Absent} \cap (Lockers \cup Kits \cup Rentals) = {}
    /\ None # Keep /\ None # Absent /\ Keep # Absent

VARIABLES
    lockers,        \* the locker rows: status and current_rental_id
    kits,           \* inventory_kits.locker_id of each kit
    requests,       \* the admin request each slot runs
    held,           \* the lockers each rental was told it reserved
    ended,          \* the rentals that finished or were cancelled
    toRelease,      \* what is left of each rental's release loop
    leaked,         \* history: releases a crash dropped
    overwritten     \* history: lockers a save gave another rental than they had

rows == <<lockers, kits>>
rentalVars == <<held, ended, toRelease, leaked>>
vars == <<rows, requests, rentalVars, overwritten>>

Status == {"AVAILABLE", "RESERVED", "MAINTENANCE"}
NoRow == [status |-> "ABSENT", rental |-> None]
Row == [status : Status, rental : Rentals \cup {None}]

\* A request record.  place is where the kit's row will point, Keep when no
\* kit is to be saved; status and rental are the locker row as it was read.
Idle == [pc |-> "idle", by |-> "locker", locker |-> None, kit |-> None,
         current |-> None, place |-> Keep, set |-> "KEEP",
         status |-> "AVAILABLE", rental |-> None]
Request ==
    [pc : {"idle", "findCurrentKit", "findKit", "clearKit", "placeKit",
           "saveLocker"},
     by : {"locker", "kit"},
     locker : Lockers \cup {None},
     kit : Kits \cup {None, Keep},
     current : Kits \cup {None},
     place : Lockers \cup {None, Keep},
     set : {"KEEP", "AVAILABLE", "MAINTENANCE"},
     status : Status,
     rental : Rentals \cup {None}]

Exists(l) == lockers[l].status # "ABSENT"
KitsAt(l) == {k \in Kits : kits[k] = l}

Init ==
    /\ lockers = [l \in Lockers |-> NoRow]
    /\ kits = [k \in Kits |-> Absent]
    /\ requests = [q \in Requests |-> Idle]
    /\ held = [r \in Rentals |-> {}]
    /\ ended = {}
    /\ toRelease = [r \in Rentals |-> {}]
    /\ leaked = [r \in Rentals |-> {}]
    /\ overwritten = {}

----------------------------------------------------------------------------
(* New rows *)

CreateLocker(l) ==
    /\ ~Exists(l)
    /\ lockers' = [lockers EXCEPT ![l] = [status |-> "AVAILABLE", rental |-> None]]
    /\ UNCHANGED <<kits, requests, rentalVars, overwritten>>

CreateKit(k) ==
    /\ kits[k] = Absent
    /\ kits' = [kits EXCEPT ![k] = None]
    /\ UNCHANGED <<lockers, requests, rentalVars, overwritten>>

----------------------------------------------------------------------------
(* Admin requests.  Then and AfterClear choose the next await. *)

Run(q, r) == requests' = [requests EXCEPT ![q] = r]
Finish(q) == Run(q, Idle)

AfterClear_AlwaysPlace(r) == "placeKit"
AfterClear(r) == IF r.place = Keep THEN "saveLocker" ELSE "placeKit"
Then(r) == IF r.current \notin {None, r.kit} THEN "clearKit" ELSE AfterClear(r)

\* PATCH of a locker: the row is read; the kits only if the body names one.
BeginLockerPatch(q, l, kit, set) ==
    /\ requests[q] = Idle
    /\ Exists(l)
    /\ Run(q, [Idle EXCEPT !.pc = IF kit = Keep THEN "saveLocker" ELSE "findCurrentKit",
                           !.locker = l, !.kit = kit, !.set = set,
                           !.status = lockers[l].status, !.rental = lockers[l].rental])
    /\ UNCHANGED <<rows, rentalVars, overwritten>>

\* PATCH of a kit.  A body without lockerId writes back the locker it read.
BeginKitPatch(q, k, l) ==
    /\ requests[q] = Idle
    /\ kits[k] # Absent
    /\ Run(q, [Idle EXCEPT !.by = "kit", !.kit = k,
                           !.pc = IF l \in Lockers THEN "findCurrentKit" ELSE "placeKit",
                           !.locker = IF l \in Lockers THEN l ELSE None,
                           !.place = IF l = Keep THEN kits[k] ELSE l])
    /\ UNCHANGED <<rows, rentalVars, overwritten>>

\* Retiring a kit saves the row with no locker.
BeginRetire(q, k) == BeginKitPatch(q, k, None)

\* kits.findByLocker, and for a kit PATCH lockers.findById just before it.
FindCurrentKit(q) ==
    LET r == requests[q] IN
    /\ r.pc = "findCurrentKit"
    /\ IF ~Exists(r.locker)
       THEN Finish(q)
       ELSE \E cur \in IF KitsAt(r.locker) = {} THEN {None} ELSE KitsAt(r.locker) :
               LET s == [r EXCEPT !.current = cur] IN
               Run(q, [s EXCEPT !.pc = IF r.by = "locker" /\ r.kit # None
                                       THEN "findKit" ELSE Then(s)])
    /\ UNCHANGED <<rows, rentalVars, overwritten>>

\* kits.findById of the kit a locker PATCH asks for.
FindKit(q) ==
    LET r == requests[q]
        s == [r EXCEPT !.place = IF kits[r.kit] = r.locker THEN Keep ELSE r.locker] IN
    /\ r.pc = "findKit"
    /\ IF kits[r.kit] = Absent THEN Finish(q) ELSE Run(q, [s EXCEPT !.pc = Then(s)])
    /\ UNCHANGED <<rows, rentalVars, overwritten>>

\* The kit found at the locker is saved without one.
ClearKit(q) ==
    LET r == requests[q] IN
    /\ r.pc = "clearKit"
    /\ kits' = [kits EXCEPT ![r.current] = None]
    /\ Run(q, [r EXCEPT !.pc = AfterClear(r)])
    /\ UNCHANGED <<lockers, rentalVars, overwritten>>

\* The unique index on inventory_kits.locker_id: another row has the locker.
Taken_NoIndex(k, l) == FALSE
Taken(k, l) == l # None /\ \E other \in Kits \ {k} : kits[other] = l

PlaceKit(q) ==
    LET r == requests[q] IN
    /\ r.pc = "placeKit"
    /\ IF Taken(r.kit, r.place)
       THEN Finish(q) /\ UNCHANGED kits
       ELSE /\ kits' = [kits EXCEPT ![r.kit] = r.place]
            /\ IF r.by = "kit" THEN Finish(q) ELSE Run(q, [r EXCEPT !.pc = "saveLocker"])
    /\ UNCHANGED <<lockers, rentalVars, overwritten>>

\* Locker.setAvailable refuses on the rental that was read, not the stored one.
Refused_NoCheck(r) == FALSE
Refused(r) == r.set = "AVAILABLE" /\ r.rental # None

\* lockers.save: the row read by the request, with the new status.
SaveLocker(q) ==
    LET r == requests[q] IN
    /\ r.pc = "saveLocker"
    /\ IF Refused(r)
       THEN UNCHANGED <<lockers, overwritten>>
       ELSE /\ lockers' = [lockers EXCEPT ![r.locker] =
                             [status |-> IF r.set = "KEEP" THEN r.status ELSE r.set,
                              rental |-> r.rental]]
            /\ overwritten' = IF lockers[r.locker].rental = r.rental
                              THEN overwritten ELSE overwritten \cup {r.locker}
    /\ Finish(q)
    /\ UNCHANGED <<kits, rentalVars>>

\* A database call of the request throws: what was saved before it stays.
RequestFails(q) ==
    /\ requests[q] # Idle
    /\ Finish(q)
    /\ UNCHANGED <<rows, rentalVars, overwritten>>

----------------------------------------------------------------------------
(* Rentals *)

\* reserveAtomic, one conditional UPDATE.  The status is not part of it.
Reservable_NoNullCheck(l) == Exists(l)
Reservable(l) == Exists(l) /\ lockers[l].rental = None

Reserve(r, l) ==
    /\ r \notin ended /\ l \notin held[r]
    /\ Reservable(l)
    /\ lockers' = [lockers EXCEPT ![l] = [status |-> "RESERVED", rental |-> r]]
    /\ held' = [held EXCEPT ![r] = @ \cup {l}]
    /\ UNCHANGED <<kits, requests, ended, toRelease, leaked, overwritten>>

\* The rental finishes or is cancelled and its event starts the release loop.
EndRental(r) ==
    /\ r \notin ended /\ held[r] # {}
    /\ ended' = ended \cup {r}
    /\ toRelease' = [toRelease EXCEPT ![r] = held[r]]
    /\ UNCHANGED <<rows, requests, held, leaked, overwritten>>

\* One turn of the release loop.  Nobody waits for the loop, and the UPDATE
\* does not ask which rental has the locker.
Released_StatusOnly(l) == [lockers[l] EXCEPT !.status = "AVAILABLE"]
Released(l) == [status |-> "AVAILABLE", rental |-> None]

ReleaseNext(r) ==
    \E l \in toRelease[r] :
        /\ lockers' = [lockers EXCEPT ![l] = Released(l)]
        /\ toRelease' = [toRelease EXCEPT ![r] = @ \ {l}]
        /\ UNCHANGED <<kits, requests, held, ended, leaked, overwritten>>

----------------------------------------------------------------------------

\* The process stops and starts again, at any time and also when a release
\* throws: its promise is dropped, so the rejection is unhandled and ends the
\* process.  Requests and release loops are gone; nothing resumes them.
Crash ==
    /\ \/ \E q \in Requests : requests[q] # Idle
       \/ \E r \in Rentals : toRelease[r] # {}
    /\ requests' = [q \in Requests |-> Idle]
    /\ toRelease' = [r \in Rentals |-> {}]
    /\ leaked' = [r \in Rentals |-> leaked[r] \cup toRelease[r]]
    /\ UNCHANGED <<rows, held, ended, overwritten>>

AdminNext(q) ==
    \/ \E l \in Lockers, kit \in KitInputs, set \in StatusInputs :
          BeginLockerPatch(q, l, kit, set)
    \/ \E k \in Kits, l \in LockerInputs : BeginKitPatch(q, k, l)
    \/ \E k \in Kits : BeginRetire(q, k)
    \/ FindCurrentKit(q) \/ FindKit(q) \/ ClearKit(q) \/ PlaceKit(q)
    \/ SaveLocker(q) \/ RequestFails(q)

RentalNext(r) ==
    \/ \E l \in Lockers : Reserve(r, l)
    \/ EndRental(r) \/ ReleaseNext(r)

Next ==
    \/ \E l \in Lockers : CreateLocker(l)
    \/ \E k \in Kits : CreateKit(k)
    \/ \E q \in Requests : AdminNext(q)
    \/ \E r \in Rentals : RentalNext(r)
    \/ Crash

Spec == Init /\ [][Next]_vars

----------------------------------------------------------------------------
(* Properties *)

\* Every variable has its type.
TypeOK ==
    /\ lockers \in [Lockers -> Row \cup {NoRow}]
    /\ kits \in [Kits -> Lockers \cup {None, Absent}]
    /\ requests \in [Requests -> Request]
    /\ held \in [Rentals -> SUBSET Lockers]
    /\ ended \subseteq Rentals
    /\ toRelease \in [Rentals -> SUBSET Lockers]
    /\ leaked \in [Rentals -> SUBSET Lockers]
    /\ overwritten \subseteq Lockers

\* A locker that is offered (AVAILABLE) has no rental, and one marked RESERVED
\* has one, although a PATCH writes back both columns from an old read while
\* reserveAtomic and release write both columns behind its back.
StatusAgreesWithRental ==
    \A l \in Lockers :
        /\ lockers[l].status = "AVAILABLE" => lockers[l].rental = None
        /\ lockers[l].status = "RESERVED" => lockers[l].rental # None

\* The rentals that still count on a locker: running, still to release it, or
\* whose release was lost in a crash.
Holders(l) ==
    {r \in Rentals : l \in held[r] /\ (r \notin ended \/ l \in toRelease[r] \cup leaked[r])}

\* Until a PATCH saves an old read over a locker's reservation, the locker row
\* names exactly the rental that holds it: no locker is given to two rentals, no
\* release loop frees a locker that is another rental's by now, and a locker is
\* left reserved by an ended rental only when its release was lost in a crash.
RowNamesItsHolder ==
    \A l \in Lockers \ overwritten :
        Holders(l) = IF lockers[l].rental = None THEN {} ELSE {lockers[l].rental}

\* What each step of a request may rely on, needed to prove the rest: the fields
\* the step uses are set, and the row in memory is one the table could hold.
RequestOK(r) ==
    /\ r.pc = "findCurrentKit" =>
          /\ r.locker \in Lockers
          /\ IF r.by = "kit" THEN r.kit \in Kits /\ r.place \in Lockers
                             ELSE r.kit \in Kits \cup {None} /\ r.place = Keep
    /\ r.pc = "findKit" => r.locker \in Lockers /\ r.kit \in Kits /\ r.by = "locker"
    /\ r.pc = "clearKit" => r.current \in Kits
    /\ r.pc = "placeKit" \/ (r.pc = "clearKit" /\ r.place # Keep) =>
          r.kit \in Kits /\ r.place # Keep /\ (r.by = "locker" => r.locker \in Lockers)
    /\ r.pc = "saveLocker" \/ (r.pc = "clearKit" /\ r.place = Keep) => r.locker \in Lockers
    /\ r.status = "AVAILABLE" => r.rental = None
    /\ r.status = "RESERVED" => r.rental # None
RequestsOK == \A q \in Requests : RequestOK(requests[q])

\* A release loop and what a crash left of it are parts of what was held.
ReleaseOK ==
    \A r \in Rentals :
        /\ toRelease[r] \cup leaked[r] \subseteq held[r]
        /\ toRelease[r] \cap leaked[r] = {}
        /\ r \notin ended => toRelease[r] = {} /\ leaked[r] = {}

\* At any time a locker belongs to at most one running rental (BR-05.5).
ExclusiveReservation ==
    \A r1, r2 \in Rentals \ ended : r1 # r2 => held[r1] \cap held[r2] = {}

\* Two admins who fill one locker, or move one kit, at the same time never leave
\* two kits in a locker.
OneKitPerLocker ==
    \A k1, k2 \in Kits : kits[k1] \in Lockers /\ kits[k1] = kits[k2] => k1 = k2

\* The locker rows, seen as owners and claims, do what LockerOwnership promises.
Ownership == INSTANCE LockerOwnership WITH
    owner <- [l \in Lockers |-> lockers[l].rental],
    claims <- [r \in Rentals |-> {l \in Lockers : r \in Holders(l)}],
    void <- overwritten
OwnershipSpec == Ownership!Spec

\* The kit rows, with a missing row read as a kit in no locker, do what
\* KitPlacement promises: no request pushes a kit out of a locker by placing
\* another one, whatever the order of the reads and saves of two requests.
Placement == INSTANCE KitPlacement WITH
    at <- [k \in Kits |-> IF kits[k] = Absent THEN None ELSE kits[k]]
PlacementSpec == Placement!Spec

=============================================================================
