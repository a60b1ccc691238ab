---------------------------- MODULE Bookability ----------------------------
(***************************************************************************)
(* What a renter is shown: BookableStationsService and BookabilityRule     *)
(* over the tables stations, lockers, inventory_kits and tariffs.          *)
(*                                                                         *)
(* The service writes nothing, but it reads the tables one after the       *)
(* other, without a transaction, while everybody else writes them.  The    *)
(* writers are here one action for each table: StationHealth,              *)
(* LockerInventory and Tariffs say which request writes what.  Of a row    *)
(* only the columns the answer depends on are kept.                        *)
(***************************************************************************)
EXTENDS FiniteSets, Naturals

CONSTANTS
    Stations, Lockers, Kits, KitTypes,
    DayTypes,       \* WEEKDAY and WEEKEND
    StationOf,      \* lockers.station_id, which nothing changes
    Varying,        \* the conditions of a station that change in this instance
    Statuses,       \* the statuses of a locker that occur in this instance
    None            \* SQL NULL

\* What a station must meet: is_active, is_visible_to_clients, and a
\* working_status of WORKING.
Conditions == {"isActive", "isVisibleToClients", "workingStatus"}

ASSUME StationsAssumption ==
    /\ StationOf \in [Lockers -> Stations]
    /\ Varying \subseteq Conditions
    /\ "AVAILABLE" \in Statuses
    /\ Statuses \subseteq {"AVAILABLE", "RESERVED", "MAINTENANCE"}
    /\ IsFiniteSet(Lockers) /\ None \notin Lockers

VARIABLES
    stations,       \* the conditions each station meets
    lockers,        \* the locker rows
    at,             \* inventory_kits.locker_id of each kit
    kind,           \* inventory_kits.kit_type of each kit
    tariffs,        \* the pairs of kit type and day type with a live tariff
    today,          \* the type of day the clock shows
    view            \* the request that is being answered

tables == <<stations, lockers, at, kind, tariffs, today>>
vars == <<tables, view>>

StationRow == {row \in SUBSET Conditions : Conditions \ Varying \subseteq row}

\* status, and whether current_rental_id is set; that a free locker has no rental and
\* a reserved one has is proved in LockerInventory_proofs.
LockerRow == {row \in [status : Statuses, rented : BOOLEAN] :
                /\ row.status = "AVAILABLE" => ~row.rented
                /\ row.status = "RESERVED" => row.rented}

\* What a renter is offered: a locker with the tariffs of a kit type and a day.
Offer == [locker : Lockers, kitType : KitTypes, day : DayTypes]

\* A request.  row and day are the station and the day as they were read, todo is
\* the rest of the loop, current the locker in work, answer what was pushed.  The
\* other fields are histories: the offers that were bookable at every moment since
\* the request began, those that were when the lockers were read, and whether
\* since the beginning anything but the lockers and the place of kits was written.
Idle == [pc |-> "idle"]
Work == [locker : Lockers, kitType : KitTypes]
LockersView ==
    [pc : {"listAvailable", "findKit", "listTariffs", "lockersDone"},
     station : Stations, row : StationRow, day : DayTypes,
     todo : SUBSET [locker : Lockers, kit : Kits], current : {{}} \cup {{w} : w \in Work},
     answer : SUBSET Offer, steady : SUBSET Offer, snapshot : SUBSET Offer, restated : BOOLEAN]
StationsView ==
    [pc : {"count", "stationsDone"}, todo : SUBSET Stations,
     answer : SUBSET [station : Stations, count : 0 .. Cardinality(Lockers)],
     steady : SUBSET Offer]

Free(l) == lockers[l].status = "AVAILABLE" /\ ~lockers[l].rented

\* What bookable means (FR-001, BR-03.2): everything true at one moment.
Bookable ==
    {o \in Offer :
        /\ stations[StationOf[o.locker]] = Conditions
        /\ Free(o.locker)
        /\ \E k \in Kits : at[k] = o.locker /\ kind[k] = o.kitType
        /\ o.day = today /\ <<o.kitType, o.day>> \in tariffs}
BookableAt(s) == {o \in Bookable : StationOf[o.locker] = s}

Init ==
    /\ stations = [s \in Stations |-> Conditions \ (Varying \cap {"isVisibleToClients"})]
    /\ lockers = [l \in Lockers |-> [status |-> "AVAILABLE", rented |-> FALSE]]
    /\ at = [k \in Kits |-> None]
    /\ kind \in [Kits -> KitTypes]
    /\ tariffs = {}
    /\ today \in DayTypes
    /\ view = Idle

----------------------------------------------------------------------------
(* listForRenter *)

Shown(row) == row = Conditions

\* stations.listBookable.
BeginStations ==
    /\ view = Idle
    /\ LET todo == {s \in Stations : Shown(stations[s])} IN
       view' = [pc |-> IF todo = {} THEN "stationsDone" ELSE "count",
                todo |-> todo, answer |-> {}, steady |-> Bookable]
    /\ UNCHANGED tables

\* listAvailableForStation: the lockers of the station without a rental.
AvailableForStation_Rented(s) == {l \in Lockers : StationOf[l] = s /\ lockers[l].rented}
AvailableForStation(s) == {l \in Lockers : StationOf[l] = s /\ Free(l)}

\* Of the next station they are counted, with or without kit and tariffs.
CountLockers ==
    /\ view.pc = "count"
    /\ \E s \in view.todo :
          view' = [view EXCEPT
                     !.pc = IF view.todo = {s} THEN "stationsDone" ELSE "count",
                     !.todo = @ \ {s},
                     !.answer = @ \cup {[station |-> s,
                                         count |-> Cardinality(AvailableForStation(s))]}]
    /\ UNCHANGED tables

----------------------------------------------------------------------------
(* listBookableLockers *)

\* stations.findById, then the type of day by the clock.
BeginLockers(s) ==
    /\ view = Idle
    /\ view' = [pc |-> "listAvailable", station |-> s, row |-> stations[s], day |-> today,
                todo |-> {}, current |-> {}, answer |-> {},
                steady |-> BookableAt(s), snapshot |-> {}, restated |-> FALSE]
    /\ UNCHANGED tables

\* listAvailableForStation, joined with the kits; a locker without one is passed over.
ListAvailable ==
    LET todo == {p \in [locker : AvailableForStation(view.station), kit : Kits] :
                    at[p.kit] = p.locker} IN
    /\ view.pc = "listAvailable"
    /\ view' = [view EXCEPT !.pc = IF todo = {} THEN "lockersDone" ELSE "findKit",
                            !.todo = todo, !.snapshot = BookableAt(view.station)]
    /\ UNCHANGED tables

\* kits.findById of the next locker.
FindKit ==
    /\ view.pc = "findKit"
    /\ \E p \in view.todo :
          view' = [view EXCEPT !.pc = "listTariffs", !.todo = @ \ {p},
                               !.current = {[locker |-> p.locker, kitType |-> kind[p.kit]]}]
    /\ UNCHANGED tables

\* BookabilityRule.evaluate, given a free locker with a kit.
Evaluate_Hidden(row, hasTariffs) == hasTariffs /\ {"isActive", "workingStatus"} \subseteq row
Evaluate(row, hasTariffs) == hasTariffs /\ row = Conditions

\* A locker without tariffs is passed over, and the loop goes on.
AfterLocker_EndsWithoutTariffs(hasTariffs) ==
    IF view.todo = {} \/ ~hasTariffs THEN "lockersDone" ELSE "findKit"
AfterLocker_NeverEnds(hasTariffs) == "findKit"
AfterLocker(hasTariffs) == IF view.todo = {} THEN "lockersDone" ELSE "findKit"

\* listTariffsForKitType, for the day the request began on.
ListTariffs ==
    /\ view.pc = "listTariffs"
    /\ \E w \in view.current :
          LET hasTariffs == <<w.kitType, view.day>> \in tariffs IN
          view' = [view EXCEPT
                     !.pc = AfterLocker(hasTariffs),
                     !.current = {},
                     !.answer = IF Evaluate(view.row, hasTariffs)
                                THEN @ \cup {[locker |-> w.locker, kitType |-> w.kitType,
                                              day |-> view.day]}
                                ELSE @]
    /\ UNCHANGED tables

Return ==
    /\ view.pc \in {"lockersDone", "stationsDone"}
    /\ view' = Idle
    /\ UNCHANGED tables

----------------------------------------------------------------------------
(* The writers.  A write leaves only those offers steady that are still     *)
(* bookable after it.                                                       *)

Watch(restates) ==
    view' = IF view = Idle THEN view
            ELSE IF view.pc \in {"count", "stationsDone"}
            THEN [view EXCEPT !.steady = @ \cap Bookable']
            ELSE [view EXCEPT !.steady = @ \cap Bookable', !.restated = @ \/ restates]

\* A PATCH of the station, or a transition of its health.
SaveStation(s, row) ==
    /\ stations[s] # row
    /\ stations' = [stations EXCEPT ![s] = row]
    /\ UNCHANGED <<lockers, at, kind, tariffs, today>>
    /\ Watch(TRUE)

\* A PATCH, a reservation or a release.
SaveLocker(l, row) ==
    /\ lockers[l] # row
    /\ lockers' = [lockers EXCEPT ![l] = row]
    /\ UNCHANGED <<stations, at, kind, tariffs, today>>
    /\ Watch(FALSE)

\* A kit moves as KitPlacement says.
Placement == INSTANCE KitPlacement
MoveKit(k, l) ==
    /\ at[k] # l
    /\ Placement!Move(k, l)
    /\ UNCHANGED <<stations, lockers, kind, tariffs, today>>
    /\ Watch(FALSE)

\* A PATCH of a kit with another kitType.
ChangeKitType(k, t) ==
    /\ kind[k] # t
    /\ kind' = [kind EXCEPT ![k] = t]
    /\ UNCHANGED <<stations, lockers, at, tariffs, today>>
    /\ Watch(TRUE)

\* The first tariff of a kit type and day is created, or the last one deleted.
SaveTariff(key) ==
    /\ tariffs' = (tariffs \ {key}) \cup ({key} \ tariffs)
    /\ UNCHANGED <<stations, lockers, at, kind, today>>
    /\ Watch(TRUE)

\* The next day begins.
Midnight(d) ==
    /\ today # d
    /\ today' = d
    /\ UNCHANGED <<stations, lockers, at, kind, tariffs>>
    /\ Watch(TRUE)

Reader ==
    \/ BeginStations \/ CountLockers
    \/ \E s \in Stations : BeginLockers(s)
    \/ ListAvailable \/ FindKit \/ ListTariffs
    \/ Return

Writer ==
    \/ \E s \in Stations, row \in StationRow : SaveStation(s, row)
    \/ \E l \in Lockers, row \in LockerRow : SaveLocker(l, row)
    \/ \E k \in Kits, l \in Lockers \cup {None} : MoveKit(k, l)
    \/ \E k \in Kits, t \in KitTypes : ChangeKitType(k, t)
    \/ \E key \in KitTypes \X DayTypes : SaveTariff(key)
    \/ \E d \in DayTypes : Midnight(d)

Next == Reader \/ Writer

Spec == Init /\ [][Next]_vars

----------------------------------------------------------------------------
(* Properties *)

\* Every variable has its type, and a loop in progress has something to do.
TypeOK ==
    /\ stations \in [Stations -> StationRow]
    /\ lockers \in [Lockers -> LockerRow]
    /\ at \in [Kits -> Lockers \cup {None}]
    /\ kind \in [Kits -> KitTypes]
    /\ tariffs \subseteq KitTypes \X DayTypes
    /\ today \in DayTypes
    /\ view \in {Idle} \cup LockersView \cup StationsView
    /\ view.pc \in {"count", "findKit"} => view.todo # {}
    /\ view.pc = "listTariffs" => view.current # {}

\* A locker that was bookable with the same kit type and day during the whole
\* request is offered, whatever else was written between its reads: what one
\* locker lacks never hides another.
SteadyOffered == view.pc = "lockersDone" => view.steady \subseteq view.answer

\* Lockers may be reserved and released, and kits moved, while the request runs:
\* as long as stations, kit types, tariffs and the day stay, it offers exactly what
\* was bookable at one moment, the one at which it read the lockers.
OffersOfOneMoment ==
    view.pc = "lockersDone" /\ ~view.restated => view.answer = view.snapshot

\* The list of stations counts at least the lockers that were bookable during the
\* whole request, and so does not leave out a station that had one.
SteadyCounted ==
    view.pc = "stationsDone" =>
        \A s \in Stations :
            LET bookable == {o.locker : o \in {x \in view.steady : StationOf[x.locker] = s}} IN
            bookable # {} =>
                \E e \in view.answer : e.station = s /\ e.count >= Cardinality(bookable)

=============================================================================
