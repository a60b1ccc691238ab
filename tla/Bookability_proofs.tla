------------------------ MODULE Bookability_proofs ------------------------
(***************************************************************************)
(* Proofs about Bookability: its types, that what stays bookable is shown  *)
(* and counted, and which writes cannot make the view a mixture.           *)
(***************************************************************************)
EXTENDS Bookability, FiniteSetTheorems, TLAPS

\* The tables have their types, and a locker holds at most one kit.
TablesOK ==
    /\ stations \in [Stations -> StationRow]
    /\ lockers \in [Lockers -> LockerRow]
    /\ at \in [Kits -> Lockers \cup {None}]
    /\ kind \in [Kits -> KitTypes]
    /\ tariffs \subseteq KitTypes \X DayTypes
    /\ today \in DayTypes
    /\ \A k1, k2 \in Kits : at[k1] \in Lockers /\ at[k1] = at[k2] => k1 = k2

\* The request has its type, and the work its pc says.
ViewOK ==
    \/ view = Idle
    \/ /\ view \in LockersView
       /\ view.pc \in {"listAvailable", "lockersDone"} => view.todo = {}
       /\ view.pc = "findKit" => view.todo # {}
       /\ view.pc = "listTariffs" <=> view.current # {}
    \/ /\ view \in StationsView
       /\ view.pc = "count" <=> view.todo # {}

Types == TablesOK /\ ViewOK

InLockers == view \in LockersView
InStations == view \in StationsView

LEMMA ViewKinds ==
    /\ Idle \notin LockersView /\ Idle \notin StationsView /\ Idle.pc = "idle"
    /\ \A v \in LockersView : v.pc \in {"listAvailable", "findKit", "listTariffs", "lockersDone"}
    /\ \A v \in StationsView : v.pc \in {"count", "stationsDone"}
    /\ LockersView \cap StationsView = {}
BY DEF Idle, LockersView, StationsView

LEMMA TypesImplyTypeOK == Types => TypeOK
BY ViewKinds DEF Types, TablesOK, ViewOK, TypeOK

\* What a write leaves of the request.
LEMMA WatchLockers ==
    ASSUME Types, InLockers, NEW b \in BOOLEAN, Watch(b)
    PROVE  /\ view' \in LockersView
           /\ view'.pc = view.pc /\ view'.station = view.station /\ view'.row = view.row
           /\ view'.day = view.day /\ view'.todo = view.todo /\ view'.current = view.current
           /\ view'.answer = view.answer /\ view'.snapshot = view.snapshot
           /\ view'.steady = view.steady \cap Bookable'
           /\ view'.restated = (view.restated \/ b)
<1>1. view' = [view EXCEPT !.steady = @ \cap Bookable', !.restated = @ \/ b]
  BY ViewKinds DEF Watch, InLockers
<1> QED BY <1>1 DEF InLockers, LockersView

LEMMA WatchStations ==
    ASSUME Types, InStations, NEW b \in BOOLEAN, Watch(b)
    PROVE  /\ view' \in StationsView
           /\ view'.pc = view.pc /\ view'.todo = view.todo /\ view'.answer = view.answer
           /\ view'.steady = view.steady \cap Bookable'
<1>1. view' = [view EXCEPT !.steady = @ \cap Bookable']
  BY ViewKinds DEF Watch, InStations
<1> QED BY <1>1 DEF InStations, StationsView

LEMMA WatchIdle == ASSUME view = Idle, NEW b \in BOOLEAN, Watch(b) PROVE view' = Idle
BY DEF Watch

----------------------------------------------------------------------------
(* Types *)

LEMMA InitTypes == Init => Types
BY StationsAssumption DEF Init, Types, TablesOK, ViewOK, StationRow, LockerRow

\* A step of the reader leaves the tables alone.
LEMMA ReaderTypes ==
    ASSUME Types, UNCHANGED tables,
           ViewOK'
    PROVE  Types'
BY DEF Types, TablesOK, tables

LEMMA SubsetFacts ==
    ASSUME NEW s \in Stations
    PROVE  /\ AvailableForStation(s) \subseteq Lockers
           /\ Bookable \subseteq Offer /\ BookableAt(s) \subseteq Offer
           /\ \A o \in BookableAt(s) : StationOf[o.locker] = s
           /\ Cardinality(AvailableForStation(s)) \in 0 .. Cardinality(Lockers)
           /\ IsFiniteSet(AvailableForStation(s))
<1>1. AvailableForStation(s) \subseteq Lockers
  BY DEF AvailableForStation
<1>2. IsFiniteSet(AvailableForStation(s)) /\ Cardinality(AvailableForStation(s)) <= Cardinality(Lockers)
  BY <1>1, FS_Subset, StationsAssumption
<1>3. Cardinality(AvailableForStation(s)) \in Nat /\ Cardinality(Lockers) \in Nat
  BY <1>2, FS_CardinalityType, StationsAssumption
<1>4. Cardinality(AvailableForStation(s)) \in 0 .. Cardinality(Lockers)
  BY <1>2, <1>3
<1> QED BY <1>1, <1>2, <1>4 DEF Bookable, BookableAt

LEMMA BeginStationsTypes ==
    ASSUME Types, BeginStations
    PROVE  /\ Types' /\ view' \in StationsView
           /\ view'.todo = {s \in Stations : Shown(stations[s])}
           /\ view'.answer = {} /\ view'.steady = Bookable
<1> DEFINE todo == {s \in Stations : Shown(stations[s])}
<1>1. view' = [pc |-> IF todo = {} THEN "stationsDone" ELSE "count",
               todo |-> todo, answer |-> {}, steady |-> Bookable]
  BY DEF BeginStations
<1>2. Bookable \subseteq Offer /\ todo \subseteq Stations
  BY DEF Bookable
<1>3. view' \in StationsView
  BY <1>1, <1>2 DEF StationsView
<1>4. ViewOK'
  BY <1>1, <1>3 DEF ViewOK
<1> QED BY <1>1, <1>3, <1>4, ReaderTypes DEF BeginStations

LEMMA CountLockersTypes ==
    ASSUME Types, CountLockers
    PROVE  /\ Types' /\ InStations /\ view' \in StationsView
           /\ view'.steady = view.steady
           /\ \E s \in view.todo :
                 /\ view'.todo = view.todo \ {s}
                 /\ view'.answer = view.answer \cup
                      {[station |-> s, count |-> Cardinality(AvailableForStation(s))]}
<1>1. InStations /\ view \in StationsView
  BY ViewKinds DEF Types, ViewOK, CountLockers, InStations
<1>2. PICK s \in view.todo :
         view' = [view EXCEPT
                    !.pc = IF view.todo = {s} THEN "stationsDone" ELSE "count",
                    !.todo = @ \ {s},
                    !.answer = @ \cup {[station |-> s,
                                        count |-> Cardinality(AvailableForStation(s))]}]
  BY DEF CountLockers
<1>3. s \in Stations /\ view.todo \subseteq Stations
  BY <1>1 DEF StationsView
<1>4. Cardinality(AvailableForStation(s)) \in 0 .. Cardinality(Lockers)
  BY <1>3, SubsetFacts
<1>5. /\ view'.pc = (IF view.todo = {s} THEN "stationsDone" ELSE "count")
      /\ view'.todo = view.todo \ {s} /\ view'.steady = view.steady
      /\ view'.answer = view.answer \cup
            {[station |-> s, count |-> Cardinality(AvailableForStation(s))]}
  BY <1>1, <1>2 DEF StationsView
<1> DEFINE e == [station |-> s, count |-> Cardinality(AvailableForStation(s))]
           pc == IF view.todo = {s} THEN "stationsDone" ELSE "count"
<1>a. e \in [station : Stations, count : 0 .. Cardinality(Lockers)]
  BY <1>3, <1>4
<1>b. pc \in {"count", "stationsDone"}
  OBVIOUS
<1>c. view' = [view EXCEPT !.pc = pc, !.todo = @ \ {s}, !.answer = @ \cup {e}]
  BY <1>2
<1> HIDE DEF e, pc
<1>6. view' \in StationsView
  BY <1>1, <1>a, <1>b, <1>c DEF StationsView
<1>7. view'.pc = "count" <=> view'.todo # {}
  BY <1>5
<1>8. ViewOK'
  BY <1>6, <1>7 DEF ViewOK
<1> QED BY <1>1, <1>5, <1>6, <1>8, ReaderTypes DEF CountLockers

LEMMA BeginLockersTypes ==
    ASSUME Types, NEW s \in Stations, BeginLockers(s)
    PROVE  /\ Types' /\ view' \in LockersView
           /\ view'.pc = "listAvailable" /\ view'.station = s /\ view'.row = stations[s]
           /\ view'.day = today /\ view'.todo = {} /\ view'.current = {}
           /\ view'.answer = {} /\ view'.steady = BookableAt(s)
           /\ view'.snapshot = {} /\ view'.restated = FALSE
<1>1. stations[s] \in StationRow /\ today \in DayTypes /\ BookableAt(s) \subseteq Offer
  BY SubsetFacts DEF Types, TablesOK
<1>2. view' = [pc |-> "listAvailable", station |-> s, row |-> stations[s], day |-> today,
               todo |-> {}, current |-> {}, answer |-> {},
               steady |-> BookableAt(s), snapshot |-> {}, restated |-> FALSE]
  BY DEF BeginLockers
<1>3. view' \in LockersView
  BY <1>1, <1>2 DEF LockersView
<1>4. ViewOK'
  BY <1>2, <1>3 DEF ViewOK
<1> QED BY <1>2, <1>3, <1>4, ReaderTypes DEF BeginLockers

LEMMA InLockersByPc ==
    ASSUME Types, view.pc \in {"listAvailable", "findKit", "listTariffs", "lockersDone"}
    PROVE  InLockers
BY ViewKinds DEF Types, ViewOK, InLockers

LEMMA ListAvailableTypes ==
    ASSUME Types, ListAvailable
    PROVE  /\ Types' /\ InLockers /\ view' \in LockersView
           /\ view'.pc \in {"findKit", "lockersDone"}
           /\ view'.todo = {p \in [locker : AvailableForStation(view.station), kit : Kits] :
                               at[p.kit] = p.locker}
           /\ view'.snapshot = BookableAt(view.station)
           /\ view'.station = view.station /\ view'.row = view.row /\ view'.day = view.day
           /\ view'.current = {} /\ view'.answer = view.answer
           /\ view'.steady = view.steady /\ view'.restated = view.restated
<1> DEFINE todo == {p \in [locker : AvailableForStation(view.station), kit : Kits] :
                       at[p.kit] = p.locker}
<1>1. InLockers /\ view \in LockersView /\ view.current = {}
  BY InLockersByPc, ViewKinds DEF ListAvailable, InLockers, Types, ViewOK
<1>2. view.station \in Stations
  BY <1>1 DEF LockersView
<1>3. view' = [view EXCEPT !.pc = IF todo = {} THEN "lockersDone" ELSE "findKit",
                           !.todo = todo, !.snapshot = BookableAt(view.station)]
  BY DEF ListAvailable
<1>4. todo \subseteq [locker : Lockers, kit : Kits] /\ BookableAt(view.station) \subseteq Offer
  BY <1>2, SubsetFacts
<1> HIDE DEF todo
<1>5. view' \in LockersView
  BY <1>1, <1>3, <1>4 DEF LockersView
<1>6. /\ view'.pc = (IF todo = {} THEN "lockersDone" ELSE "findKit")
      /\ view'.todo = todo /\ view'.snapshot = BookableAt(view.station)
      /\ view'.station = view.station /\ view'.row = view.row /\ view'.day = view.day
      /\ view'.current = view.current /\ view'.answer = view.answer
      /\ view'.steady = view.steady /\ view'.restated = view.restated
  BY <1>1, <1>3 DEF LockersView
<1>7. ViewOK'
  BY <1>1, <1>5, <1>6 DEF ViewOK
<1> QED BY <1>1, <1>5, <1>6, <1>7, ReaderTypes DEF ListAvailable, todo

LEMMA FindKitTypes ==
    ASSUME Types, FindKit
    PROVE  /\ Types' /\ InLockers /\ view' \in LockersView
           /\ view.current = {} /\ view.pc = "findKit" /\ view'.pc = "listTariffs"
           /\ \E p \in view.todo :
                 /\ view'.todo = view.todo \ {p}
                 /\ view'.current = {[locker |-> p.locker, kitType |-> kind[p.kit]]}
           /\ view'.station = view.station /\ view'.row = view.row /\ view'.day = view.day
           /\ view'.answer = view.answer /\ view'.snapshot = view.snapshot
           /\ view'.steady = view.steady /\ view'.restated = view.restated
<1>1. InLockers /\ view \in LockersView /\ view.current = {}
  BY InLockersByPc, ViewKinds DEF FindKit, InLockers, Types, ViewOK
<1>2. PICK p \in view.todo :
         view' = [view EXCEPT !.pc = "listTariffs", !.todo = @ \ {p},
                              !.current = {[locker |-> p.locker, kitType |-> kind[p.kit]]}]
  BY DEF FindKit
<1> DEFINE w == [locker |-> p.locker, kitType |-> kind[p.kit]]
<1>3. p \in [locker : Lockers, kit : Kits]
  BY <1>1 DEF LockersView
<1>4. w \in Work
  BY <1>3 DEF Work, Types, TablesOK
<1> HIDE DEF w
<1>5. view' = [view EXCEPT !.pc = "listTariffs", !.todo = @ \ {p}, !.current = {w}]
  BY <1>2 DEF w
<1>6. {w} \in {{}} \cup {{v} : v \in Work}
  BY <1>4
<1>7. view' \in LockersView
  BY <1>1, <1>5, <1>6 DEF LockersView
<1>8. /\ view'.pc = "listTariffs" /\ view'.todo = view.todo \ {p} /\ view'.current = {w}
      /\ view'.station = view.station /\ view'.row = view.row /\ view'.day = view.day
      /\ view'.answer = view.answer /\ view'.snapshot = view.snapshot
      /\ view'.steady = view.steady /\ view'.restated = view.restated
  BY <1>1, <1>5 DEF LockersView
<1>9. ViewOK'
  BY <1>7, <1>8 DEF ViewOK
<1> QED BY <1>1, <1>7, <1>8, <1>9, ReaderTypes DEF FindKit, w

LEMMA ListTariffsTypes ==
    ASSUME Types, ListTariffs
    PROVE  /\ Types' /\ InLockers /\ view' \in LockersView
           /\ view'.pc \in {"findKit", "lockersDone"}
           /\ view'.todo = view.todo /\ view'.current = {}
           /\ view'.station = view.station /\ view'.row = view.row /\ view'.day = view.day
           /\ view'.snapshot = view.snapshot
           /\ view'.steady = view.steady /\ view'.restated = view.restated
           /\ \E w \in Work :
                 /\ view.current = {w}
                 /\ view'.answer =
                      IF view.row = Conditions /\ <<w.kitType, view.day>> \in tariffs
                      THEN view.answer \cup {[locker |-> w.locker, kitType |-> w.kitType,
                                              day |-> view.day]}
                      ELSE view.answer
<1>1. InLockers /\ view \in LockersView
  BY InLockersByPc, ViewKinds DEF ListTariffs, InLockers
<1>2. PICK w \in view.current :
        LET hasTariffs == <<w.kitType, view.day>> \in tariffs IN
        view' = [view EXCEPT
                   !.pc = AfterLocker(hasTariffs),
                   !.current = {},
                   !.answer = IF Evaluate(view.row, hasTariffs)
                              THEN @ \cup {[locker |-> w.locker, kitType |-> w.kitType,
                                            day |-> view.day]}
                              ELSE @]
  BY DEF ListTariffs
<1>3. w \in Work /\ view.current = {w}
  BY <1>1 DEF LockersView
<1> DEFINE o == [locker |-> w.locker, kitType |-> w.kitType, day |-> view.day]
           pc == IF view.todo = {} THEN "lockersDone" ELSE "findKit"
           answer == IF view.row = Conditions /\ <<w.kitType, view.day>> \in tariffs
                     THEN view.answer \cup {o} ELSE view.answer
<1>4. o \in Offer
  BY <1>1, <1>3 DEF LockersView, Work, Offer
<1>5. answer \in SUBSET Offer
  BY <1>1, <1>4 DEF LockersView
<1>6. pc \in {"findKit", "lockersDone"}
  OBVIOUS
<1>7. view' = [view EXCEPT !.pc = pc, !.current = {}, !.answer = answer]
  BY <1>1, <1>2 DEF AfterLocker, Evaluate, LockersView
<1>8. pc = "lockersDone" <=> view.todo = {}
  OBVIOUS
<1> HIDE DEF answer, pc
<1>9. view' \in LockersView
  BY <1>1, <1>5, <1>6, <1>7 DEF LockersView
<1>10. /\ view'.pc = pc /\ view'.todo = view.todo /\ view'.current = {}
       /\ view'.station = view.station /\ view'.row = view.row /\ view'.day = view.day
       /\ view'.snapshot = view.snapshot /\ view'.answer = answer
       /\ view'.steady = view.steady /\ view'.restated = view.restated
  BY <1>1, <1>7 DEF LockersView
<1>11. ViewOK'
  BY <1>6, <1>8, <1>9, <1>10 DEF ViewOK
<1>12. Types'
  BY <1>11, ReaderTypes DEF ListTariffs
<1> QED BY <1>1, <1>3, <1>6, <1>9, <1>10, <1>12 DEF answer

LEMMA ReturnTypes == ASSUME Types, Return PROVE Types' /\ view' = Idle
BY ReaderTypes DEF Return, ViewOK

\* A writer leaves the tables typed, and of the request what Watch leaves.
LEMMA WriterTypes ==
    ASSUME Types, TablesOK', NEW b \in BOOLEAN, Watch(b)
    PROVE  Types'
<1>1. CASE view = Idle
  BY <1>1, WatchIdle DEF Types, ViewOK
<1>2. CASE InLockers
  BY <1>2, WatchLockers, ViewKinds DEF Types, ViewOK, InLockers
<1>3. CASE InStations
  BY <1>3, WatchStations, ViewKinds DEF Types, ViewOK, InStations
<1> QED BY <1>1, <1>2, <1>3 DEF Types, ViewOK, InLockers, InStations

\* What each writer is for the other proofs: typed tables, and a Watch.
LEMMA WriterSteps ==
    ASSUME Types, Writer
    PROVE  /\ Types'
           /\ \/ Watch(TRUE)
              \/ UNCHANGED <<stations, kind, tariffs, today>> /\ Watch(FALSE)
           /\ \A k \in Kits : at[k] = at'[k] \/ at'[k] \notin Lockers
                              \/ \A j \in Kits : at[j] # at'[k]
<1>1. CASE \E s \in Stations, row \in StationRow : SaveStation(s, row)
  <2>1. TablesOK'
    BY <1>1 DEF SaveStation, Types, TablesOK
  <2> QED BY <1>1, <2>1, WriterTypes DEF SaveStation
<1>2. CASE \E l \in Lockers, row \in LockerRow : SaveLocker(l, row)
  <2>1. TablesOK'
    BY <1>2 DEF SaveLocker, Types, TablesOK
  <2> QED BY <1>2, <2>1, WriterTypes DEF SaveLocker
<1>3. CASE \E k \in Kits, l \in Lockers \cup {None} : MoveKit(k, l)
  <2>1. PICK k \in Kits, l \in Lockers \cup {None} : MoveKit(k, l)
    BY <1>3
  <2>2. /\ l = None \/ \A j \in Kits : at[j] # l
        /\ at' = [at EXCEPT ![k] = l]
    BY <2>1 DEF MoveKit, Placement!Move, Placement!Empty
  <2>3. TablesOK'
    BY <2>1, <2>2, StationsAssumption DEF MoveKit, Types, TablesOK
  <2>4. \A i \in Kits : at[i] = at'[i] \/ at'[i] \notin Lockers
                        \/ \A j \in Kits : at[j] # at'[i]
    BY <2>2, StationsAssumption DEF Types, TablesOK
  <2> QED BY <2>1, <2>3, <2>4, WriterTypes DEF MoveKit
<1>4. CASE \E k \in Kits, t \in KitTypes : ChangeKitType(k, t)
  <2>1. TablesOK'
    BY <1>4 DEF ChangeKitType, Types, TablesOK
  <2> QED BY <1>4, <2>1, WriterTypes DEF ChangeKitType
<1>5. CASE \E key \in KitTypes \X DayTypes : SaveTariff(key)
  <2>1. TablesOK'
    BY <1>5 DEF SaveTariff, Types, TablesOK
  <2> QED BY <1>5, <2>1, WriterTypes DEF SaveTariff
<1>6. CASE \E d \in DayTypes : Midnight(d)
  <2>1. TablesOK'
    BY <1>6 DEF Midnight, Types, TablesOK
  <2> QED BY <1>6, <2>1, WriterTypes DEF Midnight
<1> QED BY <1>1, <1>2, <1>3, <1>4, <1>5, <1>6 DEF Writer

LEMMA TypesStep == Types /\ [Next]_vars => Types'
<1> SUFFICES ASSUME Types, [Next]_vars PROVE Types'
  OBVIOUS
<1>1. CASE Reader
  BY <1>1, BeginStationsTypes, CountLockersTypes, BeginLockersTypes, ListAvailableTypes,
     FindKitTypes, ListTariffsTypes, ReturnTypes DEF Reader
<1>2. CASE Writer
  BY <1>2, WriterSteps
<1>3. CASE UNCHANGED vars
  BY <1>3, ReaderTypes DEF vars, ViewOK, Types
<1> QED BY <1>1, <1>2, <1>3 DEF Next

\* TypeOK, of every table and of the request, whatever is written between its reads:
\* a loop of BookableStationsService always has a locker or a station to go on with.
THEOREM TypeCorrect == Spec => []TypeOK
<1>1. Spec => []Types
  BY InitTypes, TypesStep, PTL DEF Spec
<1> QED BY <1>1, TypesImplyTypeOK, PTL

----------------------------------------------------------------------------
(* What stays bookable is offered *)

\* The loop still has the offer to consider: its kit is in the locker for which it
\* was read, and keeps its type.
Ahead(o) ==
    \/ [locker |-> o.locker, kitType |-> o.kitType] \in view.current
    \/ \E k \in Kits :
          /\ [locker |-> o.locker, kit |-> k] \in view.todo
          /\ at[k] = o.locker /\ kind[k] = o.kitType

SteadyAhead ==
    InLockers =>
        /\ view.steady \subseteq Bookable
        /\ \A o \in view.steady :
              StationOf[o.locker] = view.station /\ o.day = view.day /\ view.row = Conditions
        /\ view.pc # "listAvailable" =>
              \A o \in view.steady : o \in view.answer \/ Ahead(o)

LEMMA SteadyAheadReader ==
    ASSUME Types, SteadyAhead, Reader PROVE SteadyAhead'
<1>0. UNCHANGED tables
  BY DEF Reader, BeginStations, CountLockers, BeginLockers, ListAvailable, FindKit,
         ListTariffs, Return
<1>u. Bookable' = Bookable
  BY <1>0 DEF tables, Bookable, Free
<1>1. CASE BeginStations \/ CountLockers \/ Return
  BY <1>1, BeginStationsTypes, CountLockersTypes, ReturnTypes, ViewKinds
     DEF SteadyAhead, InLockers
<1>2. ASSUME NEW s \in Stations, BeginLockers(s) PROVE SteadyAhead'
  <2>1. \A o \in BookableAt(s) :
           o \in Bookable /\ StationOf[o.locker] = s /\ o.day = today /\ stations[s] = Conditions
    BY DEF BookableAt, Bookable
  <2> QED BY <1>2, <1>u, <2>1, BeginLockersTypes DEF SteadyAhead, InLockers
<1>3. CASE ListAvailable
  <2>1. ASSUME NEW o \in view.steady PROVE Ahead(o)'
    <3>1. /\ o \in Offer /\ StationOf[o.locker] = view.station /\ Free(o.locker)
          /\ \E k \in Kits : at[k] = o.locker /\ kind[k] = o.kitType
      BY <1>3, <2>1, ListAvailableTypes DEF SteadyAhead, Bookable
    <3>2. o.locker \in AvailableForStation(view.station)
      BY <3>1 DEF AvailableForStation, Offer
    <3>3. PICK k \in Kits : at[k] = o.locker /\ kind[k] = o.kitType
      BY <3>1
    <3>4. [locker |-> o.locker, kit |-> k] \in view'.todo
      BY <1>3, <3>2, <3>3, ListAvailableTypes
    <3>5. at'[k] = o.locker /\ kind'[k] = o.kitType
      BY <1>0, <3>3 DEF tables
    <3> QED BY <3>4, <3>5 DEF Ahead
  <2> QED BY <1>3, <1>u, <2>1, ListAvailableTypes DEF SteadyAhead
<1>4. CASE FindKit
  <2>1. PICK p \in view.todo :
           /\ view'.todo = view.todo \ {p}
           /\ view'.current = {[locker |-> p.locker, kitType |-> kind[p.kit]]}
    BY <1>4, FindKitTypes
  <2>2. ASSUME NEW o \in view.steady, o \notin view.answer PROVE Ahead(o)'
    <3>1. PICK k \in Kits :
             /\ [locker |-> o.locker, kit |-> k] \in view.todo
             /\ at[k] = o.locker /\ kind[k] = o.kitType
      BY <1>4, <2>2, FindKitTypes DEF SteadyAhead, Ahead
    <3>2. CASE p = [locker |-> o.locker, kit |-> k]
      BY <2>1, <3>1, <3>2 DEF Ahead
    <3>3. CASE p # [locker |-> o.locker, kit |-> k]
      BY <1>0, <2>1, <3>1, <3>3 DEF Ahead, tables
    <3> QED BY <3>2, <3>3
  <2> QED BY <1>4, <1>u, <2>2, FindKitTypes DEF SteadyAhead
<1>5. CASE ListTariffs
  <2>1. PICK w \in Work :
           /\ view.current = {w}
           /\ view'.answer =
                IF view.row = Conditions /\ <<w.kitType, view.day>> \in tariffs
                THEN view.answer \cup {[locker |-> w.locker, kitType |-> w.kitType,
                                        day |-> view.day]}
                ELSE view.answer
    BY <1>5, ListTariffsTypes
  <2>2. ASSUME NEW o \in view.steady, o \notin view'.answer PROVE Ahead(o)'
    <3>1. o \in Bookable /\ o.day = view.day /\ view.row = Conditions
      BY <1>5, <2>2, ListTariffsTypes DEF SteadyAhead
    <3>2. o \in Offer /\ <<o.kitType, view.day>> \in tariffs
      BY <3>1 DEF Bookable
    <3>3. ASSUME [locker |-> o.locker, kitType |-> o.kitType] \in view.current PROVE FALSE
      <4>1. w.locker = o.locker /\ w.kitType = o.kitType
        BY <2>1, <3>3
      <4>2. o = [locker |-> w.locker, kitType |-> w.kitType, day |-> view.day]
        BY <3>1, <3>2, <4>1 DEF Offer
      <4> QED BY <2>1, <2>2, <3>1, <3>2, <4>1, <4>2
    <3>4. PICK k \in Kits :
             /\ [locker |-> o.locker, kit |-> k] \in view.todo
             /\ at[k] = o.locker /\ kind[k] = o.kitType
      <4>1. o \notin view.answer /\ view.pc # "listAvailable"
        BY <1>5, <2>1, <2>2 DEF ListTariffs
      <4>2. Ahead(o)
        BY <1>5, <2>2, <4>1, ListTariffsTypes DEF SteadyAhead
      <4> QED BY <3>3, <4>2 DEF Ahead
    <3> QED BY <1>0, <1>5, <3>4, ListTariffsTypes DEF Ahead, tables
  <2> QED BY <1>5, <1>u, <2>2, ListTariffsTypes DEF SteadyAhead
<1> QED BY <1>1, <1>2, <1>3, <1>4, <1>5 DEF Reader

\* The kit of an offer that is bookable before a write and after it is the same:
\* a kit enters a locker only when the locker is empty.
LEMMA SteadyAheadWriter ==
    ASSUME Types, SteadyAhead, Writer PROVE SteadyAhead'
<1>1. PICK b \in BOOLEAN : Watch(b)
  BY WriterSteps
<1>2. CASE InLockers
  <2>1. ASSUME NEW o \in view'.steady, Ahead(o) PROVE Ahead(o)'
    <3>1. o \in view.steady /\ o \in Bookable'
      BY <1>1, <1>2, <2>1, WatchLockers
    <3>2. CASE [locker |-> o.locker, kitType |-> o.kitType] \in view.current
      BY <1>1, <1>2, <3>2, WatchLockers DEF Ahead
    <3>3. ASSUME NEW k \in Kits,
                 [locker |-> o.locker, kit |-> k] \in view.todo,
                 at[k] = o.locker, kind[k] = o.kitType
          PROVE  Ahead(o)'
      <4>1. o \in Offer /\ o.locker \in Lockers
        BY <3>1 DEF Bookable, Offer
      <4>2. PICK j \in Kits : at'[j] = o.locker /\ kind'[j] = o.kitType
        BY <3>1 DEF Bookable
      <4>3. at[j] = at'[j]
        BY <3>3, <4>1, <4>2, WriterSteps
      <4>4. j = k
        BY <3>3, <4>1, <4>2, <4>3 DEF Types, TablesOK
      <4>5. [locker |-> o.locker, kit |-> k] \in view'.todo
        BY <1>1, <1>2, <3>3, WatchLockers
      <4> QED BY <4>2, <4>4, <4>5 DEF Ahead
    <3> QED BY <2>1, <3>2, <3>3 DEF Ahead
  <2> QED BY <1>1, <1>2, <2>1, WatchLockers DEF SteadyAhead
<1>3. CASE ~InLockers
  <2>1. view' = Idle \/ view' \in StationsView
    BY <1>1, <1>3, WatchIdle, WatchStations DEF Types, ViewOK, InLockers, InStations
  <2> QED BY <2>1, ViewKinds DEF SteadyAhead, InLockers
<1> QED BY <1>2, <1>3

\* SteadyOffered: listBookableLockers offers every locker that was bookable during the
\* whole request, for any tables and any writes between its reads.
THEOREM OffersWhatIsSteady == Spec => []SteadyOffered
<1>1. Init => SteadyAhead
  BY ViewKinds DEF Init, SteadyAhead, InLockers
<1>2. Types /\ SteadyAhead /\ [Next]_vars => SteadyAhead'
  <2> SUFFICES ASSUME Types, SteadyAhead, UNCHANGED vars PROVE SteadyAhead'
    BY SteadyAheadReader, SteadyAheadWriter DEF Next
  <2>1. Bookable' = Bookable
    BY DEF vars, tables, Bookable, Free
  <2> QED BY <2>1 DEF vars, tables, SteadyAhead, InLockers, Ahead
<1>3. Types /\ SteadyAhead => SteadyOffered
  <2> SUFFICES ASSUME Types, SteadyAhead, view.pc = "lockersDone"
               PROVE  view.steady \subseteq view.answer
    BY DEF SteadyOffered
  <2>1. InLockers /\ view.todo = {} /\ view.current = {}
    BY InLockersByPc, ViewKinds DEF Types, ViewOK, InLockers
  <2> QED BY <2>1 DEF SteadyAhead, Ahead
<1> QED BY <1>1, <1>2, <1>3, InitTypes, TypesStep, PTL DEF Spec

----------------------------------------------------------------------------
(* What is offered was bookable at one moment *)

\* Whether a locker with a kit of type t is pushed, and the offer that is.
Offered(t) == view.row = Conditions /\ <<t, view.day>> \in tariffs
OfferOf(l, t) == [locker |-> l, kitType |-> t, day |-> view.day]

\* An offer of the snapshot was pushed or is still to come.
Expected(o) ==
    \/ o \in view.answer
    \/ [locker |-> o.locker, kitType |-> o.kitType] \in view.current
    \/ \E k \in Kits : [locker |-> o.locker, kit |-> k] \in view.todo /\ kind[k] = o.kitType

MomentRead ==
    InLockers /\ ~view.restated =>
        /\ view.row = stations[view.station] /\ view.day = today
        /\ view.pc = "listAvailable" => view.answer = {}
        /\ view.pc # "listAvailable" =>
              /\ view.answer \subseteq view.snapshot
              /\ \A w \in view.current :
                    Offered(w.kitType) => OfferOf(w.locker, w.kitType) \in view.snapshot
              /\ \A p \in view.todo :
                    Offered(kind[p.kit]) => OfferOf(p.locker, kind[p.kit]) \in view.snapshot
              /\ \A o \in view.snapshot :
                    /\ Offered(o.kitType) /\ o \in Offer /\ o.day = view.day
                    /\ Expected(o)

LEMMA MomentReadReader ==
    ASSUME Types, MomentRead, Reader PROVE MomentRead'
<1>0. UNCHANGED <<stations, kind, tariffs, today>>
  BY DEF Reader, BeginStations, CountLockers, BeginLockers, ListAvailable, FindKit,
         ListTariffs, Return, tables
<1>1. CASE BeginStations \/ CountLockers \/ Return
  BY <1>1, BeginStationsTypes, CountLockersTypes, ReturnTypes, ViewKinds
     DEF MomentRead, InLockers
<1>2. ASSUME NEW s \in Stations, BeginLockers(s) PROVE MomentRead'
  BY <1>0, <1>2, BeginLockersTypes DEF MomentRead
<1>3. CASE ListAvailable
  <2>0. SUFFICES ASSUME ~view.restated PROVE MomentRead'
    BY <1>3, ListAvailableTypes DEF MomentRead
  <2>1. /\ view.row = stations[view.station] /\ view.day = today /\ view.answer = {}
        /\ view.station \in Stations
    BY <1>3, <2>0, ListAvailableTypes DEF MomentRead, ListAvailable, InLockers, LockersView
  <2>2. ASSUME NEW p \in view'.todo, Offered(kind[p.kit])'
        PROVE  OfferOf(p.locker, kind[p.kit])' \in view'.snapshot
    <3> DEFINE o == [locker |-> p.locker, kitType |-> kind[p.kit], day |-> view.day]
    <3>1. /\ p \in [locker : AvailableForStation(view.station), kit : Kits]
          /\ at[p.kit] = p.locker
      BY <1>3, ListAvailableTypes
    <3>2. /\ p.kit \in Kits /\ p.locker \in Lockers
          /\ StationOf[p.locker] = view.station /\ Free(p.locker)
      BY <3>1 DEF AvailableForStation
    <3>3. stations[view.station] = Conditions /\ <<kind[p.kit], view.day>> \in tariffs
      BY <1>0, <1>3, <2>1, <2>2, ListAvailableTypes DEF Offered
    <3>4. o \in Offer
      BY <2>1, <3>2 DEF Offer, Types, TablesOK
    <3>5. /\ o.locker = p.locker /\ o.kitType = kind[p.kit] /\ o.day = view.day
      OBVIOUS
    <3> HIDE DEF o
    <3>6. o \in BookableAt(view.station)
      BY <2>1, <3>1, <3>2, <3>3, <3>4, <3>5 DEF BookableAt, Bookable
    <3> QED BY <1>0, <1>3, <3>6, ListAvailableTypes DEF OfferOf, o
  <2>3. ASSUME NEW o \in view'.snapshot
        PROVE  /\ Offered(o.kitType)' /\ o \in Offer /\ o.day = view'.day
               /\ Expected(o)'
    <3>1. o \in Bookable /\ o \in Offer /\ StationOf[o.locker] = view.station
      BY <1>3, ListAvailableTypes DEF BookableAt, Bookable
    <3>2. /\ stations[view.station] = Conditions /\ Free(o.locker) /\ o.day = today
          /\ <<o.kitType, o.day>> \in tariffs
      BY <3>1 DEF Bookable
    <3>3. PICK k \in Kits : at[k] = o.locker /\ kind[k] = o.kitType
      BY <3>1 DEF Bookable
    <3>4. o.locker \in AvailableForStation(view.station)
      BY <3>1, <3>2 DEF AvailableForStation, Offer
    <3>5. [locker |-> o.locker, kit |-> k] \in view'.todo
      BY <1>3, <3>3, <3>4, ListAvailableTypes
    <3>6. Offered(o.kitType)' /\ o.day = view'.day
      BY <1>0, <1>3, <2>1, <3>2, ListAvailableTypes DEF Offered
    <3> QED BY <1>0, <3>1, <3>3, <3>5, <3>6 DEF Expected
  <2> QED BY <1>0, <1>3, <2>1, <2>2, <2>3, ListAvailableTypes DEF MomentRead
<1>4. CASE FindKit
  <2>0. SUFFICES ASSUME ~view.restated PROVE MomentRead'
    BY <1>4, FindKitTypes DEF MomentRead
  <2>1. PICK p \in view.todo :
           /\ view'.todo = view.todo \ {p}
           /\ view'.current = {[locker |-> p.locker, kitType |-> kind[p.kit]]}
    BY <1>4, FindKitTypes
  <2>2. \A l, t : /\ Offered(t)' <=> Offered(t)
                  /\ OfferOf(l, t)' = OfferOf(l, t)
    BY <1>0, <1>4, FindKitTypes DEF Offered, OfferOf
  <2>3. ASSUME NEW o \in view.snapshot PROVE Expected(o)'
    <3>1. o \in view.answer \/ \E k \in Kits :
              [locker |-> o.locker, kit |-> k] \in view.todo /\ kind[k] = o.kitType
      BY <1>4, <2>0, <2>3, FindKitTypes DEF MomentRead, Expected
    <3>2. ASSUME NEW k \in Kits,
                 [locker |-> o.locker, kit |-> k] \in view.todo, kind[k] = o.kitType
          PROVE  Expected(o)'
      <4>1. CASE p = [locker |-> o.locker, kit |-> k]
        BY <2>1, <3>2, <4>1 DEF Expected
      <4>2. CASE p # [locker |-> o.locker, kit |-> k]
        BY <1>0, <2>1, <3>2, <4>2 DEF Expected
      <4> QED BY <4>1, <4>2
    <3> QED BY <1>4, <3>1, <3>2, FindKitTypes DEF Expected
  <2>4. /\ view'.station = view.station /\ view'.day = view.day
        /\ view'.pc # "listAvailable" /\ view.pc # "listAvailable"
        /\ view'.answer = view.answer /\ view'.snapshot = view.snapshot
        /\ view'.row = view.row
    BY <1>4, FindKitTypes
  <2>5. /\ view.row = stations[view.station] /\ view.day = today
        /\ view.answer \subseteq view.snapshot
        /\ \A q \in view.todo :
              Offered(kind[q.kit]) => OfferOf(q.locker, kind[q.kit]) \in view.snapshot
        /\ \A o \in view.snapshot :
              Offered(o.kitType) /\ o \in Offer /\ o.day = view.day
    BY <1>4, <2>0, <2>4, FindKitTypes DEF MomentRead
  <2>6. \A w \in view'.current :
           Offered(w.kitType)' => OfferOf(w.locker, w.kitType)' \in view'.snapshot
    BY <2>1, <2>2, <2>4, <2>5
  <2>7. \A q \in view'.todo :
           Offered(kind[q.kit])' => OfferOf(q.locker, kind[q.kit])' \in view'.snapshot
    BY <1>0, <2>1, <2>2, <2>4, <2>5
  <2>8. \A o \in view'.snapshot :
           Offered(o.kitType)' /\ o \in Offer /\ o.day = view'.day /\ Expected(o)'
    BY <2>2, <2>3, <2>4, <2>5
  <2> QED BY <1>0, <2>4, <2>5, <2>6, <2>7, <2>8 DEF MomentRead
<1>5. CASE ListTariffs
  <2>0. SUFFICES ASSUME ~view.restated PROVE MomentRead'
    BY <1>5, ListTariffsTypes DEF MomentRead
  <2>1. PICK w \in Work :
           /\ view.current = {w}
           /\ view'.answer = IF Offered(w.kitType)
                             THEN view.answer \cup {OfferOf(w.locker, w.kitType)}
                             ELSE view.answer
    BY <1>5, ListTariffsTypes DEF Offered, OfferOf
  <2>2. \A l, t : /\ Offered(t)' <=> Offered(t)
                  /\ OfferOf(l, t)' = OfferOf(l, t)
    BY <1>0, <1>5, ListTariffsTypes DEF Offered, OfferOf
  <2>4. /\ view'.row = view.row /\ view'.station = view.station /\ view'.day = view.day
        /\ view'.pc # "listAvailable" /\ view.pc # "listAvailable"
        /\ view'.snapshot = view.snapshot
        /\ view'.todo = view.todo /\ view'.current = {}
    BY <1>5, ListTariffsTypes DEF ListTariffs
  <2>5. /\ view.row = stations[view.station] /\ view.day = today
        /\ view.answer \subseteq view.snapshot
        /\ Offered(w.kitType) => OfferOf(w.locker, w.kitType) \in view.snapshot
        /\ \A q \in view.todo :
              Offered(kind[q.kit]) => OfferOf(q.locker, kind[q.kit]) \in view.snapshot
        /\ \A o \in view.snapshot :
              Offered(o.kitType) /\ o \in Offer /\ o.day = view.day /\ Expected(o)
    BY <1>5, <2>0, <2>1, <2>4, ListTariffsTypes DEF MomentRead
  <2>6. view'.answer \subseteq view'.snapshot
    BY <2>1, <2>4, <2>5
  <2>7. ASSUME NEW o \in view.snapshot PROVE Expected(o)'
    <3>1. o \in Offer /\ o.day = view.day /\ Offered(o.kitType) /\ Expected(o)
      BY <2>5, <2>7
    <3>2. ASSUME w = [locker |-> o.locker, kitType |-> o.kitType] PROVE o \in view'.answer
      <4>1. o = OfferOf(w.locker, w.kitType)
        BY <3>1, <3>2 DEF Offer, OfferOf
      <4>2. w.locker = o.locker /\ w.kitType = o.kitType
        BY <3>2
      <4> QED BY <2>1, <3>1, <4>1, <4>2
    <3>3. view.answer \subseteq view'.answer
      BY <2>1
    <3> QED BY <1>0, <2>1, <2>4, <3>1, <3>2, <3>3 DEF Expected
  <2> QED BY <1>0, <2>2, <2>4, <2>5, <2>6, <2>7 DEF MomentRead
<1> QED BY <1>1, <1>2, <1>3, <1>4, <1>5 DEF Reader

LEMMA MomentReadWriter ==
    ASSUME Types, MomentRead, Writer PROVE MomentRead'
<1>1. CASE InLockers /\ Watch(TRUE)
  BY <1>1, WatchLockers DEF MomentRead
<1>2. CASE InLockers /\ Watch(FALSE) /\ UNCHANGED <<stations, kind, tariffs, today>>
  BY <1>2, WatchLockers DEF MomentRead, Offered, OfferOf, Expected
<1>3. CASE ~InLockers
  <2>1. view' = Idle \/ view' \in StationsView
    BY <1>3, WriterSteps, WatchIdle, WatchStations DEF Types, ViewOK, InLockers, InStations
  <2> QED BY <2>1, ViewKinds DEF MomentRead, InLockers
<1> QED BY <1>1, <1>2, <1>3, WriterSteps

\* OffersOfOneMoment: reservations, releases and kits that move while listBookableLockers
\* runs never make its answer a mixture of what held at different times.
THEOREM OneMoment == Spec => []OffersOfOneMoment
<1>1. Init => MomentRead
  BY ViewKinds DEF Init, MomentRead, InLockers
<1>2. Types /\ MomentRead /\ [Next]_vars => MomentRead'
  <2> SUFFICES ASSUME Types, MomentRead, UNCHANGED vars PROVE MomentRead'
    BY MomentReadReader, MomentReadWriter DEF Next
  <2> QED BY DEF vars, tables, MomentRead, InLockers, Offered, OfferOf, Expected
<1>3. Types /\ MomentRead => OffersOfOneMoment
  <2> SUFFICES ASSUME Types, MomentRead, view.pc = "lockersDone", ~view.restated
               PROVE  view.answer = view.snapshot
    BY DEF OffersOfOneMoment
  <2>1. InLockers /\ view.todo = {} /\ view.current = {}
    BY InLockersByPc, ViewKinds DEF Types, ViewOK, InLockers
  <2>2. view.answer \subseteq view.snapshot /\ \A o \in view.snapshot : o \in view.answer
    BY <2>1 DEF MomentRead, Expected
  <2> QED BY <2>2
<1> QED BY <1>1, <1>2, <1>3, InitTypes, TypesStep, PTL DEF Spec

----------------------------------------------------------------------------
(* What stays bookable is counted *)

SteadyAt(s) == {o.locker : o \in {x \in view.steady : StationOf[x.locker] = s}}

CountedOrAhead ==
    InStations =>
        /\ view.steady \subseteq Bookable
        /\ \A s \in Stations : SteadyAt(s) # {} =>
              s \in view.todo \/ \E e \in view.answer :
                                    e.station = s /\ e.count >= Cardinality(SteadyAt(s))

LEMMA SteadyAtFacts ==
    ASSUME NEW s \in Stations, view.steady \subseteq Bookable
    PROVE  /\ SteadyAt(s) \subseteq AvailableForStation(s)
           /\ IsFiniteSet(SteadyAt(s)) /\ Cardinality(SteadyAt(s)) \in Nat
           /\ Cardinality(SteadyAt(s)) <= Cardinality(AvailableForStation(s))
<1>1. SteadyAt(s) \subseteq AvailableForStation(s)
  BY DEF SteadyAt, AvailableForStation, Bookable, Offer
<1>2. IsFiniteSet(AvailableForStation(s))
  BY SubsetFacts
<1> QED BY <1>1, <1>2, FS_Subset, FS_CardinalityType

LEMMA CountedReader ==
    ASSUME Types, CountedOrAhead, Reader PROVE CountedOrAhead'
<1>0. UNCHANGED tables
  BY DEF Reader, BeginStations, CountLockers, BeginLockers, ListAvailable, FindKit,
         ListTariffs, Return
<1>u. Bookable' = Bookable
  BY <1>0 DEF tables, Bookable, Free
<1>1. CASE (\E s \in Stations : BeginLockers(s)) \/ ListAvailable \/ FindKit \/ ListTariffs \/ Return
  BY <1>1, BeginLockersTypes, ListAvailableTypes, FindKitTypes, ListTariffsTypes,
     ReturnTypes, ViewKinds DEF CountedOrAhead, InStations
<1>2. CASE BeginStations
  <2>1. ASSUME NEW s \in Stations, SteadyAt(s)' # {} PROVE s \in view'.todo
    <3>1. PICK o \in view'.steady : StationOf[o.locker] = s
      BY <2>1 DEF SteadyAt
    <3>2. o \in Bookable
      BY <1>2, <3>1, BeginStationsTypes
    <3>3. stations[s] = Conditions
      BY <3>1, <3>2 DEF Bookable
    <3> QED BY <1>2, <3>3, BeginStationsTypes DEF Shown
  <2> QED BY <1>2, <1>u, <2>1, BeginStationsTypes DEF CountedOrAhead
<1>3. CASE CountLockers
  <2>1. PICK s \in view.todo :
           /\ view'.todo = view.todo \ {s}
           /\ view'.answer = view.answer \cup
                {[station |-> s, count |-> Cardinality(AvailableForStation(s))]}
    BY <1>3, CountLockersTypes
  <2>2. s \in Stations /\ view.steady \subseteq Bookable /\ InStations
    BY <1>3, CountLockersTypes DEF CountedOrAhead, InStations, StationsView
  <2>3. \A r \in Stations : SteadyAt(r)' = SteadyAt(r)
    BY <1>3, CountLockersTypes DEF SteadyAt
  <2> DEFINE e == [station |-> s, count |-> Cardinality(AvailableForStation(s))]
  <2>4. Cardinality(AvailableForStation(s)) >= Cardinality(SteadyAt(s))
    <3>1. Cardinality(AvailableForStation(s)) \in Nat
      BY <2>2, SubsetFacts
    <3> QED BY <2>2, <3>1, SteadyAtFacts
  <2>5. e \in view'.answer /\ e.station = s /\ e.count >= Cardinality(SteadyAt(s))
    BY <2>1, <2>4
  <2> HIDE DEF e
  <2>6. ASSUME NEW r \in Stations, SteadyAt(r) # {}
        PROVE  r \in view'.todo \/ \E d \in view'.answer :
                  d.station = r /\ d.count >= Cardinality(SteadyAt(r))
    <3>1. CASE r = s
      BY <2>5, <3>1
    <3>2. CASE r # s
      BY <2>1, <2>2, <2>6, <3>2 DEF CountedOrAhead
    <3> QED BY <3>1, <3>2
  <2>7. view'.steady \subseteq Bookable'
    BY <1>3, <1>u, <2>2, CountLockersTypes
  <2> QED BY <2>3, <2>6, <2>7 DEF CountedOrAhead
<1> QED BY <1>1, <1>2, <1>3 DEF Reader

\* A write can only shrink what is steady, and the count stays at least as large.
LEMMA CountedWriter ==
    ASSUME Types, CountedOrAhead, Writer PROVE CountedOrAhead'
<1>1. CASE InStations
  <2>1. /\ view'.todo = view.todo /\ view'.answer = view.answer
        /\ view'.steady = view.steady \cap Bookable'
        /\ view.answer \subseteq [station : Stations, count : 0 .. Cardinality(Lockers)]
        /\ view.steady \subseteq Bookable
    BY <1>1, WriterSteps, WatchStations DEF CountedOrAhead, InStations, StationsView
  <2>2. ASSUME NEW s \in Stations, SteadyAt(s)' # {}
        PROVE  s \in view'.todo \/ \E e \in view'.answer :
                  e.station = s /\ e.count >= Cardinality(SteadyAt(s)')
    <3>1. SteadyAt(s)' \subseteq SteadyAt(s)
      BY <2>1 DEF SteadyAt
    <3>2. /\ IsFiniteSet(SteadyAt(s)) /\ Cardinality(SteadyAt(s)) \in Nat
      BY <2>1, SteadyAtFacts
    <3>3. /\ Cardinality(SteadyAt(s)') \in Nat
          /\ Cardinality(SteadyAt(s)') <= Cardinality(SteadyAt(s))
      BY <3>1, <3>2, FS_Subset, FS_CardinalityType
    <3>4. CASE s \in view.todo
      BY <2>1, <3>4
    <3>5. ASSUME NEW e \in view.answer, e.station = s, e.count >= Cardinality(SteadyAt(s))
          PROVE  e \in view'.answer /\ e.count >= Cardinality(SteadyAt(s)')
      <4>1. e.count \in Int
        BY <2>1, <3>5
      <4> QED BY <2>1, <3>2, <3>3, <3>5, <4>1
    <3> QED BY <1>1, <2>2, <3>1, <3>4, <3>5 DEF CountedOrAhead
  <2> QED BY <2>1, <2>2 DEF CountedOrAhead
<1>2. CASE ~InStations
  <2>1. view' = Idle \/ view' \in LockersView
    BY <1>2, WriterSteps, WatchIdle, WatchLockers DEF Types, ViewOK, InLockers, InStations
  <2> QED BY <2>1, ViewKinds DEF CountedOrAhead, InStations
<1> QED BY <1>1, <1>2

\* SteadyCounted: listForRenter shows every station that had a bookable locker during
\* the whole request, and does not count fewer lockers than stayed bookable.
THEOREM CountsWhatIsSteady == Spec => []SteadyCounted
<1>1. Init => CountedOrAhead
  BY ViewKinds DEF Init, CountedOrAhead, InStations
<1>2. Types /\ CountedOrAhead /\ [Next]_vars => CountedOrAhead'
  <2> SUFFICES ASSUME Types, CountedOrAhead, UNCHANGED vars PROVE CountedOrAhead'
    BY CountedReader, CountedWriter DEF Next
  <2>1. Bookable' = Bookable
    BY DEF vars, tables, Bookable, Free
  <2> QED BY <2>1 DEF vars, CountedOrAhead, InStations, SteadyAt
<1>3. Types /\ CountedOrAhead => SteadyCounted
  <2> SUFFICES ASSUME Types, CountedOrAhead, view.pc = "stationsDone" PROVE SteadyCounted
    BY DEF SteadyCounted
  <2>1. InStations /\ view.todo = {}
    BY ViewKinds DEF Types, ViewOK, InStations
  <2> QED BY <2>1 DEF CountedOrAhead, SteadyCounted, SteadyAt
<1> QED BY <1>1, <1>2, <1>3, InitTypes, TypesStep, PTL DEF Spec

=============================================================================
