------------------------------ MODULE Tariffs ------------------------------
(***************************************************************************)
(* The price list of one organization for one kind of kit and one type of  *)
(* day: TariffService and PricingService with the tariffs table.  Tariffs  *)
(* with another key do not meet these anywhere.                            *)
(*                                                                         *)
(* A PATCH and a DELETE read the row in one await and write the whole row  *)
(* back in a later one, deletedAt included; findById also finds deleted    *)
(* rows.  The currency goes with the price.  The SELECT that save sends    *)
(* first to choose between INSERT and UPDATE asks for a row that is never  *)
(* removed, so it is one step with the write.                              *)
(***************************************************************************)
EXTENDS Overtime

CONSTANTS
    Ids,            \* ids of tariff rows
    Durations,      \* minutes the admins define tariffs for
    Prices,         \* minor units
    LongestUse,     \* bound: minutes a kit is kept, at most
    Requests,       \* slots for requests in flight at the same time
    None            \* no row, no quote

ASSUME TariffAssumption ==
    /\ Durations \subseteq Nat \ {0}
    /\ Prices \subseteq Nat
    /\ LongestUse \in Nat

VARIABLES
    tariffs,        \* the tariffs table
    requests,       \* the request each slot runs
    paid,           \* the quote a rental has paid
    told,           \* history: what the successful changes of a tariff add up to;
                    \* of a crossed one simply the row, to tell fewer states apart
    crossed         \* history: tariffs saved over somebody's read

vars == <<tariffs, requests, paid, told, crossed>>

Tariff == [minutes : Durations, price : Prices, deleted : BOOLEAN]
ASSUME NoneAssumption == None \notin Tariff
Quote == [id : Ids, minutes : Durations, price : Prices]
Idle == [pc |-> "idle"]
\* The row to save, and which column the request is to set.
Change == [pc : {"save"}, id : Ids, row : Tariff, set : {"price", "deletedAt"}]

Init ==
    /\ tariffs = [i \in Ids |-> None]
    /\ requests = [q \in Requests |-> Idle]
    /\ paid = None
    /\ told = [i \in Ids |-> None]
    /\ crossed = {}

----------------------------------------------------------------------------
(* DrizzleTariffRepository *)

\* listForKitType, list, findForQuote, findExistingByKey: deletedAt IS NULL.
Live == {i \in Ids : tariffs[i] # None /\ ~tariffs[i].deleted}

\* The partial unique index tariffs_unique_key refuses to write this row.
Duplicate_NewRowsOnly(i, row) ==
    tariffs[i] = None /\ \E j \in Live : tariffs[j].minutes = row.minutes
Duplicate(i, row) ==
    ~row.deleted /\ \E j \in Live \ {i} : tariffs[j].minutes = row.minutes

----------------------------------------------------------------------------
(* TariffService *)

\* create: nothing is read first; a duplicate is answered with a 422.
Create(i, minutes, price) ==
    LET row == [minutes |-> minutes, price |-> price, deleted |-> FALSE] IN
    /\ tariffs[i] = None
    /\ ~Duplicate(i, row)
    /\ tariffs' = [tariffs EXCEPT ![i] = row]
    /\ told' = [told EXCEPT ![i] = row]
    /\ UNCHANGED <<requests, paid, crossed>>

\* What a PATCH (of the price, or of the currency only) and a DELETE make of a row.
Edits_NoDefault(row, set) ==
    IF set = "price" THEN {[row EXCEPT !.price = p] : p \in Prices \cup {None}}
    ELSE {[row EXCEPT !.deleted = TRUE]}
Edits_Revives(row, set) ==
    IF set = "price" THEN {[row EXCEPT !.price = p, !.deleted = FALSE] : p \in Prices}
    ELSE {[row EXCEPT !.deleted = TRUE]}
Edits(row, set) ==
    IF set = "price" THEN {[row EXCEPT !.price = p] : p \in Prices}
    ELSE {[row EXCEPT !.deleted = TRUE]}

\* update and softDelete: findById, then the change of the aggregate in memory.
BeginChange(q, i) ==
    /\ requests[q] = Idle
    /\ tariffs[i] # None
    /\ \E set \in {"price", "deletedAt"} : \E row \in Edits(tariffs[i], set) :
          requests' = [requests EXCEPT ![q] =
                         [pc |-> "save", id |-> i, row |-> row, set |-> set]]
    /\ UNCHANGED <<tariffs, paid, told, crossed>>

Changing(i, q) == {p \in Requests \ {q} : requests[p] # Idle /\ requests[p].id = i}

SaveChange(q) ==
    LET r == requests[q] IN
    /\ r # Idle
    /\ ~Duplicate(r.id, r.row)
    /\ tariffs' = [tariffs EXCEPT ![r.id] = r.row]
    /\ crossed' = IF Changing(r.id, q) # {} THEN crossed \cup {r.id} ELSE crossed
    /\ told' = [told EXCEPT ![r.id] =
                   IF r.id \in crossed' THEN r.row
                   ELSE IF r.set = "price" THEN [@ EXCEPT !.price = r.row.price]
                   ELSE [@ EXCEPT !.deleted = TRUE]]
    /\ requests' = [requests EXCEPT ![q] = Idle]
    /\ UNCHANGED paid

\* The save throws, also when the index refuses to bring a deleted tariff back.
ChangeFails(q) ==
    /\ requests[q] # Idle
    /\ requests' = [requests EXCEPT ![q] = Idle]
    /\ UNCHANGED <<tariffs, paid, told, crossed>>

----------------------------------------------------------------------------
(* PricingService.quote and the rental that pays for it *)

Quoted(minutes) ==
    {[id |-> i, minutes |-> minutes, price |-> tariffs[i].price] :
        i \in {j \in Live : tariffs[j].minutes = minutes}}

\* findForQuote takes one row of those with the key (LIMIT 1).
Pay(minutes) ==
    /\ paid = None
    /\ paid' \in Quoted(minutes)
    /\ UNCHANGED <<tariffs, requests, told, crossed>>

\* PricingService.listTariffsForKitType: what the OvertimeCalculator is given.
Bands == {[minutes |-> tariffs[i].minutes, price |-> tariffs[i].price] : i \in Live}

----------------------------------------------------------------------------
Next ==
    \/ \E i \in Ids, d \in Durations, p \in Prices : Create(i, d, p)
    \/ \E q \in Requests :
          \/ \E i \in Ids : BeginChange(q, i)
          \/ SaveChange(q)
          \/ ChangeFails(q)
    \/ \E d \in Durations : Pay(d)

Spec == Init /\ [][Next]_vars

----------------------------------------------------------------------------
(* Properties *)

\* Every variable has its type.
TypeOK ==
    /\ tariffs \in [Ids -> Tariff \cup {None}]
    /\ requests \in [Requests -> {Idle} \cup Change]
    /\ paid \in Quote \cup {None}
    /\ told \in [Ids -> Tariff \cup {None}]
    /\ crossed \subseteq Ids

\* A duration has one price, whatever PATCH read a tariff before it was deleted and
\* replaced: the index also refuses the UPDATE that would bring it back (FR-026).
OnePricePerDuration ==
    \A d \in Durations : \A x, y \in Quoted(d) : x = y

\* Until a save meets a row somebody else has read to change it, a tariff shows every
\* change that succeeded and no other: a PATCH of a deleted tariff, which findById also
\* finds, leaves it deleted, and a refused change is not made.
TariffAsTold == \A i \in Ids \ crossed : tariffs[i] = told[i]

\* As long as the tariff a rental paid is offered at the price it paid, what it pays
\* in all is the dearer of that price and that of the band its use falls in: the
\* shortest that covers it, or the longest there is.
OvertimeTopsUp ==
    paid # None /\ paid \in Quoted(paid.minutes) =>
       \A used \in paid.minutes + 1 .. LongestUse :
          \E band \in Bands :
             /\ \A other \in Bands :
                   \/ used <= band.minutes /\ (used <= other.minutes => band.minutes <= other.minutes)
                   \/ used > band.minutes /\ other.minutes <= band.minutes
             /\ LET sum == paid.price + Calculate(paid.minutes, used, Bands).surcharge
                IN  sum = IF band.price > paid.price THEN band.price ELSE paid.price

\* Where longer bands never cost less, keeping a kit longer never costs less, for a
\* rental of any duration, also one that is not offered any more.
LongerNeverCheaper ==
    (\A a, b \in Bands : a.minutes <= b.minutes => a.price <= b.price) =>
       \A d \in Durations, used \in 1 .. LongestUse - 1 :
          Calculate(d, used, Bands).surcharge <= Calculate(d, used + 1, Bands).surcharge

=============================================================================
