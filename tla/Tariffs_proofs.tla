--------------------------- MODULE Tariffs_proofs ---------------------------
(***************************************************************************)
(* Proofs about Tariffs: its types, one price per duration, that only a    *)
(* save over somebody's read loses a change, and what the overtime         *)
(* calculator asks for.                                                    *)
(***************************************************************************)
EXTENDS Tariffs, FiniteSetTheorems, WellFoundedInduction, TLAPS

\* A change in flight is about a row, and a row that was created was told.
InFlightOK ==
    /\ \A q \in Requests : requests[q] # Idle => tariffs[requests[q].id] # None
    /\ \A i \in Ids : tariffs[i] = None <=> told[i] = None

\* The live rows have different durations.
Unique == \A i, j \in Live : tariffs[i].minutes = tariffs[j].minutes => i = j

\* Of a row nobody saved over a read, every read in flight still is the row: what
\* will be saved differs from it in the column the request sets.
ReadsCurrent ==
    \A i \in Ids \ crossed :
        /\ tariffs[i] = told[i]
        /\ \A q \in Requests : requests[q] # Idle /\ requests[q].id = i =>
              /\ requests[q].set = "price" =>
                    requests[q].row = [tariffs[i] EXCEPT !.price = requests[q].row.price]
              /\ requests[q].set = "deletedAt" =>
                    requests[q].row = [tariffs[i] EXCEPT !.deleted = TRUE]

Types == TypeOK /\ InFlightOK

LEMMA Kinds ==
    /\ Idle \notin Change /\ None \notin Tariff
    /\ \A r \in Change : r.id \in Ids /\ r.row \in Tariff /\ r.set \in {"price", "deletedAt"}
BY NoneAssumption DEF Idle, Change

LEMMA EditKinds ==
    ASSUME NEW row \in Tariff, NEW set \in {"price", "deletedAt"}, NEW edit \in Edits(row, set)
    PROVE  /\ edit \in Tariff /\ edit.minutes = row.minutes
           /\ set = "price" => edit = [row EXCEPT !.price = edit.price]
           /\ set = "deletedAt" => edit = [row EXCEPT !.deleted = TRUE]
BY DEF Edits, Tariff

LEMMA InitAll == Init => Types /\ Unique /\ ReadsCurrent
<1> SUFFICES ASSUME Init PROVE Types /\ Unique /\ ReadsCurrent
  OBVIOUS
<1>1. TypeOK
  BY DEF Init, TypeOK
<1>2. InFlightOK /\ ReadsCurrent
  BY DEF Init, InFlightOK, ReadsCurrent
<1>3. Unique
  BY DEF Init, Unique, Live
<1> QED BY <1>1, <1>2, <1>3 DEF Types

LEMMA CreateStep ==
    ASSUME Types, NEW i \in Ids, NEW d \in Durations, NEW p \in Prices, Create(i, d, p)
    PROVE  Types' /\ (Unique => Unique') /\ (ReadsCurrent => ReadsCurrent')
<1> DEFINE row == [minutes |-> d, price |-> p, deleted |-> FALSE]
<1>a. row \in Tariff /\ row.minutes = d /\ row.deleted = FALSE
  BY DEF Tariff
<1>2. /\ tariffs[i] = None /\ ~Duplicate(i, row)
      /\ tariffs' = [tariffs EXCEPT ![i] = row] /\ told' = [told EXCEPT ![i] = row]
      /\ UNCHANGED <<requests, paid, crossed>>
  BY DEF Create
<1> HIDE DEF row
<1>1. row \in Tariff /\ row # None /\ row.minutes = d /\ row.deleted = FALSE
  BY <1>a, Kinds
<1>3. TypeOK'
  BY <1>1, <1>2 DEF Types, TypeOK
<1>4. InFlightOK'
  BY <1>1, <1>2 DEF Types, TypeOK, InFlightOK
<1>5. ASSUME Unique PROVE Unique'
  <2>1. \A j \in Live : tariffs[j].minutes # d
    BY <1>1, <1>2 DEF Duplicate, Live
  <2>2. \A j \in Live' : j # i => j \in Live /\ tariffs'[j] = tariffs[j]
    BY <1>2 DEF Live, Types, TypeOK
  <2>3. tariffs'[i].minutes = d
    BY <1>1, <1>2 DEF Types, TypeOK
  <2>4. ASSUME NEW j \in Live', NEW k \in Live', tariffs'[j].minutes = tariffs'[k].minutes
        PROVE  j = k
    BY <1>5, <2>1, <2>2, <2>3, <2>4 DEF Unique
  <2> QED BY <2>4 DEF Unique
<1>6. ASSUME ReadsCurrent PROVE ReadsCurrent'
  BY <1>2, <1>6, Kinds DEF ReadsCurrent, Types, TypeOK, InFlightOK
<1> QED BY <1>3, <1>4, <1>5, <1>6 DEF Types

LEMMA BeginChangeStep ==
    ASSUME Types, NEW q \in Requests, NEW i \in Ids, BeginChange(q, i)
    PROVE  Types' /\ (Unique => Unique') /\ (ReadsCurrent => ReadsCurrent')
<1>1. PICK set \in {"price", "deletedAt"} : \E row \in Edits(tariffs[i], set) :
         requests' = [requests EXCEPT ![q] =
                        [pc |-> "save", id |-> i, row |-> row, set |-> set]]
  BY DEF BeginChange
<1>2. PICK row \in Edits(tariffs[i], set) :
         requests' = [requests EXCEPT ![q] =
                        [pc |-> "save", id |-> i, row |-> row, set |-> set]]
  BY <1>1
<1>3. tariffs[i] \in Tariff /\ tariffs[i] # None /\ UNCHANGED <<tariffs, paid, told, crossed>>
  BY DEF BeginChange, Types, TypeOK
<1>4. /\ row \in Tariff
      /\ set = "price" => row = [tariffs[i] EXCEPT !.price = row.price]
      /\ set = "deletedAt" => row = [tariffs[i] EXCEPT !.deleted = TRUE]
  BY <1>3, EditKinds
<1> DEFINE r == [pc |-> "save", id |-> i, row |-> row, set |-> set]
<1>5. r \in Change /\ r.id = i /\ r.row = row /\ r.set = set
  BY <1>4 DEF Change
<1>6. requests' = [requests EXCEPT ![q] = r]
  BY <1>2
<1> HIDE DEF r
<1>7. /\ requests' \in [Requests -> {Idle} \cup Change]
      /\ \A p \in Requests : requests'[p] = IF p = q THEN r ELSE requests[p]
  BY <1>5, <1>6 DEF Types, TypeOK
<1>8. Types'
  BY <1>3, <1>5, <1>7 DEF Types, TypeOK, InFlightOK
<1>9. Unique => Unique'
  BY <1>3 DEF Unique, Live
<1>10. ASSUME ReadsCurrent PROVE ReadsCurrent'
  <2>1. ASSUME NEW j \in Ids \ crossed, NEW p \in Requests, requests'[p] # Idle, requests'[p].id = j
        PROVE  /\ requests'[p].set = "price" =>
                     requests'[p].row = [tariffs[j] EXCEPT !.price = requests'[p].row.price]
               /\ requests'[p].set = "deletedAt" =>
                     requests'[p].row = [tariffs[j] EXCEPT !.deleted = TRUE]
    <3>1. CASE p = q
      BY <1>4, <1>5, <1>7, <2>1, <3>1
    <3>2. CASE p # q
      BY <1>7, <1>10, <2>1, <3>2 DEF ReadsCurrent
    <3> QED BY <3>1, <3>2
  <2> QED BY <1>3, <1>10, <2>1 DEF ReadsCurrent
<1> QED BY <1>8, <1>9, <1>10

LEMMA SaveChangeStep ==
    ASSUME Types, NEW q \in Requests, SaveChange(q)
    PROVE  Types' /\ (Unique => Unique') /\ (ReadsCurrent => ReadsCurrent')
<1> DEFINE r == requests[q]
           i == r.id
           undone == IF r.set = "price" THEN [told[i] EXCEPT !.price = r.row.price]
                     ELSE [told[i] EXCEPT !.deleted = TRUE]
<1>1. /\ r # Idle /\ ~Duplicate(i, r.row)
      /\ tariffs' = [tariffs EXCEPT ![i] = r.row]
      /\ requests' = [requests EXCEPT ![q] = Idle]
      /\ crossed' = IF Changing(i, q) # {} THEN crossed \cup {i} ELSE crossed
      /\ told' = [told EXCEPT ![i] = IF i \in crossed' THEN r.row ELSE undone]
      /\ UNCHANGED paid
  BY DEF SaveChange
<1>2. r \in Change /\ i \in Ids /\ r.row \in Tariff /\ r.row # None
  BY <1>1, Kinds DEF Types, TypeOK
<1>3. told[i] \in Tariff /\ tariffs[i] \in Tariff
  BY <1>1, <1>2 DEF Types, TypeOK, InFlightOK
<1>a. undone \in Tariff
  BY <1>2, <1>3 DEF Tariff
<1>5. /\ \A j \in Ids : tariffs'[j] = IF j = i THEN r.row ELSE tariffs[j]
      /\ \A j \in Ids : told'[j] = IF j = i THEN (IF i \in crossed' THEN r.row ELSE undone)
                                   ELSE told[j]
      /\ \A p \in Requests : requests'[p] = IF p = q THEN Idle ELSE requests[p]
  BY <1>1, <1>2 DEF Types, TypeOK
<1> HIDE DEF undone
<1>4. undone \in Tariff /\ undone # None
  BY <1>a, Kinds
<1>6. TypeOK'
  BY <1>1, <1>2, <1>4 DEF Types, TypeOK
<1>7. InFlightOK'
  <2>1. \A j \in Ids : tariffs'[j] = None <=> told'[j] = None
    <3>1. tariffs'[i] # None /\ told'[i] # None
      BY <1>2, <1>4, <1>5
    <3> QED BY <1>5, <3>1 DEF Types, InFlightOK
  <2>2. ASSUME NEW p \in Requests, requests'[p] # Idle PROVE tariffs'[requests'[p].id] # None
    <3>1. requests'[p] = requests[p] /\ requests[p] # Idle
      BY <1>5, <2>2
    <3>2. requests[p].id \in Ids /\ tariffs[requests[p].id] # None
      BY <3>1, Kinds DEF Types, TypeOK, InFlightOK
    <3> QED BY <1>2, <1>5, <3>1, <3>2
  <2> QED BY <2>1, <2>2 DEF InFlightOK
<1>8. ASSUME Unique PROVE Unique'
  <2>1. \A j \in Live' : j # i => j \in Live /\ tariffs'[j] = tariffs[j]
    BY <1>5 DEF Live
  <2>2. i \in Live' => \A j \in Live \ {i} : tariffs[j].minutes # tariffs'[i].minutes
    BY <1>1, <1>2, <1>5 DEF Live, Duplicate
  <2>3. ASSUME NEW j \in Live', NEW k \in Live', tariffs'[j].minutes = tariffs'[k].minutes
        PROVE  j = k
    BY <1>8, <2>1, <2>2, <2>3 DEF Unique
  <2> QED BY <2>3 DEF Unique
<1>9. ASSUME ReadsCurrent PROVE ReadsCurrent'
  <2>1. CASE i \in crossed'
    BY <1>1, <1>5, <1>9, <2>1 DEF ReadsCurrent
  <2>2. CASE i \notin crossed'
    <3>1. i \notin crossed /\ crossed' = crossed /\ Changing(i, q) = {}
      BY <1>1, <2>2
    <3>2. \A p \in Requests : requests'[p] # Idle => requests'[p] = requests[p] /\ requests[p].id # i
      BY <1>5, <3>1 DEF Changing
    <3>3. /\ tariffs[i] = told[i]
          /\ r.set = "price" => r.row = [tariffs[i] EXCEPT !.price = r.row.price]
          /\ r.set = "deletedAt" => r.row = [tariffs[i] EXCEPT !.deleted = TRUE]
      BY <1>1, <1>2, <1>9, <3>1 DEF ReadsCurrent
    <3>4. undone = r.row
      BY <1>2, <3>3, Kinds DEF undone
    <3> QED BY <1>5, <1>9, <3>1, <3>2, <3>4 DEF ReadsCurrent
  <2> QED BY <2>1, <2>2
<1> QED BY <1>6, <1>7, <1>8, <1>9 DEF Types

LEMMA ChangeFailsStep ==
    ASSUME Types, NEW q \in Requests, ChangeFails(q)
    PROVE  Types' /\ (Unique => Unique') /\ (ReadsCurrent => ReadsCurrent')
<1>1. \A p \in Requests : requests'[p] = IF p = q THEN Idle ELSE requests[p]
  BY DEF ChangeFails, Types, TypeOK
<1>2. Types'
  BY <1>1 DEF ChangeFails, Types, TypeOK, InFlightOK
<1>3. Unique => Unique'
  BY DEF ChangeFails, Unique, Live
<1>4. ReadsCurrent => ReadsCurrent'
  BY <1>1 DEF ChangeFails, ReadsCurrent
<1> QED BY <1>2, <1>3, <1>4

LEMMA PayStep ==
    ASSUME Types, NEW d \in Durations, Pay(d)
    PROVE  Types' /\ (Unique => Unique') /\ (ReadsCurrent => ReadsCurrent')
<1>1. Quoted(d) \subseteq Quote
  BY DEF Quoted, Quote, Live, Types, TypeOK, Tariff
<1>2. Types'
  BY <1>1 DEF Pay, Types, TypeOK, InFlightOK
<1> QED BY <1>2 DEF Pay, Unique, Live, ReadsCurrent

LEMMA Step ==
    ASSUME Types, [Next]_vars
    PROVE  Types' /\ (Unique => Unique') /\ (ReadsCurrent => ReadsCurrent')
<1>1. CASE UNCHANGED vars
  BY <1>1 DEF vars, Types, TypeOK, InFlightOK, Unique, Live, ReadsCurrent
<1> QED BY <1>1, CreateStep, BeginChangeStep, SaveChangeStep, ChangeFailsStep, PayStep DEF Next

\* TypeOK, of every variable.
THEOREM TypeCorrect == Spec => []TypeOK
<1>1. Types => TypeOK
  BY DEF Types
<1> QED BY <1>1, InitAll, Step, PTL DEF Spec

\* OnePricePerDuration: DuplicateTariffError keeps a quote unambiguous, whatever stale
\* rows TariffService saves.
THEOREM OnePrice == Spec => []OnePricePerDuration
<1>1. Unique => OnePricePerDuration
  BY DEF Unique, OnePricePerDuration, Quoted, Live
<1> QED BY <1>1, InitAll, Step, PTL DEF Spec

\* TariffAsTold: without a save over somebody's read no change of a tariff is lost and
\* none is made that was refused, for any number of tariffs and requests.
THEOREM AsTold == Spec => []TariffAsTold
<1>1. ReadsCurrent => TariffAsTold
  BY DEF ReadsCurrent, TariffAsTold
<1> QED BY <1>1, InitAll, Step, PTL DEF Spec

----------------------------------------------------------------------------
(* The overtime calculator, for every set of bands *)

\* A set of positions has a least one: the shortest initial part of it that ends in it.
LEMMA LeastExists ==
    ASSUME NEW n \in Nat, NEW S \in SUBSET (1 .. n), S # {}
    PROVE  Min(S) \in S /\ \A y \in S : Min(S) <= y
<1> DEFINE UpTo(k) == S \cap 1 .. k
           Initials == {T \in SUBSET S : \E k \in S : T = UpTo(k)}
<1>1. IsFiniteSet(S)
  <2>1. IsFiniteSet(1 .. n)
    BY FS_Interval
  <2> QED BY <2>1, FS_Subset
<1>2. IsWellFoundedOn(StrictSubsetOrdering(S), SUBSET S)
  BY <1>1, FS_StrictSubsetOrderingWellFounded, FS_FiniteSubsetsOfFinite
<1>3. Initials \subseteq SUBSET S /\ Initials # {}
  OBVIOUS
<1>4. PICK T \in Initials : \A U \in Initials : ~(<<U, T>> \in StrictSubsetOrdering(S))
  <2> HIDE DEF Initials
  <2> QED BY <1>2, <1>3, WFMin
<1>5. PICK k \in S : T = UpTo(k)
  BY <1>4
<1>6. ASSUME NEW y \in S PROVE k <= y
  <2> SUFFICES ASSUME y < k PROVE FALSE
    OBVIOUS
  <2>1. UpTo(y) \in Initials
    OBVIOUS
  <2>2. UpTo(y) \subseteq T /\ k \in T /\ k \notin UpTo(y)
    BY <1>5
  <2>3. <<UpTo(y), T>> \in StrictSubsetOrdering(S)
    BY <2>2, <1>5 DEF StrictSubsetOrdering
  <2> QED BY <2>1, <2>3, <1>4
<1> QED BY <1>6 DEF Min

\* The position at which the loop over the sorted bands returns, or 0.
FirstCovering(used, s) == SelectInSeq(s, LAMBDA b : used <= b.minutes)

LEMMA SelectsFirst ==
    ASSUME NEW n \in Nat, NEW s, Len(s) = n, NEW used
    PROVE  LET k == FirstCovering(used, s)
           IN  \/ k = 0 /\ \A i \in 1 .. n : ~(used <= s[i].minutes)
               \/ /\ k \in 1 .. n /\ used <= s[k].minutes
                  /\ \A i \in 1 .. n : used <= s[i].minutes => k <= i
<1> DEFINE I == {i \in 1 .. n : used <= s[i].minutes}
<1>1. FirstCovering(used, s) = IF I # {} THEN Min(I) ELSE 0
  BY DEF FirstCovering, SelectInSeq
<1>2. I \in SUBSET (1 .. n)
  OBVIOUS
<1> QED BY <1>1, <1>2, LeastExists

\* What the calculator is given: finitely many bands, no two of the same length.
BandSet(S) ==
    /\ IsFiniteSet(S)
    /\ \A b \in S : b.minutes \in Nat
    /\ \A a, b \in S : a.minutes = b.minutes => a = b

\* Their number is the place of b when the bands are sorted.
UpToBand(S, b) == {a \in S : a.minutes <= b.minutes}

LEMMA SizesOrdered ==
    ASSUME NEW S, BandSet(S), NEW a \in S, NEW b \in S, a.minutes <= b.minutes
    PROVE  /\ Cardinality(UpToBand(S, a)) <= Cardinality(UpToBand(S, b))
           /\ Cardinality(UpToBand(S, a)) = Cardinality(UpToBand(S, b)) => a = b
           /\ Cardinality(UpToBand(S, b)) \in 1 .. Cardinality(S)
<1>1. /\ UpToBand(S, b) \in SUBSET S /\ UpToBand(S, a) \in SUBSET UpToBand(S, b)
      /\ b \in UpToBand(S, b)
  BY DEF UpToBand, BandSet
<1>2. /\ IsFiniteSet(S) /\ IsFiniteSet(UpToBand(S, b))
      /\ Cardinality(UpToBand(S, b)) <= Cardinality(S)
  BY <1>1, FS_Subset DEF BandSet
<1>3. /\ Cardinality(UpToBand(S, a)) <= Cardinality(UpToBand(S, b))
      /\ Cardinality(UpToBand(S, b)) = Cardinality(UpToBand(S, a)) => UpToBand(S, b) = UpToBand(S, a)
  BY <1>1, <1>2, FS_Subset
<1>4. UpToBand(S, b) = UpToBand(S, a) => a = b
  <2> SUFFICES ASSUME UpToBand(S, b) = UpToBand(S, a) PROVE a = b
    OBVIOUS
  <2>1. b.minutes <= a.minutes
    BY <1>1 DEF UpToBand
  <2> QED BY <2>1 DEF BandSet
<1>5. Cardinality(UpToBand(S, b)) \in Nat /\ Cardinality(UpToBand(S, b)) # 0
  BY <1>1, <1>2, FS_CardinalityType, FS_EmptySet
<1>6. Cardinality(S) \in Nat
  BY <1>2, FS_CardinalityType
<1> QED BY <1>2, <1>3, <1>4, <1>5, <1>6

\* There is a sorted order: the inverse of the places.
LEMMA OrderExists ==
    ASSUME NEW S, BandSet(S)
    PROVE  \E s \in SetToSeqs(S) : \A i, j \in DOMAIN s : i < j => s[i].minutes <= s[j].minutes
<1> DEFINE n == Cardinality(S)
           place == [b \in S |-> Cardinality(UpToBand(S, b))]
<1>0. n \in Nat
  BY FS_CardinalityType DEF BandSet
<1>1. place \in [S -> 1 .. n]
  BY SizesOrdered DEF BandSet
<1>2. \A a, b \in S : place[a] = place[b] => a = b
  <2> TAKE a, b \in S
  <2>1. a.minutes <= b.minutes \/ b.minutes <= a.minutes
    BY DEF BandSet
  <2> QED BY <2>1, SizesOrdered
<1>3. place \in Injection(S, 1 .. n)
  BY <1>1, <1>2 DEF Injection, IsInjective
<1>4. IsFiniteSet(1 .. n) /\ Cardinality(1 .. n) = n
  BY <1>0, FS_Interval
<1>5. place \in Surjection(S, 1 .. n)
  BY <1>3, <1>4, FS_Injection
<1>6. \A i \in 1 .. n : \E b \in S : place[b] = i
  BY <1>5 DEF Surjection
<1> DEFINE s == [i \in 1 .. n |-> CHOOSE b \in S : place[b] = i]
<1>7. \A i \in 1 .. n : s[i] \in S /\ place[s[i]] = i
  <2> HIDE DEF place
  <2> QED BY <1>6
<1>8. s \in SetToSeqs(S)
  <2>1. s \in [1 .. n -> S]
    <3> HIDE DEF place
    <3> QED BY <1>6
  <2> HIDE DEF s, place
  <2> QED BY <1>7, <2>1 DEF SetToSeqs
<1>9. ASSUME NEW i \in 1 .. n, NEW j \in 1 .. n, i < j PROVE s[i].minutes <= s[j].minutes
  <2>0. s[i] \in S /\ s[j] \in S /\ place[s[i]] = i /\ place[s[j]] = j
    BY <1>7
  <2> HIDE DEF s
  <2> SUFFICES ASSUME s[j].minutes <= s[i].minutes PROVE FALSE
    BY <2>0 DEF BandSet
  <2> QED BY <2>0, <1>9, SizesOrdered
<1>10. DOMAIN s = 1 .. n
  OBVIOUS
<1> HIDE DEF s
<1> QED BY <1>8, <1>9, <1>10

\* The sort lists every band, the shorter ones first.
LEMMA ByMinutesSorts ==
    ASSUME NEW S, BandSet(S)
    PROVE  LET s == ByMinutes(S) n == Cardinality(S) IN
           /\ n \in Nat /\ s \in [1 .. n -> S] /\ Len(s) = n
           /\ \A i, j \in 1 .. n : i < j => s[i].minutes <= s[j].minutes
           /\ \A b \in S : \E i \in 1 .. n : s[i] = b
<1> DEFINE n == Cardinality(S)
<1>0. n \in Nat
  BY FS_CardinalityType DEF BandSet
<1>1. PICK s : s = ByMinutes(S)
  OBVIOUS
<1>2. s \in SetToSeqs(S) /\ \A i, j \in DOMAIN s : i < j => s[i].minutes <= s[j].minutes
  BY <1>1, OrderExists DEF ByMinutes
<1>3. s \in [1 .. n -> S] /\ \A i, j \in 1 .. n : i # j => s[i] # s[j]
  BY <1>2 DEF SetToSeqs
<1>4. s \in Injection(1 .. n, S)
  BY <1>3 DEF Injection, IsInjective
<1>5. IsFiniteSet(1 .. n) /\ Cardinality(1 .. n) = n /\ IsFiniteSet(S)
  BY <1>0, FS_Interval DEF BandSet
<1>6. s \in Surjection(1 .. n, S)
  BY <1>4, <1>5, FS_Injection
<1>7. Len(s) = n
  <2> HIDE DEF n
  <2> QED BY <1>0, <1>3
<1> QED BY <1>0, <1>1, <1>2, <1>3, <1>6, <1>7 DEF Surjection

\* A use is rounded up to the shortest band that covers it, or else to the longest.
LEMMA RoundUp ==
    ASSUME NEW S, BandSet(S), NEW used \in Nat
    PROVE  LET up == RoundUpToBand(used, S) IN
           /\ S = {} => up = used
           /\ S # {} => \E band \in S :
                 /\ up = band.minutes
                 /\ \A other \in S :
                      \/ used <= band.minutes /\ (used <= other.minutes => band.minutes <= other.minutes)
                      \/ used > band.minutes /\ other.minutes <= band.minutes
<1>1. PICK s, n : s = ByMinutes(S) /\ n = Cardinality(S)
  OBVIOUS
<1>2. /\ n \in Nat /\ s \in [1 .. n -> S] /\ Len(s) = n
      /\ \A i, j \in 1 .. n : i < j => s[i].minutes <= s[j].minutes
      /\ \A b \in S : \E i \in 1 .. n : s[i] = b
  BY <1>1, ByMinutesSorts
<1>3. PICK k : k = FirstCovering(used, s)
  OBVIOUS
<1>4. \/ k = 0 /\ \A i \in 1 .. n : ~(used <= s[i].minutes)
      \/ k \in 1 .. n /\ used <= s[k].minutes /\ \A i \in 1 .. n : used <= s[i].minutes => k <= i
  BY <1>2, <1>3, SelectsFirst
<1>5. RoundUpToBand(used, S) = IF s = <<>> THEN used ELSE s[IF k = 0 THEN n ELSE k].minutes
  BY <1>1, <1>2, <1>3 DEF RoundUpToBand, FirstCovering
<1>6. s = <<>> <=> n = 0
  BY <1>2
<1>7. S = {} <=> n = 0
  BY <1>1, FS_EmptySet DEF BandSet
<1>8. CASE n = 0
  BY <1>5, <1>6, <1>7, <1>8
<1>9. CASE n # 0
  <2>1. PICK m \in 1 .. n : m = IF k = 0 THEN n ELSE k
    BY <1>2, <1>4, <1>9
  <2>2. s[m] \in S /\ RoundUpToBand(used, S) = s[m].minutes
    BY <2>1, <1>2, <1>5, <1>6, <1>9
  <2>3. ASSUME NEW other \in S
        PROVE  \/ used <= s[m].minutes /\ (used <= other.minutes => s[m].minutes <= other.minutes)
               \/ used > s[m].minutes /\ other.minutes <= s[m].minutes
    <3>1. PICK i \in 1 .. n : s[i] = other
      BY <1>2
    <3>2. s[m].minutes \in Nat /\ other.minutes \in Nat
      BY <2>2 DEF BandSet
    <3>3. i <= m => other.minutes <= s[m].minutes
      BY <3>1, <3>2, <1>2, <2>1
    <3>4. m <= i => s[m].minutes <= other.minutes
      BY <3>1, <3>2, <1>2, <2>1
    <3>5. CASE k = 0
      BY <3>1, <3>2, <3>3, <3>5, <1>2, <1>4, <2>1
    <3>6. CASE k # 0
      BY <3>1, <3>2, <3>4, <3>6, <1>4, <2>1
    <3> QED BY <3>5, <3>6
  <2> QED BY <2>2, <2>3, <1>7, <1>9
<1> QED BY <1>8, <1>9, <1>2

\* The price of a band is that of the only one with its minutes.
LEMMA PriceOfBand ==
    ASSUME NEW S, BandSet(S), NEW band \in S
    PROVE  PriceOf(band.minutes, S) = band.price
<1>1. \A b \in S : b.minutes = band.minutes => b = band
  BY DEF BandSet
<1>2. PICK b : b = CHOOSE c \in S : c.minutes = band.minutes
  OBVIOUS
<1>3. b \in S /\ b.minutes = band.minutes
  BY <1>2
<1>4. b = band
  BY <1>1, <1>3
<1> QED BY <1>2, <1>4 DEF PriceOf

LEMMA PriceKind ==
    ASSUME NEW S, \A b \in S : b.price \in Nat, NEW minutes
    PROVE  PriceOf(minutes, S) \in Nat
<1>1. CASE \E b \in S : b.minutes = minutes
  <2>1. PICK b : b = CHOOSE c \in S : c.minutes = minutes
    OBVIOUS
  <2> QED BY <1>1, <2>1 DEF PriceOf
<1>2. CASE ~ \E b \in S : b.minutes = minutes
  BY <1>2 DEF PriceOf
<1> QED BY <1>1, <1>2

\* Using a kit one minute more moves the use to the same band or to a longer one.
LEMMA LongerBand ==
    ASSUME NEW S, BandSet(S), S # {}, NEW used \in Nat
    PROVE  \E a, b \in S : /\ RoundUpToBand(used, S) = a.minutes
                            /\ RoundUpToBand(used + 1, S) = b.minutes
                            /\ a.minutes <= b.minutes
<1>1. used + 1 \in Nat
  OBVIOUS
<1>2. PICK a \in S :
        /\ RoundUpToBand(used, S) = a.minutes
        /\ \A other \in S :
             \/ used <= a.minutes /\ (used <= other.minutes => a.minutes <= other.minutes)
             \/ used > a.minutes /\ other.minutes <= a.minutes
  BY RoundUp
<1>3. PICK b \in S :
        /\ RoundUpToBand(used + 1, S) = b.minutes
        /\ \A other \in S :
             \/ used + 1 <= b.minutes /\ (used + 1 <= other.minutes => b.minutes <= other.minutes)
             \/ used + 1 > b.minutes /\ other.minutes <= b.minutes
  BY <1>1, RoundUp
<1>4. a.minutes \in Nat /\ b.minutes \in Nat
  BY DEF BandSet
<1>5. a.minutes <= b.minutes
  BY <1>2, <1>3, <1>4
<1> QED BY <1>2, <1>3, <1>5

----------------------------------------------------------------------------
(* The bands the price list gives it *)

\* The table has finitely many rows, whatever Ids is: each Create adds one.
Rows == {i \in Ids : tariffs[i] # None}
FinitelyMany == IsFiniteSet(Rows)

LEMMA FiniteInit == Init => FinitelyMany
<1> SUFFICES ASSUME Init PROVE FinitelyMany
  OBVIOUS
<1>1. Rows = {}
  BY DEF Init, Rows
<1> QED BY <1>1, FS_EmptySet DEF FinitelyMany

LEMMA FiniteStep ==
    ASSUME Types, FinitelyMany, [Next]_vars
    PROVE  FinitelyMany'
<1>1. ASSUME NEW i \in Ids, NEW d \in Durations, NEW p \in Prices, Create(i, d, p)
      PROVE  FinitelyMany'
  <2>1. tariffs' = [tariffs EXCEPT ![i] = [minutes |-> d, price |-> p, deleted |-> FALSE]]
    BY <1>1 DEF Create
  <2>2. Rows' \subseteq Rows \cup {i}
    BY <2>1 DEF Rows, Types, TypeOK
  <2>3. IsFiniteSet(Rows \cup {i})
    BY FS_AddElement DEF FinitelyMany
  <2> QED BY <2>2, <2>3, FS_Subset DEF FinitelyMany
<1>2. ASSUME NEW q \in Requests, SaveChange(q)
      PROVE  FinitelyMany'
  <2>1. PICK r : r = requests[q]
    OBVIOUS
  <2>2. r # Idle /\ r.id \in Ids /\ tariffs[r.id] # None /\ tariffs' = [tariffs EXCEPT ![r.id] = r.row]
    BY <1>2, <2>1, Kinds DEF SaveChange, Types, TypeOK, InFlightOK
  <2>3. Rows' \subseteq Rows
    BY <2>2 DEF Rows, Types, TypeOK
  <2> QED BY <2>3, FS_Subset DEF FinitelyMany
<1>3. tariffs' = tariffs => FinitelyMany'
  BY DEF FinitelyMany, Rows
<1> QED BY <1>1, <1>2, <1>3 DEF Next, BeginChange, ChangeFails, Pay, vars

LEMMA BandsKind ==
    ASSUME Types, Unique, FinitelyMany
    PROVE  BandSet(Bands) /\ \A b \in Bands : b.price \in Nat
<1> DEFINE shown == [i \in Live |-> [minutes |-> tariffs[i].minutes, price |-> tariffs[i].price]]
<1>1. Live \in SUBSET Rows
  BY DEF Live, Rows
<1>2. IsFiniteSet(Live)
  BY <1>1, FS_Subset DEF FinitelyMany
<1>3. shown \in Surjection(Live, Bands)
  BY DEF Bands, Surjection
<1>4. IsFiniteSet(Bands)
  <2> HIDE DEF shown
  <2> QED BY <1>2, <1>3, FS_Surjection
<1>5. ASSUME NEW b \in Bands PROVE b.minutes \in Nat /\ b.price \in Nat
  <2>1. PICK i \in Live : b = [minutes |-> tariffs[i].minutes, price |-> tariffs[i].price]
    BY DEF Bands
  <2>2. tariffs[i] \in Tariff
    BY DEF Live, Types, TypeOK
  <2>3. tariffs[i].minutes \in Durations /\ tariffs[i].price \in Prices
    BY <2>2 DEF Tariff
  <2> QED BY <2>1, <2>3, TariffAssumption
<1>6. ASSUME NEW a \in Bands, NEW b \in Bands, a.minutes = b.minutes PROVE a = b
  <2>1. PICK i \in Live : a = [minutes |-> tariffs[i].minutes, price |-> tariffs[i].price]
    BY DEF Bands
  <2>2. PICK j \in Live : b = [minutes |-> tariffs[j].minutes, price |-> tariffs[j].price]
    BY DEF Bands
  <2>3. i = j
    BY <1>6, <2>1, <2>2 DEF Unique
  <2> QED BY <2>1, <2>2, <2>3
<1> QED BY <1>4, <1>5, <1>6 DEF BandSet

LEMMA TopsUp == Types /\ Unique /\ FinitelyMany => OvertimeTopsUp
<1> SUFFICES ASSUME Types, Unique, FinitelyMany, paid # None, paid \in Quoted(paid.minutes),
                    NEW used \in paid.minutes + 1 .. LongestUse
             PROVE  \E band \in Bands :
                      /\ \A other \in Bands :
                           \/ used <= band.minutes /\ (used <= other.minutes => band.minutes <= other.minutes)
                           \/ used > band.minutes /\ other.minutes <= band.minutes
                      /\ paid.price + Calculate(paid.minutes, used, Bands).surcharge
                            = IF band.price > paid.price THEN band.price ELSE paid.price
  BY DEF OvertimeTopsUp
<1>1. BandSet(Bands) /\ \A b \in Bands : b.price \in Nat
  BY BandsKind
<1>2. paid.minutes \in Nat /\ paid.price \in Nat
  BY TariffAssumption DEF Types, TypeOK, Quote
<1>3. used \in Nat /\ ~(used <= paid.minutes)
  BY <1>2, TariffAssumption
<1>4. PICK bought \in Bands : bought.minutes = paid.minutes /\ bought.price = paid.price
  <2>1. PICK i \in {j \in Live : tariffs[j].minutes = paid.minutes} :
          paid = [id |-> i, minutes |-> paid.minutes, price |-> tariffs[i].price]
    BY DEF Quoted
  <2>2. [minutes |-> tariffs[i].minutes, price |-> tariffs[i].price] \in Bands
    BY <2>1 DEF Bands
  <2>3. paid.price = tariffs[i].price
    BY <2>1
  <2> QED BY <2>1, <2>2, <2>3
<1>5. PICK band \in Bands :
        /\ RoundUpToBand(used, Bands) = band.minutes
        /\ \A other \in Bands :
             \/ used <= band.minutes /\ (used <= other.minutes => band.minutes <= other.minutes)
             \/ used > band.minutes /\ other.minutes <= band.minutes
  BY <1>1, <1>3, <1>4, RoundUp
<1>6. PriceOf(band.minutes, Bands) = band.price /\ PriceOf(paid.minutes, Bands) = paid.price
  BY <1>1, <1>4, PriceOfBand
<1>7. Calculate(paid.minutes, used, Bands).surcharge
        = IF band.price - paid.price < 0 THEN 0 ELSE band.price - paid.price
  BY <1>3, <1>5, <1>6 DEF Calculate
<1> QED BY <1>1, <1>2, <1>5, <1>7

LEMMA NeverCheaper == Types /\ Unique /\ FinitelyMany => LongerNeverCheaper
<1> SUFFICES ASSUME Types, Unique, FinitelyMany,
                    \A a, b \in Bands : a.minutes <= b.minutes => a.price <= b.price,
                    NEW d \in Durations, NEW used \in 1 .. LongestUse - 1
             PROVE  Calculate(d, used, Bands).surcharge <= Calculate(d, used + 1, Bands).surcharge
  BY DEF LongerNeverCheaper
<1>1. BandSet(Bands) /\ \A b \in Bands : b.price \in Nat
  BY BandsKind
<1>2. d \in Nat /\ used \in Nat
  BY TariffAssumption
<1> DEFINE Total(u) == PriceOf(RoundUpToBand(u, Bands), Bands)
           Owed(u) == IF u <= d \/ Total(u) - PriceOf(d, Bands) < 0 THEN 0
                      ELSE Total(u) - PriceOf(d, Bands)
<1>3. \A u \in Nat : Calculate(d, u, Bands).surcharge = Owed(u)
  BY DEF Calculate
<1>4. Total(used) \in Nat /\ Total(used + 1) \in Nat /\ PriceOf(d, Bands) \in Nat
  BY <1>1, PriceKind
<1>5. Total(used) <= Total(used + 1)
  <2>1. CASE Bands = {}
    BY <2>1 DEF PriceOf
  <2>2. CASE Bands # {}
    <3>1. PICK a, b \in Bands : /\ RoundUpToBand(used, Bands) = a.minutes
                                /\ RoundUpToBand(used + 1, Bands) = b.minutes
                                /\ a.minutes <= b.minutes
      BY <1>1, <1>2, <2>2, LongerBand
    <3>2. Total(used) = a.price /\ Total(used + 1) = b.price
      BY <1>1, <3>1, PriceOfBand
    <3> QED BY <3>1, <3>2
  <2> QED BY <2>1, <2>2
<1>6. Owed(used) <= Owed(used + 1)
  <2> HIDE DEF Total
  <2> QED BY <1>2, <1>4, <1>5
<1> HIDE DEF Owed
<1> QED BY <1>2, <1>3, <1>6

\* OvertimeTopsUp: OvertimeCalculator.calculate asks for what is missing to the dearer of
\* the two bands, for any list of tariffs and any use.
THEOREM ToppedUp == Spec => []OvertimeTopsUp
BY InitAll, FiniteInit, Step, FiniteStep, TopsUp, PTL DEF Spec

\* LongerNeverCheaper: the surcharge does not fall with the minutes of use.
THEOREM NotCheaper == Spec => []LongerNeverCheaper
BY InitAll, FiniteInit, Step, FiniteStep, NeverCheaper, PTL DEF Spec

----------------------------------------------------------------------------
(* What only overlapping requests can break *)

\* One PATCH or DELETE is answered before the next one is taken up; tariffs may be
\* created and quotes asked for at any time.
OneAtATime == \A p, q \in Requests : requests[p] # Idle /\ requests[q] # Idle => p = q

Uncrossed == crossed = {}

LEMMA UncrossedStep == Uncrossed /\ OneAtATime /\ [Next]_vars => Uncrossed'
<1> SUFFICES ASSUME Uncrossed, OneAtATime, [Next]_vars PROVE Uncrossed'
  OBVIOUS
<1>1. ASSUME NEW q \in Requests, SaveChange(q) PROVE Uncrossed'
  <2>1. Changing(requests[q].id, q) = {}
    BY <1>1 DEF SaveChange, Changing, OneAtATime
  <2> QED BY <1>1, <2>1 DEF SaveChange, Uncrossed
<1> QED BY <1>1 DEF Uncrossed, Next, Create, BeginChange, ChangeFails, Pay, vars

\* The price list is what the successful changes made it, and a deleted tariff stays
\* deleted, as long as changes come one after the other.
THEOREM SafeOneByOne == Spec /\ []OneAtATime => [](tariffs = told)
<1>1. Init => Uncrossed
  BY DEF Init, Uncrossed
<1>2. Types /\ ReadsCurrent /\ Uncrossed => tariffs = told
  <2>1. ReadsCurrent /\ Uncrossed => \A i \in Ids : tariffs[i] = told[i]
    BY DEF ReadsCurrent, Uncrossed
  <2>2. Types => tariffs = [i \in Ids |-> tariffs[i]] /\ told = [i \in Ids |-> told[i]]
    BY DEF Types, TypeOK
  <2> QED BY <2>1, <2>2
<1> QED BY <1>1, <1>2, UncrossedStep, InitAll, Step, PTL DEF Spec

=============================================================================
