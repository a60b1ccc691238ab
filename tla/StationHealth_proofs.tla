------------------------ MODULE StationHealth_proofs ------------------------
(***************************************************************************)
(* Proofs about StationHealth: its types, the derived is_active, and the   *)
(* agreement of the row with the admin and with the monitor's memory as    *)
(* long as no save crosses another one's read.                             *)
(***************************************************************************)
EXTENDS StationHealth, TLAPS

\* Every copy of the row has a consistent is_active, so any of them may be saved.
CopiesEffective ==
    /\ Effective(row)
    /\ \A t \in Ticks : Effective(ticks[t].row)
    /\ \A q \in Requests : Effective(requests[q].row)

Saving == {t \in Ticks : ticks[t].pc = "saving"}

\* Without a crossing or failed save, what is in flight has read the present row: a
\* tick will save another health for the admin's intent, a PATCH another intent for
\* the monitor's health.  A tick that is alone in saving saves the memory's status.
ReadsCurrent ==
    clean =>
        /\ row.intended = asked
        /\ \A t \in Ticks :
              /\ ticks[t].pc \in {"queued", "probing"} => ticks[t].row = row
              /\ ticks[t].pc = "saving" => ticks[t].row.intended = row.intended
        /\ \A q \in Requests : requests[q].pc = "saving" => requests[q].row.health = row.health
        /\ memory # None /\ Saving = {} => memory.status = row.health
        /\ \A t \in Ticks : Saving = {t} =>
              memory # None /\ memory.status = ticks[t].row.health

\* A probe asks a controller, and its answer is a Boolean.
ProbesKnown == \A t \in Ticks : ticks[t].pc = "probing" => ticks[t].probed \in Controllers

\* Until a PATCH changes the connection settings, ticks carry those of the row.
SettingsCurrent ==
    ~moved =>
        /\ gateway # None => gateway = row.controller
        /\ \A t \in Ticks : HasRow(t) => ticks[t].row.controller = row.controller

Inv == TypeOK /\ ProbesKnown /\ CopiesEffective /\ ReadsCurrent /\ SettingsCurrent

----------------------------------------------------------------------------
(* Station and StationHealthEvaluator *)

LEMMA NewRowKind ==
    ASSUME NEW c \in Controllers
    PROVE  NewRow(c) \in Row /\ Effective(NewRow(c)) /\ NewRow(c).intended = TRUE
BY DEF NewRow, Row, Health, Effective

LEMMA IdleKinds ==
    /\ AnyController \in Controllers
    /\ IdleTick(AnyController) \in Tick /\ IdleTick(AnyController).pc = "idle"
    /\ Effective(IdleTick(AnyController).row)
    /\ IdleRequest(AnyController) \in Request /\ IdleRequest(AnyController).pc = "idle"
    /\ Effective(IdleRequest(AnyController).row)
<1>1. AnyController \in Controllers
  BY ControllersAssumption DEF AnyController
<1>2. NewRow(AnyController) \in Row /\ Effective(NewRow(AnyController))
  BY <1>1, NewRowKind
<1> QED BY <1>1, <1>2 DEF IdleTick, IdleRequest, Tick, Request

LEMMA SetActiveKeeps ==
    ASSUME NEW s \in Row, NEW v \in BOOLEAN
    PROVE  /\ SetActive(s, v) \in Row /\ Effective(SetActive(s, v))
           /\ SetActive(s, v).health = s.health
<1>1. SetActive(s, v) \in Row
  BY DEF SetActive, Row, Health
<1>2. /\ SetActive(s, v).health = s.health /\ SetActive(s, v).intended = v
      /\ SetActive(s, v).active = (v /\ s.health # "OFFLINE")
  BY DEF SetActive, Row
<1> QED BY <1>1, <1>2 DEF Effective

LEMMA TransitionKeeps ==
    ASSUME NEW s \in Row, Effective(s), NEW h \in Health
    PROVE  /\ TransitionHealth(s, h) \in Row /\ Effective(TransitionHealth(s, h))
           /\ TransitionHealth(s, h).health = h /\ TransitionHealth(s, h).intended = s.intended
           /\ TransitionHealth(s, h).controller = s.controller
<1>1. CASE s.health = h
  BY <1>1 DEF TransitionHealth
<1>2. CASE s.health # h
  <2> DEFINE n == [s EXCEPT !.health = h, !.active = s.intended /\ h # "OFFLINE"]
  <2>1. n \in Row /\ n.health = h /\ n.intended = s.intended
        /\ n.active = (s.intended /\ h # "OFFLINE") /\ n.controller = s.controller
    BY DEF Row, Health
  <2> QED BY <1>2, <2>1 DEF TransitionHealth, Effective
<1> QED BY <1>1, <1>2

LEMMA EditsKeep ==
    ASSUME NEW s \in Row, Effective(s), NEW d \in Edits(s), NEW c \in Controllers
    PROVE  /\ [d EXCEPT !.controller = c] \in Row
           /\ Effective([d EXCEPT !.controller = c])
           /\ [d EXCEPT !.controller = c].health = s.health
<1> DEFINE n == [d EXCEPT !.controller = c]
<1>1. d \in Row /\ Effective(d) /\ d.health = s.health
  BY SetActiveKeeps DEF Edits
<1>2. n \in Row /\ n.health = d.health /\ n.active = d.active /\ n.intended = d.intended
  BY <1>1 DEF Row
<1> QED BY <1>1, <1>2 DEF Effective

LEMMA CheckKeeps ==
    ASSUME NEW m \in Memory, NEW b \in BOOLEAN
    PROVE  OnCheckResult(m, b) \in Memory
<1>1. m.failures \in 0 .. 2 /\ m.status \in Health
  BY DEF Memory, Threshold
<1>2. CASE b
  BY <1>2 DEF OnCheckResult, Memory, Threshold, Health
<1>3. CASE ~b
  <2> DEFINE n == IF m.failures < 2 THEN m.failures + 1 ELSE 2
             st == IF n >= 2 THEN "OFFLINE" ELSE m.status
  <2>1. n \in 0 .. 2 /\ st \in Health
    BY <1>1 DEF Health
  <2>2. OnCheckResult(m, b) = [failures |-> n, status |-> st]
    BY <1>3 DEF OnCheckResult, Threshold
  <2> QED BY <2>1, <2>2 DEF Memory, Threshold
<1> QED BY <1>2, <1>3

----------------------------------------------------------------------------
(* Types, and the copies of the row *)

LEMMA InitAll == Init => Inv
<1> SUFFICES ASSUME Init PROVE Inv
  OBVIOUS
<1>1. row \in Row /\ Effective(row) /\ row.intended = TRUE
  BY NewRowKind DEF Init
<1>2. TypeOK
  BY <1>1, IdleKinds DEF Init, TypeOK
<1>3. CopiesEffective
  BY <1>1, IdleKinds DEF Init, CopiesEffective
<1>4. ReadsCurrent
  BY <1>1, IdleKinds DEF Init, ReadsCurrent, Saving
<1>5. ProbesKnown
  BY IdleKinds DEF Init, ProbesKnown
<1>6. SettingsCurrent
  BY IdleKinds DEF Init, SettingsCurrent, HasRow
<1> QED BY <1>2, <1>3, <1>4, <1>5, <1>6 DEF Inv

LEMMA EndTickFacts ==
    ASSUME TypeOK, NEW t \in Ticks, EndTick(t)
    PROVE  /\ ticks' \in [Ticks -> Tick] /\ ticks'[t].pc = "idle" /\ Effective(ticks'[t].row)
           /\ \A x \in Ticks \ {t} : ticks'[x] = ticks[x]
BY IdleKinds DEF TypeOK, EndTick

LEMMA EndRequestFacts ==
    ASSUME TypeOK, NEW q \in Requests, EndRequest(q)
    PROVE  /\ requests' \in [Requests -> Request] /\ requests'[q].pc = "idle"
           /\ Effective(requests'[q].row)
           /\ \A x \in Requests \ {q} : requests'[x] = requests[x]
BY IdleKinds DEF TypeOK, EndRequest

\* A tick that has not read the station yet, or no longer has it.
LEMMA WithoutRowStep ==
    ASSUME Inv, NEW t \in Ticks, NEW n \in Tick, Effective(n.row), n.pc \in {"idle", "listed"},
           ticks[t].pc \in {"idle", "listed"}, ticks' = [ticks EXCEPT ![t] = n],
           UNCHANGED <<row, memory, gateway, requests, suspended, up, asked, clean, moved>>
    PROVE  Inv'
<1>1. ticks' \in [Ticks -> Tick] /\ \A x \in Ticks : ticks'[x] = IF x = t THEN n ELSE ticks[x]
  BY DEF Inv, TypeOK
<1>2. TypeOK'
  BY <1>1 DEF Inv, TypeOK
<1>3. CopiesEffective' /\ ProbesKnown'
  BY <1>1 DEF Inv, CopiesEffective, ProbesKnown
<1>4. Saving' = Saving /\ \A x \in Saving : ticks'[x] = ticks[x]
  BY <1>1 DEF Saving
<1>5. ReadsCurrent'
  BY <1>1, <1>4 DEF Inv, ReadsCurrent, Saving
<1>6. SettingsCurrent'
  BY <1>1 DEF Inv, SettingsCurrent, HasRow
<1> QED BY <1>2, <1>3, <1>5, <1>6 DEF Inv

LEMMA ListOrganizationsStep == ASSUME Inv, NEW t \in Ticks, ListOrganizations(t) PROVE Inv'
<1> DEFINE n == [ticks[t] EXCEPT !.pc = "listed"]
<1>1. ticks[t] \in Tick /\ Effective(ticks[t].row)
  BY DEF Inv, TypeOK, CopiesEffective
<1>2. n \in Tick /\ n.pc = "listed" /\ n.row = ticks[t].row
  BY <1>1 DEF Tick
<1>3. ticks[t].pc = "idle" /\ ticks' = [ticks EXCEPT ![t] = n]
      /\ UNCHANGED <<row, memory, gateway, requests, suspended, up, asked, clean, moved>>
  BY DEF ListOrganizations
<1> HIDE DEF n
<1> QED BY <1>1, <1>2, <1>3, WithoutRowStep

LEMMA ReadStationStep == ASSUME Inv, NEW t \in Ticks, ReadStation(t) PROVE Inv'
<1>1. CASE ~row.intended
  <2>1. /\ ticks[t].pc = "listed" /\ ticks' = [ticks EXCEPT ![t] = IdleTick(AnyController)]
        /\ UNCHANGED <<row, memory, gateway, requests, suspended, up, asked, clean, moved>>
    BY <1>1 DEF ReadStation, EndTick
  <2> QED BY <2>1, IdleKinds, WithoutRowStep
<1>2. CASE row.intended
  <2>1. /\ ticks[t].pc = "listed"
        /\ UNCHANGED <<row, memory, gateway, requests, suspended, up, asked, clean, moved>>
        /\ ticks' = [ticks EXCEPT ![t] = [@ EXCEPT !.pc = "queued", !.row = row]]
    BY <1>2 DEF ReadStation
  <2> DEFINE n == [ticks[t] EXCEPT !.pc = "queued", !.row = row]
  <2>2. ticks[t] \in Tick /\ row \in Row
    BY DEF Inv, TypeOK
  <2>3. n \in Tick /\ n.pc = "queued" /\ n.row = row
    BY <2>2 DEF Tick
  <2>4. ticks' = [ticks EXCEPT ![t] = n]
    BY <2>1
  <2> HIDE DEF n
  <2>5. ticks' \in [Ticks -> Tick] /\ \A x \in Ticks : ticks'[x] = IF x = t THEN n ELSE ticks[x]
    BY <2>3, <2>4 DEF Inv, TypeOK
  <2>6. TypeOK'
    BY <2>1, <2>5 DEF Inv, TypeOK
  <2>7. CopiesEffective'
    BY <2>1, <2>3, <2>5 DEF Inv, CopiesEffective
  <2>8. Saving' = Saving
    BY <2>1, <2>3, <2>5 DEF Saving
  <2>9. ReadsCurrent'
    <3>1. \A x \in Ticks : x \in Saving => ticks'[x] = ticks[x]
      BY <2>1, <2>5 DEF Saving
    <3> QED BY <2>1, <2>3, <2>5, <2>8, <3>1 DEF Inv, ReadsCurrent, Saving
  <2>10. ProbesKnown'
    BY <2>1, <2>2, <2>3, <2>5 DEF Inv, ProbesKnown
  <2>11. SettingsCurrent'
    BY <2>1, <2>3, <2>5 DEF Inv, SettingsCurrent, HasRow
  <2> QED BY <2>6, <2>7, <2>9, <2>10, <2>11 DEF Inv
<1> QED BY <1>1, <1>2

LEMMA ProbeStep == ASSUME Inv, NEW t \in Ticks, Probe(t) PROVE Inv'
<1> DEFINE g == ForStation(ticks[t].row.controller)
           n == [ticks[t] EXCEPT !.pc = "probing", !.probed = g]
<1>1. /\ ticks[t].pc = "queued" /\ gateway' = g
      /\ UNCHANGED <<row, memory, requests, suspended, up, asked, clean, moved>>
      /\ ticks' = [ticks EXCEPT ![t] = n]
  BY DEF Probe
<1>2. /\ ticks[t] \in Tick /\ ticks[t].row \in Row /\ g \in Controllers
      /\ g = IF gateway = None THEN ticks[t].row.controller ELSE gateway
  BY DEF ForStation, Inv, TypeOK, Tick, Row
<1> HIDE DEF g
<1>3. n \in Tick /\ n.pc = "probing" /\ n.row = ticks[t].row /\ n.probed = g
  BY <1>2 DEF Tick
<1> HIDE DEF n
<1>5. ticks' \in [Ticks -> Tick] /\ \A x \in Ticks : ticks'[x] = IF x = t THEN n ELSE ticks[x]
  BY <1>1, <1>3 DEF Inv, TypeOK
<1>6. TypeOK'
  BY <1>1, <1>2, <1>5 DEF Inv, TypeOK
<1>7. CopiesEffective'
  BY <1>1, <1>3, <1>5 DEF Inv, CopiesEffective
<1>8. Saving' = Saving
  BY <1>1, <1>3, <1>5 DEF Saving
<1>9. ReadsCurrent'
  <2>1. \A x \in Ticks : ticks'[x].row = ticks[x].row
    BY <1>3, <1>5
  <2>2. \A x \in Ticks : /\ ticks'[x].pc \in {"queued", "probing"} => ticks[x].pc \in {"queued", "probing"}
                         /\ ticks'[x].pc = "saving" => ticks[x].pc = "saving"
    BY <1>1, <1>3, <1>5
  <2> QED BY <1>1, <1>8, <2>1, <2>2 DEF Inv, ReadsCurrent
<1>10. ProbesKnown'
  BY <1>1, <1>2, <1>3, <1>5 DEF Inv, ProbesKnown
<1>11. SettingsCurrent'
  <2>1. ~moved => g = row.controller
    BY <1>1, <1>2 DEF Inv, SettingsCurrent, HasRow
  <2> QED BY <1>1, <1>3, <1>5, <2>1 DEF Inv, SettingsCurrent, HasRow
<1> QED BY <1>6, <1>7, <1>9, <1>10, <1>11 DEF Inv

LEMMA AnswerStep == ASSUME Inv, NEW t \in Ticks, Answer(t) PROVE Inv'
<1> DEFINE s == ticks[t].row
           m == IF memory = None THEN [failures |-> 0, status |-> s.health] ELSE memory
           n == OnCheckResult(m, up[ticks[t].probed])
           u == [ticks[t] EXCEPT !.pc = "saving", !.row = TransitionHealth(s, n.status)]
<1>1. /\ ticks[t].pc = "probing" /\ memory' = n
      /\ IF n.status = m.status THEN EndTick(t) ELSE ticks' = [ticks EXCEPT ![t] = u]
      /\ UNCHANGED <<row, gateway, requests, suspended, up, asked, clean, moved>>
  BY DEF Answer
<1>2. ticks[t] \in Tick /\ s \in Row /\ Effective(s) /\ s.health \in Health
  BY DEF Inv, TypeOK, CopiesEffective, Tick, Row
<1>3. m \in Memory /\ (memory = None => m.status = s.health) /\ (memory # None => m = memory)
  <2>1. CASE memory = None
    BY <1>2, <2>1 DEF Memory, Threshold
  <2>2. CASE memory # None
    BY <2>2 DEF Inv, TypeOK
  <2> QED BY <2>1, <2>2
<1> HIDE DEF m
<1>4. n \in Memory /\ n # None /\ n.status \in Health
  <2>1. up[ticks[t].probed] \in BOOLEAN
    BY <1>1 DEF Inv, TypeOK, ProbesKnown
  <2>2. n \in Memory
    BY <1>3, <2>1, CheckKeeps
  <2> QED BY <2>2, NoneAssumption DEF Memory
<1>5. TransitionHealth(s, n.status) \in Row /\ Effective(TransitionHealth(s, n.status))
      /\ TransitionHealth(s, n.status).health = n.status
      /\ TransitionHealth(s, n.status).intended = s.intended
      /\ TransitionHealth(s, n.status).controller = s.controller
  BY <1>2, <1>4, TransitionKeeps
<1>6. /\ u \in Tick /\ u.pc = "saving" /\ Effective(u.row)
      /\ u.row.health = n.status /\ u.row.intended = s.intended
      /\ u.row.controller = s.controller
  BY <1>2, <1>5 DEF Tick
<1> HIDE DEF n, u
<1>7. PICK v \in Tick :
         /\ ticks' = [ticks EXCEPT ![t] = v] /\ Effective(v.row)
         /\ v.pc = IF n.status = m.status THEN "idle" ELSE "saving"
         /\ n.status # m.status => /\ v.row.health = n.status /\ v.row.intended = s.intended
                                   /\ v.row.controller = s.controller
  BY <1>1, <1>6, IdleKinds DEF EndTick
<1>8. ticks' \in [Ticks -> Tick] /\ \A x \in Ticks : ticks'[x] = IF x = t THEN v ELSE ticks[x]
  BY <1>7 DEF Inv, TypeOK
<1>9. TypeOK'
  BY <1>1, <1>4, <1>8 DEF Inv, TypeOK
<1>10. ProbesKnown'
  BY <1>7, <1>8 DEF Inv, ProbesKnown
<1>11. CopiesEffective'
  BY <1>1, <1>7, <1>8 DEF Inv, CopiesEffective
<1>12. ASSUME clean PROVE ReadsCurrent'
  <2>1. /\ row.intended = asked /\ s = row
        /\ \A x \in Ticks :
              /\ ticks[x].pc \in {"queued", "probing"} => ticks[x].row = row
              /\ ticks[x].pc = "saving" => ticks[x].row.intended = row.intended
        /\ \A q \in Requests : requests[q].pc = "saving" => requests[q].row.health = row.health
        /\ memory # None /\ Saving = {} => memory.status = row.health
        /\ \A x \in Ticks : Saving = {x} =>
              memory # None /\ memory.status = ticks[x].row.health
    BY <1>1, <1>12 DEF Inv, ReadsCurrent
  <2>2. CASE n.status = m.status
    <3>1. Saving' = Saving /\ \A x \in Saving : ticks'[x] = ticks[x]
      BY <1>1, <1>7, <1>8, <2>2 DEF Saving
    <3>2. Saving = {} => n.status = row.health
      BY <1>3, <2>1, <2>2
    <3>3. \A x \in Ticks : Saving = {x} => n.status = ticks[x].row.health
      BY <1>3, <2>1, <2>2
    <3> QED BY <1>1, <1>4, <1>7, <1>8, <2>1, <2>2, <3>1, <3>2, <3>3 DEF ReadsCurrent, Saving
  <2>3. CASE n.status # m.status
    <3>1. t \in Saving' /\ \A x \in Ticks : Saving' = {x} => x = t
      BY <1>7, <1>8, <2>3 DEF Saving
    <3> QED BY <1>1, <1>4, <1>7, <1>8, <2>1, <2>3, <3>1 DEF ReadsCurrent
  <2> QED BY <2>2, <2>3
<1>13. ReadsCurrent'
  BY <1>1, <1>12 DEF ReadsCurrent
<1>14. SettingsCurrent'
  BY <1>1, <1>7, <1>8 DEF Inv, SettingsCurrent, HasRow
<1> QED BY <1>9, <1>10, <1>11, <1>13, <1>14 DEF Inv

LEMMA SaveTickStep == ASSUME Inv, NEW t \in Ticks, SaveTick(t) PROVE Inv'
<1>1. /\ ticks[t].pc = "saving" /\ row' = ticks[t].row /\ EndTick(t)
      /\ clean' = (clean /\ ~Others(t, None))
      /\ UNCHANGED <<memory, gateway, requests, suspended, up, asked, moved>>
  BY DEF SaveTick
<1>2. /\ ticks' \in [Ticks -> Tick] /\ ticks'[t].pc = "idle" /\ Effective(ticks'[t].row)
      /\ \A x \in Ticks \ {t} : ticks'[x] = ticks[x]
  BY <1>1, EndTickFacts DEF Inv
<1>3. ticks[t].row \in Row /\ Effective(ticks[t].row)
  BY DEF Inv, TypeOK, Tick, CopiesEffective
<1>4. TypeOK'
  BY <1>1, <1>2, <1>3 DEF Inv, TypeOK
<1>5. ProbesKnown'
  BY <1>2 DEF Inv, ProbesKnown
<1>6. CopiesEffective'
  BY <1>1, <1>2, <1>3 DEF Inv, CopiesEffective
<1>7. ASSUME clean' PROVE ReadsCurrent'
  <2>1. clean /\ \A x \in Ticks \ {t} : ~HasRow(x)
    BY <1>1, <1>7 DEF Others, HasRow
  <2>2. \A q \in Requests : requests[q].pc = "idle"
    BY <1>1, <1>7, SlotsAssumption DEF Others, HasRow
  <2>3. Saving = {t} /\ Saving' = {}
    BY <1>1, <1>2, <2>1 DEF Saving, HasRow
  <2>4. memory.status = ticks[t].row.health /\ ticks[t].row.intended = asked
    BY <1>1, <2>1, <2>3 DEF Inv, ReadsCurrent
  <2>5. \A x \in Ticks : ticks'[x].pc \in {"idle", "listed"}
    BY <1>2, <2>1 DEF HasRow
  <2> QED BY <1>1, <2>2, <2>3, <2>4, <2>5 DEF ReadsCurrent
<1>8. SettingsCurrent'
  BY <1>1, <1>2 DEF Inv, SettingsCurrent, HasRow
<1> QED BY <1>4, <1>5, <1>6, <1>7, <1>8 DEF Inv, ReadsCurrent

LEMMA SaveTickFailsStep == ASSUME Inv, NEW t \in Ticks, SaveTickFails(t) PROVE Inv'
<1>1. /\ ticks' \in [Ticks -> Tick] /\ ticks'[t].pc = "idle" /\ Effective(ticks'[t].row)
      /\ \A x \in Ticks \ {t} : ticks'[x] = ticks[x]
  BY EndTickFacts DEF Inv, SaveTickFails
<1>2. TypeOK'
  BY <1>1 DEF SaveTickFails, Inv, TypeOK
<1>3. CopiesEffective' /\ ProbesKnown'
  BY <1>1 DEF SaveTickFails, Inv, CopiesEffective, ProbesKnown
<1>4. SettingsCurrent'
  BY <1>1 DEF SaveTickFails, Inv, SettingsCurrent, HasRow
<1> QED BY <1>2, <1>3, <1>4 DEF SaveTickFails, Inv, ReadsCurrent

LEMMA ReadForPatchStep == ASSUME Inv, NEW q \in Requests, ReadForPatch(q) PROVE Inv'
<1>1. /\ requests[q].pc = "idle" /\ UNCHANGED <<row, memory, gateway, ticks, suspended, up, asked, clean, moved>>
      /\ \E d \in Edits(row), c \in Controllers :
            requests' = [requests EXCEPT ![q] =
                           [pc |-> "saving", row |-> [d EXCEPT !.controller = c]]]
  BY DEF ReadForPatch
<1>2. PICK d \in Edits(row), c \in Controllers :
         requests' = [requests EXCEPT ![q] =
                        [pc |-> "saving", row |-> [d EXCEPT !.controller = c]]]
  BY <1>1
<1>3. row \in Row /\ Effective(row)
  BY DEF Inv, TypeOK, CopiesEffective
<1> DEFINE s == [d EXCEPT !.controller = c]
<1>4. s \in Row /\ Effective(s) /\ s.health = row.health
  BY <1>3, EditsKeep
<1> HIDE DEF s
<1> DEFINE r == [pc |-> "saving", row |-> s]
<1>5. r \in Request /\ r.row = s
  BY <1>4 DEF Request
<1> HIDE DEF r
<1>6. requests' = [requests EXCEPT ![q] = r]
  BY <1>2 DEF r, s
<1>7. /\ requests' \in [Requests -> Request]
      /\ \A x \in Requests : requests'[x] = IF x = q THEN r ELSE requests[x]
  BY <1>5, <1>6 DEF Inv, TypeOK
<1>8. TypeOK'
  BY <1>1, <1>7 DEF Inv, TypeOK
<1>9. CopiesEffective' /\ ProbesKnown'
  BY <1>1, <1>4, <1>5, <1>7 DEF Inv, CopiesEffective, ProbesKnown
<1>10. ReadsCurrent'
  BY <1>1, <1>4, <1>5, <1>7 DEF Inv, ReadsCurrent, Saving
<1>11. SettingsCurrent'
  BY <1>1 DEF Inv, SettingsCurrent, HasRow
<1> QED BY <1>8, <1>9, <1>10, <1>11 DEF Inv

LEMMA SavePatchStep == ASSUME Inv, NEW q \in Requests, SavePatch(q) PROVE Inv'
<1>1. /\ requests[q].pc = "saving" /\ row' = requests[q].row
      /\ asked' = requests[q].row.intended /\ EndRequest(q)
      /\ clean' = (clean /\ ~Others(None, q))
      /\ moved' = (moved \/ requests[q].row.controller # row.controller)
      /\ UNCHANGED <<memory, gateway, ticks, suspended, up>>
  BY DEF SavePatch
<1>2. /\ requests' \in [Requests -> Request] /\ requests'[q].pc = "idle"
      /\ Effective(requests'[q].row)
      /\ \A x \in Requests \ {q} : requests'[x] = requests[x]
  BY <1>1, EndRequestFacts DEF Inv
<1>3. requests[q].row \in Row /\ Effective(requests[q].row) /\ requests[q].row.intended \in BOOLEAN
  BY DEF Inv, TypeOK, Request, Row, CopiesEffective
<1>4. TypeOK'
  BY <1>1, <1>2, <1>3 DEF Inv, TypeOK
<1>5. CopiesEffective' /\ ProbesKnown'
  BY <1>1, <1>2, <1>3 DEF Inv, CopiesEffective, ProbesKnown
<1>6. ASSUME clean' PROVE ReadsCurrent'
  <2>1. clean /\ \A x \in Requests \ {q} : requests[x].pc = "idle"
    BY <1>1, <1>6 DEF Others, HasRow
  <2>2. \A t \in Ticks : ticks[t].pc \in {"idle", "listed"}
    BY <1>1, <1>6, SlotsAssumption DEF Others, HasRow
  <2>3. Saving = {} /\ Saving' = {}
    BY <1>1, <2>2 DEF Saving
  <2>4. /\ requests[q].row.health = row.health
        /\ memory # None => memory.status = row.health
    BY <1>1, <2>1, <2>3 DEF Inv, ReadsCurrent
  <2> QED BY <1>1, <1>2, <2>1, <2>2, <2>3, <2>4 DEF ReadsCurrent
<1>7. SettingsCurrent'
  BY <1>1 DEF Inv, SettingsCurrent, HasRow
<1> QED BY <1>4, <1>5, <1>6, <1>7 DEF Inv, ReadsCurrent

LEMMA SavePatchFailsStep == ASSUME Inv, NEW q \in Requests, SavePatchFails(q) PROVE Inv'
<1>1. /\ requests' \in [Requests -> Request] /\ requests'[q].pc = "idle"
      /\ Effective(requests'[q].row)
      /\ \A x \in Requests \ {q} : requests'[x] = requests[x]
  BY EndRequestFacts DEF Inv, SavePatchFails
<1>2. UNCHANGED <<row, memory, gateway, ticks, suspended, up, asked, clean, moved>>
  BY DEF SavePatchFails
<1>3. TypeOK'
  BY <1>1, <1>2 DEF Inv, TypeOK
<1>4. CopiesEffective' /\ ProbesKnown'
  BY <1>1, <1>2 DEF Inv, CopiesEffective, ProbesKnown
<1>5. ReadsCurrent'
  BY <1>1, <1>2 DEF Inv, ReadsCurrent, Saving
<1>6. SettingsCurrent'
  BY <1>2 DEF Inv, SettingsCurrent, HasRow
<1> QED BY <1>3, <1>4, <1>5, <1>6 DEF Inv

LEMMA EnvironmentStep ==
    ASSUME Inv, ResolveGateway \/ Suspension \/ Connectivity \/ UNCHANGED vars PROVE Inv'
<1>1. UNCHANGED <<row, memory, ticks, requests, asked, clean, moved>>
  BY DEF ResolveGateway, Suspension, Connectivity, vars
<1>2. gateway' \in Controllers \cup {None}
  BY DEF ResolveGateway, ForStation, Suspension, Connectivity, vars, Inv, TypeOK, Row
<1>3. up' \in [Controllers -> BOOLEAN] /\ suspended' \in BOOLEAN
  BY DEF ResolveGateway, Suspension, Connectivity, vars, Inv, TypeOK
<1>4. TypeOK'
  BY <1>1, <1>2, <1>3 DEF Inv, TypeOK
<1>5. CopiesEffective' /\ ProbesKnown' /\ ReadsCurrent'
  BY <1>1 DEF Inv, CopiesEffective, ProbesKnown, ReadsCurrent, Saving
<1>6. gateway' = gateway \/ gateway' = row.controller
  BY DEF ResolveGateway, ForStation, Suspension, Connectivity, vars
<1>7. SettingsCurrent'
  BY <1>1, <1>6 DEF Inv, SettingsCurrent, HasRow
<1> QED BY <1>4, <1>5, <1>7 DEF Inv

LEMMA RestartStep == ASSUME Inv, Restart PROVE Inv'
<1>1. /\ memory' = None /\ gateway' = None /\ moved' = FALSE /\ UNCHANGED <<row, suspended, up, asked, clean>>
      /\ ticks' = [t \in Ticks |-> IdleTick(AnyController)]
      /\ requests' = [q \in Requests |-> IdleRequest(AnyController)]
  BY DEF Restart
<1>2. TypeOK'
  BY <1>1, IdleKinds DEF Inv, TypeOK
<1>3. CopiesEffective' /\ ProbesKnown'
  BY <1>1, IdleKinds DEF Inv, CopiesEffective, ProbesKnown
<1>4. ReadsCurrent'
  BY <1>1, IdleKinds DEF Inv, ReadsCurrent, Saving
<1>5. SettingsCurrent'
  BY <1>1, IdleKinds DEF SettingsCurrent, HasRow
<1> QED BY <1>2, <1>3, <1>4, <1>5 DEF Inv

LEMMA InvStep == Inv /\ [Next]_vars => Inv'
BY ListOrganizationsStep, ReadStationStep, ProbeStep, AnswerStep, SaveTickStep, SaveTickFailsStep,
   ReadForPatchStep, SavePatchStep, SavePatchFailsStep, EnvironmentStep, RestartStep
   DEF Next, Monitor, Admin

----------------------------------------------------------------------------
(* Theorems *)

\* TypeOK, of the row, the monitor's memory and everything in flight.
THEOREM TypeCorrect == Spec => []TypeOK
<1>1. Inv => TypeOK
  BY DEF Inv
<1> QED BY <1>1, InitAll, InvStep, PTL DEF Spec

\* EffectiveActive: however many ticks and PATCHes save old rows over newer ones,
\* is_active is what Station derives from the intent and the health.
THEOREM ActiveIsEffective == Spec => []EffectiveActive
<1>1. Inv => EffectiveActive
  BY DEF Inv, CopiesEffective, EffectiveActive
<1> QED BY <1>1, InitAll, InvStep, PTL DEF Spec

\* CleanStateAgrees: without failed and crossing saves, the row keeps the admin's last
\* word and, between checks, the health the evaluator remembers.
THEOREM CleanAgrees == Spec => []CleanStateAgrees
<1>1. Inv => CleanStateAgrees
  BY DEF Inv, ReadsCurrent, Saving, CleanStateAgrees
<1> QED BY <1>1, InitAll, InvStep, PTL DEF Spec

\* GatewayOfRow: until a PATCH changes the connection settings, the cached gateway is
\* the one of the row.
THEOREM GatewayIsOfRow == Spec => []GatewayOfRow
<1>1. Inv => GatewayOfRow
  BY DEF Inv, SettingsCurrent, GatewayOfRow
<1> QED BY <1>1, InitAll, InvStep, PTL DEF Spec

----------------------------------------------------------------------------
(* FR-010, and the one way to break it *)

\* While a PATCH is under way, no health check has the station it read.
ChecksWait ==
    (\E q \in Requests : requests[q].pc # "idle") => \A t \in Ticks : ~HasRow(t)

\* The row has the admin's last word, and every tick has read it.
WordKept ==
    /\ row.intended = asked
    /\ \A t \in Ticks : HasRow(t) => ticks[t].row.intended = asked

\* A step of tick t leaves the word in the other ticks and in the row.
LEMMA TickKeepsWord ==
    ASSUME TypeOK, WordKept, NEW t \in Ticks, NEW k \in Tick,
           ticks' = [ticks EXCEPT ![t] = k],
           k.pc \in {"queued", "probing", "saving"} => k.row.intended = asked,
           row'.intended = asked, UNCHANGED asked
    PROVE  WordKept'
<1>1. ASSUME NEW x \in Ticks, ticks'[x].pc \notin {"idle", "listed"}
      PROVE  ticks'[x].row.intended = asked
  BY <1>1 DEF TypeOK, Tick, WordKept, HasRow
<1> QED BY <1>1 DEF WordKept, HasRow

LEMMA WordStep == Inv /\ WordKept /\ ChecksWait /\ [Next]_vars => WordKept'
<1> SUFFICES ASSUME Inv, WordKept, ChecksWait, [Next]_vars PROVE WordKept'
  OBVIOUS
<1>0. TypeOK /\ row.intended = asked
  BY DEF Inv, WordKept
<1>1. ASSUME NEW t \in Ticks, Monitor(t) PROVE WordKept'
  <2> DEFINE k == ticks[t]
  <2>0. k \in Tick /\ UNCHANGED asked /\ (HasRow(t) => k.row.intended = asked)
    BY <1>0, <1>1 DEF TypeOK, WordKept, Monitor, ListOrganizations, ReadStation, Probe, Answer, SaveTick, SaveTickFails
  <2>1. CASE ListOrganizations(t)
    <3> DEFINE n == [k EXCEPT !.pc = "listed"]
    <3>1. n \in Tick /\ n.pc = "listed"
      BY <2>0 DEF Tick
    <3>2. ticks' = [ticks EXCEPT ![t] = n] /\ row' = row
      BY <2>1 DEF ListOrganizations
    <3> HIDE DEF n, k
    <3> QED BY <1>0, <2>0, <3>1, <3>2, TickKeepsWord
  <2>2. CASE ReadStation(t) /\ ~row.intended
    <3>1. ticks' = [ticks EXCEPT ![t] = IdleTick(AnyController)] /\ row' = row
      BY <2>2 DEF ReadStation, EndTick
    <3> QED BY <1>0, <2>0, <3>1, IdleKinds, TickKeepsWord
  <2>3. CASE ReadStation(t) /\ row.intended
    <3>1. [k EXCEPT !.pc = "queued", !.row = row] \in Tick
      BY <1>0, <2>0 DEF Tick, TypeOK
    <3>2. [k EXCEPT !.pc = "queued", !.row = row].row = row
      BY <2>0 DEF Tick
    <3> HIDE DEF k
    <3>3. ticks' = [ticks EXCEPT ![t] = [k EXCEPT !.pc = "queued", !.row = row]]
      BY <2>3 DEF ReadStation, k
    <3> QED BY <1>0, <2>0, <2>3, <3>1, <3>2, <3>3, TickKeepsWord DEF ReadStation
  <2>4. CASE Probe(t)
    <3> DEFINE g == ForStation(k.row.controller)
               n == [k EXCEPT !.pc = "probing", !.probed = g]
    <3>1. g \in Controllers
      BY <1>0, <2>0 DEF ForStation, TypeOK, Tick, Row
    <3>2. n \in Tick /\ n.row = k.row
      BY <2>0, <3>1 DEF Tick
    <3>3. ticks' = [ticks EXCEPT ![t] = n]
      BY <2>4 DEF Probe
    <3>4. k.row.intended = asked
      BY <2>0, <2>4 DEF Probe, HasRow
    <3>5. UNCHANGED row
      BY <2>4 DEF Probe
    <3> HIDE DEF n, k
    <3> QED BY <1>0, <2>0, <3>2, <3>3, <3>4, <3>5, TickKeepsWord
  <2>5. CASE Answer(t)
    <3>1. k.row.intended = asked /\ row' = row
      BY <2>0, <2>5 DEF Answer, HasRow
    <3>2. CASE EndTick(t)
      BY <1>0, <2>0, <3>1, <3>2, IdleKinds, TickKeepsWord DEF EndTick
    <3>3. CASE ~EndTick(t)
      <4>1. PICK m, h : /\ m = IF memory = None THEN [failures |-> 0, status |-> k.row.health] ELSE memory
                        /\ h = OnCheckResult(m, up[k.probed]).status
                        /\ ticks' = [ticks EXCEPT ![t] =
                              [@ EXCEPT !.pc = "saving", !.row = TransitionHealth(k.row, h)]]
        BY <2>5, <3>3 DEF Answer
      <4>2. k.row \in Row /\ Effective(k.row)
        BY <2>0 DEF Tick, Inv, CopiesEffective
      <4>3. m.status \in Health
        BY <1>0, <4>1, <4>2 DEF TypeOK, Memory, Row
      <4>4. h \in Health
        BY <4>1, <4>3 DEF OnCheckResult, Health
      <4>5. TransitionHealth(k.row, h) \in Row /\ TransitionHealth(k.row, h).intended = asked
        BY <3>1, <4>2, <4>4, TransitionKeeps
      <4> DEFINE n == [k EXCEPT !.pc = "saving", !.row = TransitionHealth(k.row, h)]
      <4>6. n \in Tick /\ n.row = TransitionHealth(k.row, h)
        BY <2>0, <4>5 DEF Tick
      <4>7. ticks' = [ticks EXCEPT ![t] = n]
        BY <4>1
      <4> HIDE DEF n, k
      <4> QED BY <1>0, <2>0, <3>1, <4>5, <4>6, <4>7, TickKeepsWord
    <3> QED BY <3>2, <3>3
  <2>6. CASE SaveTick(t)
    <3>1. row'.intended = asked
      BY <2>0, <2>6 DEF SaveTick, HasRow
    <3> QED BY <1>0, <2>0, <2>6, <3>1, IdleKinds, TickKeepsWord DEF SaveTick, EndTick
  <2>7. CASE SaveTickFails(t)
    BY <1>0, <2>0, <2>7, IdleKinds, TickKeepsWord DEF SaveTickFails, EndTick
  <2> QED BY <1>1, <2>1, <2>2, <2>3, <2>4, <2>5, <2>6, <2>7 DEF Monitor
<1>2. ASSUME NEW q \in Requests, SavePatch(q) PROVE WordKept'
  <2>1. \A t \in Ticks : ~HasRow(t)
    BY <1>2 DEF SavePatch, ChecksWait
  <2> QED BY <1>2, <2>1 DEF SavePatch, WordKept, HasRow
<1>3. CASE Restart
  BY <1>3, IdleKinds DEF Restart, WordKept, HasRow
<1>4. CASE UNCHANGED <<row, ticks, asked>>
  BY <1>4 DEF WordKept, HasRow
<1> QED BY <1>1, <1>2, <1>3, <1>4 DEF Next, Admin, ReadForPatch, SavePatchFails, ResolveGateway,
           Suspension, Connectivity, vars

\* FR-010 needs one thing the code does not do: as long as no health check has a
\* station it read while a PATCH is under way, the row keeps what the admin set last,
\* however the checks overlap each other and whatever saves fail.
THEOREM IntentIfChecksWait == Spec /\ []ChecksWait => [](row.intended = asked)
<1> DEFINE Kept == row.intended = asked
<1>1. Init => WordKept
  BY IdleKinds, NewRowKind DEF Init, WordKept, HasRow
<1>2. WordKept => Kept
  BY DEF WordKept
<1> HIDE DEF Kept
<1>3. Spec /\ []ChecksWait => []Kept
  BY <1>1, <1>2, WordStep, InitAll, InvStep, PTL DEF Spec
<1> QED BY <1>3 DEF Kept

=============================================================================
