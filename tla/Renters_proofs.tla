--------------------------- MODULE Renters_proofs ---------------------------
(***************************************************************************)
(* Proofs about Renters: its types, that a deletion sticks, that a phone   *)
(* has one renter and that a phone goes only when the retention is over,   *)
(* each up to the races Renters names.                                     *)
(***************************************************************************)
EXTENDS Renters, TLAPS

\* What is known of a change in flight: the renter is there, and of one nobody saved
\* over a read the row is what the change makes of the present one.
ChangesOK ==
    \A q \in Requests :
        requests[q].pc \in {"save", "reread"} =>
            /\ renters[requests[q].id] # None
            /\ requests[q].pc = "reread" => requests[q].kind = "anonymize"
            /\ requests[q].kind = "delete" =>
                  requests[q].row.status = "DISABLED" /\ requests[q].row.reason = "DELETION_REQUEST"

ReadsCurrent ==
    \A q \in Requests, i \in Ids \ crossed :
        requests[q].pc \in {"save", "reread"} /\ requests[q].id = i =>
            /\ requests[q].kind = "reEnable" => renters[i].reason # "DELETION_REQUEST"
            /\ requests[q].kind = "anonymize" =>
                  renters[i].status = "DISABLED" /\ year >= renters[i].given + Retention
            /\ requests[q].pc = "save" =>
                  /\ requests[q].row.phone = IF requests[q].kind = "anonymize" THEN Anonymous
                                             ELSE renters[i].phone
                  /\ requests[q].kind \in {"locale", "reConsent", "anonymize"} =>
                        /\ requests[q].row.status = renters[i].status
                        /\ requests[q].row.reason = renters[i].reason

\* Of a phone that was not registered twice at once, a registration about to be saved
\* is the first.
FirstOfPhone ==
    \A q \in Requests, i \in Ids \ crossed :
        requests[q].pc = "saveNew" /\ requests[q].phone \notin contested /\ renters[i] # None
        => renters[i].phone # requests[q].phone

AskedThere == \A i \in asked : renters[i] # None

Types == TypeOK /\ ChangesOK /\ AskedThere
Inv == Types /\ ReadsCurrent /\ FirstOfPhone /\ DeletionSticks /\ OneRenterPerPhone

----------------------------------------------------------------------------
(* Requests and rows *)

LEMMA Kinds ==
    /\ Idle \in Request /\ Idle.pc = "idle"
    /\ \A r \in Request :
          /\ r.pc \in {"findPhone", "saveNew"} =>
                r \in Registration /\ r.phone \in Phones /\ r.given \in Year
          /\ r.pc \in {"save", "reread"} =>
                r \in Change /\ r.id \in Ids /\ r.row \in Renter /\ r.kind \in Kind
BY DEF Request, Idle, Registration, Change

LEMMA ChangedFacts ==
    ASSUME year \in Year, NEW row \in Renter, NEW kind \in Kind
    PROVE  /\ Changed(row, kind) \in Renter
           /\ Changed(row, kind).phone = IF kind = "anonymize" THEN Anonymous ELSE row.phone
           /\ kind \in {"locale", "reConsent", "anonymize"} =>
                 /\ Changed(row, kind).status = row.status
                 /\ Changed(row, kind).reason = row.reason
           /\ kind = "delete" => /\ Changed(row, kind).status = "DISABLED"
                                 /\ Changed(row, kind).reason = "DELETION_REQUEST"
<1>1. CASE kind = "locale"
  BY <1>1 DEF Changed
<1>2. CASE kind = "reConsent"
  BY <1>2 DEF Changed, Renter
<1>3. CASE kind = "delete"
  BY <1>3 DEF Changed, Renter
<1>4. CASE kind = "disable"
  BY <1>4 DEF Changed, Renter
<1>5. CASE kind = "reEnable"
  BY <1>5 DEF Changed, Renter
<1>6. CASE kind = "anonymize"
  BY <1>6 DEF Changed, Renter
<1> QED BY <1>1, <1>2, <1>3, <1>4, <1>5, <1>6 DEF Kind

LEMMA RunFacts ==
    ASSUME TypeOK, NEW q \in Requests, NEW r \in Request, Run(q, r)
    PROVE  /\ requests' \in [Requests -> Request]
           /\ \A p \in Requests : requests'[p] = IF p = q THEN r ELSE requests[p]
BY DEF TypeOK, Run

LEMMA FinishFacts ==
    ASSUME TypeOK, NEW q \in Requests, Finish(q)
    PROVE  /\ requests' \in [Requests -> Request]
           /\ \A p \in Requests : requests'[p] = IF p = q THEN Idle ELSE requests[p]
BY Kinds, RunFacts DEF Finish

----------------------------------------------------------------------------
(* Steps that save nothing *)

\* The requests that are left or came are idle, as they were, or say of the tables what
\* was just read.
LEMMA ReadStep ==
    ASSUME Inv, NEW q \in Requests, NEW r \in Request,
           requests' \in [Requests -> Request],
           \A p \in Requests : requests'[p] = IF p = q THEN r ELSE requests[p],
           UNCHANGED <<renters, year, histories>>,
           r.pc = "saveNew" => ~Registered(r.phone),
           r.pc \in {"save", "reread"} =>
              /\ renters[r.id] # None
              /\ r.pc = "reread" => r.kind = "anonymize"
              /\ r.kind = "delete" => r.row.status = "DISABLED" /\ r.row.reason = "DELETION_REQUEST"
              /\ r.id \notin crossed =>
                    /\ r.kind = "reEnable" => renters[r.id].reason # "DELETION_REQUEST"
                    /\ r.kind = "anonymize" => /\ renters[r.id].status = "DISABLED"
                                               /\ year >= renters[r.id].given + Retention
                    /\ r.pc = "save" =>
                          /\ r.row.phone = IF r.kind = "anonymize" THEN Anonymous
                                           ELSE renters[r.id].phone
                          /\ r.kind \in {"locale", "reConsent", "anonymize"} =>
                                /\ r.row.status = renters[r.id].status
                                /\ r.row.reason = renters[r.id].reason
    PROVE  Inv'
<1>1. TypeOK' /\ AskedThere'
  BY DEF Inv, Types, TypeOK, AskedThere, histories
<1>2. ChangesOK'
  BY DEF Inv, Types, ChangesOK
<1>3. ReadsCurrent'
  BY DEF Inv, ReadsCurrent, histories
<1>4. FirstOfPhone'
  BY DEF Inv, FirstOfPhone, Registered, histories
<1>5. DeletionSticks' /\ OneRenterPerPhone'
  BY DEF Inv, DeletionSticks, OneRenterPerPhone, histories
<1> QED BY <1>1, <1>2, <1>3, <1>4, <1>5 DEF Inv, Types

LEMMA IdleStep ==
    ASSUME Inv, NEW q \in Requests, Finish(q), UNCHANGED <<renters, year, histories>>
    PROVE  Inv'
BY Kinds, FinishFacts, ReadStep DEF Inv, Types

LEMMA BeginRegisterStep ==
    ASSUME Inv, NEW q \in Requests, NEW p \in Phones, BeginRegister(q, p)
    PROVE  Inv'
<1> DEFINE r == [pc |-> "findPhone", phone |-> p, given |-> year]
<1>1. r \in Request /\ r.pc = "findPhone"
  BY DEF Request, Registration, Inv, Types, TypeOK
<1>2. Run(q, r) /\ UNCHANGED <<renters, year, histories>>
  BY DEF BeginRegister
<1> HIDE DEF r
<1> QED BY <1>1, <1>2, RunFacts, ReadStep DEF Inv, Types

LEMMA FindPhoneStep == ASSUME Inv, NEW q \in Requests, FindPhone(q) PROVE Inv'
<1> DEFINE r == [requests[q] EXCEPT !.pc = "saveNew", !.given = year]
<1>1. /\ requests[q].pc = "findPhone" /\ UNCHANGED <<renters, year, histories>>
      /\ Finish(q) \/ (Run(q, r) /\ ~Registered(requests[q].phone))
  BY DEF FindPhone
<1>2. requests[q] \in Registration /\ year \in Year
  BY <1>1, Kinds DEF Inv, Types, TypeOK
<1>3. r \in Request /\ r.pc = "saveNew" /\ r.phone = requests[q].phone
  BY <1>2 DEF Request, Registration
<1> HIDE DEF r
<1>4. CASE Run(q, r) /\ ~Registered(requests[q].phone)
  BY <1>1, <1>3, <1>4, RunFacts, ReadStep DEF Inv, Types
<1> QED BY <1>1, <1>4, IdleStep

LEMMA BeginChangeStep ==
    ASSUME Inv, NEW q \in Requests, NEW i \in Ids, NEW kind \in Kind, BeginChange(q, i, kind)
    PROVE  Inv'
<1> DEFINE pc == IF kind = "anonymize" THEN "reread" ELSE "save"
           row == IF kind = "anonymize" THEN renters[i] ELSE Changed(renters[i], kind)
           r == [pc |-> pc, id |-> i, kind |-> kind, row |-> row]
<1>1. /\ renters[i] # None /\ Allowed(renters[i], kind)
      /\ UNCHANGED <<renters, year, histories>>
  BY DEF BeginChange
<1>2. Run(q, r)
  BY DEF BeginChange
<1>3. renters[i] \in Renter /\ year \in Year
  BY <1>1 DEF Inv, Types, TypeOK
<1>4. row \in Renter
  BY <1>3, ChangedFacts
<1>5. kind # "anonymize" =>
         /\ row.phone = renters[i].phone
         /\ kind \in {"locale", "reConsent"} =>
               row.status = renters[i].status /\ row.reason = renters[i].reason
         /\ kind = "delete" => row.status = "DISABLED" /\ row.reason = "DELETION_REQUEST"
  BY <1>3, ChangedFacts
<1>6. (pc = "reread" <=> kind = "anonymize") /\ pc \in {"save", "reread"}
  OBVIOUS
<1> HIDE DEF pc, row
<1>7. r \in Request /\ r.pc = pc /\ r.id = i /\ r.kind = kind /\ r.row = row
  BY <1>4, <1>6 DEF Request, Change
<1> HIDE DEF r
<1>8. /\ kind = "reEnable" => renters[i].reason # "DELETION_REQUEST"
      /\ kind = "anonymize" =>
            renters[i].status = "DISABLED" /\ year >= renters[i].given + Retention
  BY <1>1 DEF Allowed, ReEnableAllowed, IsRetentionElapsed
<1>9. /\ requests' \in [Requests -> Request]
      /\ \A p \in Requests : requests'[p] = IF p = q THEN r ELSE requests[p]
  BY <1>2, <1>7, RunFacts DEF Inv, Types
<1>10. kind = "delete" => kind # "anonymize"
  OBVIOUS
<1> QED BY <1>1, <1>5, <1>6, <1>7, <1>8, <1>9, <1>10, ReadStep

LEMMA RereadStep == ASSUME Inv, NEW q \in Requests, Reread(q) PROVE Inv'
<1>1. requests[q].pc = "reread" /\ UNCHANGED <<renters, year, histories>>
  BY DEF Reread
<1>2. /\ requests[q] \in Change /\ requests[q].kind = "anonymize"
      /\ renters[requests[q].id] # None /\ requests[q].id \in Ids /\ year \in Year
  BY <1>1, Kinds DEF Inv, Types, TypeOK, ChangesOK
<1>3. PICK i \in Ids : requests[q].id = i /\ renters[i] \in Renter /\ renters[i] # None
  BY <1>2 DEF Inv, Types, TypeOK
<1> DEFINE row == Changed(renters[i], "anonymize")
           r == [requests[q] EXCEPT !.pc = "save", !.row = row]
<1>4. /\ row \in Renter /\ row.phone = Anonymous
      /\ row.status = renters[i].status /\ row.reason = renters[i].reason
  BY <1>2, <1>3, ChangedFacts DEF Kind
<1>5. Run(q, r)
  BY <1>2, <1>3 DEF Reread
<1> HIDE DEF row
<1>6. r \in Request /\ r.pc = "save" /\ r.id = i /\ r.kind = "anonymize" /\ r.row = row
  BY <1>2, <1>3, <1>4 DEF Request, Change
<1> HIDE DEF r
<1>7. i \notin crossed => renters[i].status = "DISABLED" /\ year >= renters[i].given + Retention
  BY <1>1, <1>2, <1>3 DEF Inv, ReadsCurrent
<1>8. /\ requests' \in [Requests -> Request]
      /\ \A p \in Requests : requests'[p] = IF p = q THEN r ELSE requests[p]
  BY <1>5, <1>6, RunFacts DEF Inv, Types
<1> QED BY <1>1, <1>3, <1>4, <1>6, <1>7, <1>8, ReadStep

LEMMA RestartStep == ASSUME Inv, Restart PROVE Inv'
<1>1. /\ requests' \in [Requests -> Request]
      /\ \A q \in Requests : requests'[q].pc = "idle"
      /\ UNCHANGED <<renters, year, histories>>
  BY Kinds DEF Restart
<1> QED BY <1>1 DEF Inv, Types, TypeOK, ChangesOK, AskedThere, ReadsCurrent, FirstOfPhone,
                    DeletionSticks, OneRenterPerPhone, histories

LEMMA NextYearStep == ASSUME Inv, NextYear PROVE Inv'
<1>1. year \in Year /\ year' = year + 1 /\ year' \in Year /\ UNCHANGED <<renters, requests, histories>>
  BY BoundsAssumption DEF NextYear, Inv, Types, TypeOK, Year
<1>2. TypeOK' /\ AskedThere' /\ ChangesOK'
  BY <1>1 DEF Inv, Types, TypeOK, AskedThere, ChangesOK, histories
<1>3. ASSUME NEW q \in Requests, NEW i \in Ids \ crossed, requests[q].kind = "anonymize",
             requests[q].pc \in {"save", "reread"}, requests[q].id = i
      PROVE  year' >= renters[i].given + Retention
  <2>1. year >= renters[i].given + Retention /\ renters[i] # None
    BY <1>3 DEF Inv, Types, ReadsCurrent, ChangesOK
  <2>2. renters[i].given \in Nat
    BY <2>1, BoundsAssumption DEF Inv, Types, TypeOK, Renter, Year
  <2> QED BY <1>1, <2>1, <2>2, BoundsAssumption DEF Year
<1>4. ReadsCurrent'
  BY <1>1, <1>3 DEF Inv, ReadsCurrent, histories
<1>5. FirstOfPhone' /\ DeletionSticks' /\ OneRenterPerPhone'
  BY <1>1 DEF Inv, FirstOfPhone, DeletionSticks, OneRenterPerPhone, histories
<1> QED BY <1>2, <1>4, <1>5 DEF Inv, Types

----------------------------------------------------------------------------
(* The steps that save *)

LEMMA SaveNewStep == ASSUME Inv, NEW q \in Requests, SaveNew(q) PROVE Inv'
<1>1. requests[q].pc = "saveNew" /\ requests[q] \in Request /\ Finish(q)
      /\ UNCHANGED <<year, asked, redisabled, crossed>>
  BY DEF SaveNew, Inv, Types, TypeOK
<1>2. PICK ph \in Phones, g \in Year : requests[q].phone = ph /\ requests[q].given = g
  BY <1>1, Kinds
<1> DEFINE row == [phone |-> ph, status |-> "ACTIVE", reason |-> None, given |-> g]
<1>3. PICK i \in Ids : renters[i] = None /\ renters' = [renters EXCEPT ![i] = row]
  BY <1>2 DEF SaveNew
<1>4. /\ \A p \in Requests \ {q} :
            requests[p].pc = "saveNew" /\ requests[p].phone = ph => ph \in contested'
      /\ contested \subseteq contested' /\ contested' \subseteq Phones
  BY <1>2 DEF SaveNew, Inv, Types, TypeOK
<1>5. row \in Renter /\ row.phone = ph
  BY DEF Renter
<1>6. row # None
  BY <1>5, NoneAssumption
<1> HIDE DEF row
<1>7. /\ requests' \in [Requests -> Request]
      /\ \A p \in Requests : requests'[p] = IF p = q THEN Idle ELSE requests[p]
  BY <1>1, FinishFacts DEF Inv, Types
<1>8. /\ renters' \in [Ids -> Renter \cup {None}] /\ renters'[i] = row
      /\ \A x \in Ids \ {i} : renters'[x] = renters[x]
  BY <1>3, <1>5 DEF Inv, Types, TypeOK
<1>9. TypeOK'
  BY <1>1, <1>4, <1>7, <1>8 DEF Inv, Types, TypeOK
<1>10. AskedThere'
  BY <1>1, <1>6, <1>8 DEF Inv, Types, TypeOK, AskedThere
<1>11. \A p \in Requests : requests'[p].pc # "idle" => p # q /\ requests'[p] = requests[p]
  BY <1>7, Kinds
<1>12. \A p \in Requests : requests[p].pc \in {"save", "reread"} =>
          requests[p].id \in Ids \ {i}
  BY <1>3, Kinds DEF Inv, Types, TypeOK, ChangesOK
<1>13. ChangesOK'
  BY <1>8, <1>11, <1>12 DEF Inv, Types, ChangesOK
<1>14. ReadsCurrent'
  BY <1>1, <1>8, <1>11, <1>12 DEF Inv, ReadsCurrent
<1>15. FirstOfPhone'
  <2> SUFFICES ASSUME NEW p \in Requests, NEW x \in Ids \ crossed', requests'[p].pc = "saveNew",
                      requests'[p].phone \notin contested', renters'[x] # None
               PROVE  renters'[x].phone # requests'[p].phone
    BY DEF FirstOfPhone
  <2>1. p # q /\ requests'[p] = requests[p]
    BY <1>11
  <2>2. requests[p].phone # ph /\ requests[p].phone \notin contested
    BY <1>4, <2>1
  <2> QED BY <1>1, <1>5, <1>8, <2>1, <2>2 DEF Inv, FirstOfPhone
<1>16. DeletionSticks'
  BY <1>1, <1>3, <1>8 DEF Inv, Types, TypeOK, AskedThere, DeletionSticks
<1>17. OneRenterPerPhone'
  <2>1. \A x \in Ids \ crossed : renters[x] # None /\ ph \notin contested => renters[x].phone # ph
    BY <1>1, <1>2 DEF Inv, FirstOfPhone
  <2> QED BY <1>1, <1>4, <1>5, <1>8, <2>1 DEF Inv, OneRenterPerPhone
<1> QED BY <1>9, <1>10, <1>13, <1>14, <1>15, <1>16, <1>17 DEF Inv, Types

\* What a save does to a renter nobody saved over a read.
LEMMA SaveFacts ==
    ASSUME Inv, NEW q \in Requests, Save(q)
    PROVE  \E i \in Ids, row \in Renter, kind \in Kind :
              /\ requests[q].pc = "save" /\ requests[q].id = i
              /\ requests[q].row = row /\ requests[q].kind = kind
              /\ renters[i] # None /\ row # None
              /\ renters' \in [Ids -> Renter \cup {None}] /\ renters'[i] = row
              /\ \A x \in Ids \ {i} : renters'[x] = renters[x]
              /\ asked' = IF kind = "delete" THEN asked \cup {i} ELSE asked
              /\ redisabled' = IF kind = "disable" /\ i \in asked THEN redisabled \cup {i}
                               ELSE redisabled
              /\ crossed' = IF Changing(i, q) # {} THEN crossed \cup {i} ELSE crossed
              /\ Finish(q) /\ UNCHANGED <<year, contested>>
<1>1. requests[q].pc = "save" /\ requests[q] \in Request
  BY DEF Save, Inv, Types, TypeOK
<1>2. PICK i \in Ids, row \in Renter, kind \in Kind :
         requests[q].id = i /\ requests[q].row = row /\ requests[q].kind = kind
  BY <1>1, Kinds
<1>3. renters[i] # None /\ row # None
  BY <1>1, <1>2, NoneAssumption DEF Inv, Types, ChangesOK
<1>4. /\ renters' = [renters EXCEPT ![i] = row]
      /\ asked' = IF kind = "delete" THEN asked \cup {i} ELSE asked
      /\ redisabled' = IF kind = "disable" /\ i \in asked THEN redisabled \cup {i}
                       ELSE redisabled
      /\ crossed' = IF Changing(i, q) # {} THEN crossed \cup {i} ELSE crossed
      /\ Finish(q) /\ UNCHANGED <<year, contested>>
  BY <1>2 DEF Save
<1>5. /\ renters' \in [Ids -> Renter \cup {None}] /\ renters'[i] = row
      /\ \A x \in Ids \ {i} : renters'[x] = renters[x]
  BY <1>4 DEF Inv, Types, TypeOK
<1> QED BY <1>1, <1>2, <1>3, <1>4, <1>5

LEMMA SaveStep == ASSUME Inv, NEW q \in Requests, Save(q) PROVE Inv'
<1>1. PICK i \in Ids, row \in Renter, kind \in Kind :
         /\ requests[q].pc = "save" /\ requests[q].id = i
         /\ requests[q].row = row /\ requests[q].kind = kind
         /\ renters[i] # None /\ row # None
         /\ renters' \in [Ids -> Renter \cup {None}] /\ renters'[i] = row
         /\ \A x \in Ids \ {i} : renters'[x] = renters[x]
         /\ asked' = IF kind = "delete" THEN asked \cup {i} ELSE asked
         /\ redisabled' = IF kind = "disable" /\ i \in asked THEN redisabled \cup {i}
                          ELSE redisabled
         /\ crossed' = IF Changing(i, q) # {} THEN crossed \cup {i} ELSE crossed
         /\ Finish(q) /\ UNCHANGED <<year, contested>>
  BY SaveFacts
<1>2. /\ requests' \in [Requests -> Request]
      /\ \A p \in Requests : requests'[p] = IF p = q THEN Idle ELSE requests[p]
  BY <1>1, FinishFacts DEF Inv, Types
<1>3. \A p \in Requests : requests'[p].pc # "idle" => p # q /\ requests'[p] = requests[p]
  BY <1>2, Kinds
<1>4. TypeOK'
  BY <1>1, <1>2 DEF Inv, Types, TypeOK
<1>5. AskedThere' /\ ChangesOK'
  <2>1. \A x \in Ids : renters[x] # None => renters'[x] # None
    BY <1>1
  <2>2. AskedThere'
    BY <1>1, <2>1 DEF Inv, Types, TypeOK, AskedThere
  <2>3. ChangesOK'
    BY <1>3, <2>1, Kinds DEF Inv, Types, TypeOK, ChangesOK
  <2> QED BY <2>2, <2>3
<1>6. ReadsCurrent'
  <2>1. ASSUME NEW p \in Requests, NEW x \in Ids \ crossed',
               requests'[p].pc \in {"save", "reread"}, requests'[p].id = x
        PROVE  /\ requests'[p] = requests[p] /\ renters'[x] = renters[x] /\ x \notin crossed
    <3>1. p # q /\ requests'[p] = requests[p] /\ x \notin crossed
      BY <1>1, <1>3, <2>1
    <3>2. x # i
      BY <1>1, <2>1, <3>1 DEF Changing
    <3> QED BY <1>1, <3>1, <3>2
  <2> QED BY <1>1, <2>1 DEF Inv, ReadsCurrent
<1>7. i \notin crossed =>
         /\ row.phone = IF kind = "anonymize" THEN Anonymous ELSE renters[i].phone
         /\ kind = "reEnable" => renters[i].reason # "DELETION_REQUEST"
         /\ kind \in {"locale", "reConsent", "anonymize"} =>
               row.status = renters[i].status /\ row.reason = renters[i].reason
  BY <1>1 DEF Inv, ReadsCurrent
<1>8. kind = "delete" => row.status = "DISABLED" /\ row.reason = "DELETION_REQUEST"
  BY <1>1 DEF Inv, Types, ChangesOK
<1>9. \A x \in Ids \ crossed' :
         /\ x \notin crossed /\ (renters'[x] # None => renters[x] # None)
         /\ renters'[x].phone \in {renters[x].phone, Anonymous}
  BY <1>1, <1>7
<1>10. FirstOfPhone'
  <2> SUFFICES ASSUME NEW p \in Requests, NEW x \in Ids \ crossed', requests'[p].pc = "saveNew",
                      requests'[p].phone \notin contested', renters'[x] # None
               PROVE  renters'[x].phone # requests'[p].phone
    BY DEF FirstOfPhone
  <2>1. requests'[p] = requests[p] /\ requests[p].phone \in Phones
    BY <1>3, Kinds DEF Inv, Types, TypeOK
  <2>2. renters[x].phone # requests[p].phone
    BY <1>1, <1>9, <2>1 DEF Inv, FirstOfPhone
  <2> QED BY <1>9, <2>1, <2>2, BoundsAssumption
<1>11. DeletionSticks'
  <2> SUFFICES ASSUME NEW x \in asked' \ (crossed' \cup redisabled')
               PROVE  /\ renters'[x].status = "DISABLED"
                      /\ renters'[x].reason = "DELETION_REQUEST"
    BY DEF DeletionSticks
  <2>1. x \in Ids /\ x \notin crossed /\ x \notin redisabled
    BY <1>1, <1>4 DEF TypeOK
  <2>2. CASE x # i
    BY <1>1, <2>1, <2>2 DEF Inv, DeletionSticks
  <2>3. CASE x = i /\ kind = "delete"
    BY <1>1, <1>8, <2>3
  <2>4. CASE x = i /\ kind # "delete"
    <3>1. x \in asked /\ kind # "disable"
      BY <1>1, <2>4
    <3>2. renters[i].status = "DISABLED" /\ renters[i].reason = "DELETION_REQUEST"
      BY <2>1, <2>4, <3>1 DEF Inv, DeletionSticks
    <3> QED BY <1>1, <1>7, <2>1, <2>4, <3>1, <3>2 DEF Kind
  <2> QED BY <2>2, <2>3, <2>4
<1>12. OneRenterPerPhone'
  BY <1>1, <1>9 DEF Inv, OneRenterPerPhone
<1> QED BY <1>4, <1>5, <1>6, <1>10, <1>11, <1>12 DEF Inv, Types

----------------------------------------------------------------------------

LEMMA InvInit == Init => Inv
<1> SUFFICES ASSUME Init PROVE Inv
  OBVIOUS
<1>1. TypeOK
  BY Kinds, BoundsAssumption DEF Init, TypeOK, Year
<1>2. \A q \in Requests : requests[q].pc = "idle"
  BY Kinds DEF Init
<1> QED BY <1>1, <1>2 DEF Init, Inv, Types, ChangesOK, AskedThere, ReadsCurrent, FirstOfPhone,
                            DeletionSticks, OneRenterPerPhone

LEMMA InvStep == Inv /\ [Next]_vars => Inv'
<1> SUFFICES ASSUME Inv, [Next]_vars PROVE Inv'
  OBVIOUS
<1>1. CASE UNCHANGED vars
  BY <1>1 DEF Inv, Types, TypeOK, ChangesOK, AskedThere, ReadsCurrent, FirstOfPhone,
              DeletionSticks, OneRenterPerPhone, vars, histories
<1>2. ASSUME NEW q \in Requests, RequestFails(q) PROVE Inv'
  BY <1>2, IdleStep DEF RequestFails
<1> QED BY <1>1, <1>2, BeginRegisterStep, FindPhoneStep, SaveNewStep, BeginChangeStep,
           RereadStep, SaveStep, RestartStep, NextYearStep DEF Next

LEMMA Invariance == Spec => []Inv
BY InvInit, InvStep, PTL DEF Spec

\* The table, the requests, the clock and the histories keep their types.
THEOREM TypeCorrect == Spec => []TypeOK
<1>1. Inv => TypeOK
  BY DEF Inv, Types
<1> QED BY <1>1, Invariance, PTL

\* A deletion that was saved sticks until a save crosses a read of the renter or an
\* admin disables the renter once more.
THEOREM DeletionStays == Spec => []DeletionSticks
<1>1. Inv => DeletionSticks
  BY DEF Inv
<1> QED BY <1>1, Invariance, PTL

\* Two renters share a phone only if it was registered twice at once or a save brought
\* it back.
THEOREM OnePhone == Spec => []OneRenterPerPhone
<1>1. Inv => OneRenterPerPhone
  BY DEF Inv
<1> QED BY <1>1, Invariance, PTL

\* Of a renter nobody saved over a read, the phone goes only once, when the renter is
\* disabled and the retention is over.
THEOREM AnonymizedInTime == Spec => AnonymizedWhenDue
<1> DEFINE Due == \A i \in Ids \ crossed' :
                     renters[i] # None /\ renters'[i].phone # renters[i].phone =>
                        /\ renters[i].phone # Anonymous
                        /\ renters[i].status = "DISABLED"
                        /\ year >= renters[i].given + Retention
<1>1. Inv /\ [Next]_vars => [Due]_vars
  <2> SUFFICES ASSUME Inv, Next PROVE Due
    OBVIOUS
  <2>1. CASE UNCHANGED renters
    BY <2>1
  <2>2. ASSUME NEW q \in Requests, SaveNew(q) PROVE Due
    BY <2>2 DEF SaveNew, Inv, Types, TypeOK
  <2>3. ASSUME NEW q \in Requests, Save(q) PROVE Due
    <3>1. PICK i \in Ids, row \in Renter, kind \in Kind :
             /\ requests[q].pc = "save" /\ requests[q].id = i
             /\ requests[q].row = row /\ requests[q].kind = kind
             /\ renters'[i] = row /\ \A x \in Ids \ {i} : renters'[x] = renters[x]
             /\ crossed \subseteq crossed'
      BY <2>3, SaveFacts
    <3>2. i \notin crossed =>
             /\ row.phone = IF kind = "anonymize" THEN Anonymous ELSE renters[i].phone
             /\ kind = "anonymize" =>
                   renters[i].status = "DISABLED" /\ year >= renters[i].given + Retention
      BY <3>1 DEF Inv, ReadsCurrent
    <3> QED BY <3>1, <3>2
  <2> QED BY <2>1, <2>2, <2>3 DEF Next, BeginRegister, FindPhone, BeginChange, Reread,
                                  RequestFails, Restart, NextYear
<1> QED BY <1>1, Invariance, PTL DEF Spec, AnonymizedWhenDue

----------------------------------------------------------------------------
(* The refinement of RenterLifecycle.  No consent is dated in the future, and of a  *)
(* renter nobody saved over a read, a row about to be saved is what its change makes *)
(* of the present one.                                                                *)

DatesOK ==
    /\ \A i \in Ids : renters[i] # None => renters[i].given <= year
    /\ \A q \in Requests :
          /\ requests[q].pc = "saveNew" => requests[q].given <= year
          /\ requests[q].pc \in {"save", "reread"} => requests[q].row.given <= year

\* A re-consent is dated when it was read, at or after the last one.
ReConsents(row, new) ==
    row.given <= new.given /\ new = [row EXCEPT !.given = new.given]

WholeChanges ==
    \A q \in Requests, i \in Ids \ crossed :
        requests[q].pc = "save" /\ requests[q].id = i =>
            IF requests[q].kind = "reConsent" THEN ReConsents(renters[i], requests[q].row)
            ELSE requests[q].row = Changed(renters[i], requests[q].kind)

CrossedThere == \A i \in crossed : renters[i] # None

Lin == DatesOK /\ WholeChanges /\ CrossedThere

LEMMA ChangedGiven ==
    ASSUME year \in Year, NEW row \in Renter, NEW kind \in Kind
    PROVE  /\ Changed(row, kind).given = IF kind = "reConsent" THEN year ELSE row.given
           /\ kind = "reConsent" => Changed(row, kind) = [row EXCEPT !.given = year]
<1>1. CASE kind = "locale"
  BY <1>1 DEF Changed
<1>2. CASE kind = "reConsent"
  BY <1>2 DEF Changed, Renter
<1>3. CASE kind = "delete"
  BY <1>3 DEF Changed, Renter
<1>4. CASE kind = "disable"
  BY <1>4 DEF Changed, Renter
<1>5. CASE kind = "reEnable"
  BY <1>5 DEF Changed, Renter
<1>6. CASE kind = "anonymize"
  BY <1>6 DEF Changed, Renter
<1> QED BY <1>1, <1>2, <1>3, <1>4, <1>5, <1>6 DEF Kind

LEMMA LinReadStep ==
    ASSUME Inv, Lin, NEW q \in Requests, NEW r \in Request,
           requests' \in [Requests -> Request],
           \A p \in Requests : requests'[p] = IF p = q THEN r ELSE requests[p],
           UNCHANGED <<renters, year, histories>>,
           r.pc = "saveNew" => r.given <= year,
           r.pc \in {"save", "reread"} => r.row.given <= year,
           r.pc = "save" =>
              IF r.kind = "reConsent" THEN ReConsents(renters[r.id], r.row)
              ELSE r.row = Changed(renters[r.id], r.kind)
    PROVE  Lin'
<1>1. DatesOK' /\ CrossedThere'
  BY DEF Lin, DatesOK, CrossedThere, histories
<1>2. ASSUME NEW row, NEW kind PROVE Changed(row, kind)' = Changed(row, kind)
  BY DEF Changed
<1>3. WholeChanges'
  BY <1>2 DEF Lin, WholeChanges, ReConsents, histories
<1> QED BY <1>1, <1>3 DEF Lin

LEMMA LinIdleStep ==
    ASSUME Inv, Lin, NEW q \in Requests, Finish(q), UNCHANGED <<renters, year, histories>>
    PROVE  Lin'
BY Kinds, FinishFacts, LinReadStep DEF Inv, Types

LEMMA LinRegisterStep ==
    ASSUME Inv, Lin, NEW q \in Requests, (\E p \in Phones : BeginRegister(q, p)) \/ FindPhone(q)
    PROVE  Lin'
<1>1. ASSUME NEW p \in Phones, BeginRegister(q, p) PROVE Lin'
  <2> DEFINE r == [pc |-> "findPhone", phone |-> p, given |-> year]
  <2>1. r \in Request /\ r.pc = "findPhone"
    BY DEF Request, Registration, Inv, Types, TypeOK
  <2>2. Run(q, r) /\ UNCHANGED <<renters, year, histories>>
    BY <1>1 DEF BeginRegister
  <2> HIDE DEF r
  <2> QED BY <2>1, <2>2, RunFacts, LinReadStep DEF Inv, Types
<1>2. ASSUME FindPhone(q) PROVE Lin'
  <2> DEFINE r == [requests[q] EXCEPT !.pc = "saveNew", !.given = year]
  <2>1. /\ requests[q].pc = "findPhone" /\ UNCHANGED <<renters, year, histories>>
        /\ Finish(q) \/ Run(q, r)
    BY <1>2 DEF FindPhone
  <2>2. requests[q] \in Registration /\ year \in Year
    BY <2>1, Kinds DEF Inv, Types, TypeOK
  <2>3. r \in Request /\ r.pc = "saveNew" /\ r.given = year
    BY <2>2 DEF Request, Registration
  <2>4. year <= year
    BY <2>2, BoundsAssumption DEF Year
  <2> HIDE DEF r
  <2>5. CASE Run(q, r)
    BY <2>1, <2>3, <2>4, <2>5, RunFacts, LinReadStep DEF Inv, Types
  <2> QED BY <2>1, <2>5, LinIdleStep
<1> QED BY <1>1, <1>2

LEMMA LinBeginChangeStep ==
    ASSUME Inv, Lin, NEW q \in Requests, NEW i \in Ids, NEW kind \in Kind, BeginChange(q, i, kind)
    PROVE  Lin'
<1> DEFINE pc == IF kind = "anonymize" THEN "reread" ELSE "save"
           row == IF kind = "anonymize" THEN renters[i] ELSE Changed(renters[i], kind)
           r == [pc |-> pc, id |-> i, kind |-> kind, row |-> row]
<1>1. renters[i] # None /\ UNCHANGED <<renters, year, histories>>
  BY DEF BeginChange
<1>2. Run(q, r)
  BY DEF BeginChange
<1>3. renters[i] \in Renter /\ year \in Year /\ renters[i].given <= year
  BY <1>1 DEF Inv, Types, TypeOK, Lin, DatesOK
<1>4. row \in Renter /\ year <= year
  BY <1>3, ChangedFacts, BoundsAssumption DEF Year
<1>5. row.given <= year
  BY <1>3, <1>4, ChangedGiven
<1>6. kind # "anonymize" =>
         IF kind = "reConsent" THEN ReConsents(renters[i], row) ELSE row = Changed(renters[i], kind)
  BY <1>3, ChangedGiven DEF ReConsents
<1>7. (pc = "reread" <=> kind = "anonymize") /\ pc \in {"save", "reread"}
  OBVIOUS
<1> HIDE DEF pc, row
<1>8. r \in Request /\ r.pc = pc /\ r.id = i /\ r.kind = kind /\ r.row = row
  BY <1>4, <1>7 DEF Request, Change
<1> HIDE DEF r
<1>9. /\ requests' \in [Requests -> Request]
      /\ \A p \in Requests : requests'[p] = IF p = q THEN r ELSE requests[p]
  BY <1>2, <1>8, RunFacts DEF Inv, Types
<1> QED BY <1>1, <1>5, <1>6, <1>7, <1>8, <1>9, LinReadStep

LEMMA LinRereadStep == ASSUME Inv, Lin, NEW q \in Requests, Reread(q) PROVE Lin'
<1>1. requests[q].pc = "reread" /\ UNCHANGED <<renters, year, histories>>
  BY DEF Reread
<1>2. /\ requests[q] \in Change /\ requests[q].kind = "anonymize"
      /\ renters[requests[q].id] # None /\ requests[q].id \in Ids /\ year \in Year
  BY <1>1, Kinds DEF Inv, Types, TypeOK, ChangesOK
<1>3. PICK i \in Ids : requests[q].id = i /\ renters[i] \in Renter /\ renters[i] # None
  BY <1>2 DEF Inv, Types, TypeOK
<1> DEFINE row == Changed(renters[i], "anonymize")
           r == [requests[q] EXCEPT !.pc = "save", !.row = row]
<1>4. row \in Renter /\ row.given = renters[i].given /\ renters[i].given <= year
  BY <1>2, <1>3, ChangedFacts, ChangedGiven DEF Kind, Lin, DatesOK
<1>5. Run(q, r)
  BY <1>2, <1>3 DEF Reread
<1>6. row = Changed(renters[i], "anonymize")
  OBVIOUS
<1> HIDE DEF row
<1>7. r \in Request /\ r.pc = "save" /\ r.id = i /\ r.kind = "anonymize" /\ r.row = row
  BY <1>2, <1>3, <1>4 DEF Request, Change
<1> HIDE DEF r
<1>8. /\ requests' \in [Requests -> Request]
      /\ \A p \in Requests : requests'[p] = IF p = q THEN r ELSE requests[p]
  BY <1>5, <1>7, RunFacts DEF Inv, Types
<1> QED BY <1>1, <1>4, <1>6, <1>7, <1>8, LinReadStep

LEMMA LinNextYearStep == ASSUME Inv, Lin, NextYear PROVE Lin'
<1>1. /\ year \in Nat /\ year' = year + 1 /\ UNCHANGED <<renters, requests, histories>>
      /\ \A i \in Ids : renters[i] # None => renters[i].given \in Nat
      /\ \A q \in Requests :
            /\ requests[q].pc = "saveNew" => requests[q].given \in Nat
            /\ requests[q].pc \in {"save", "reread"} => requests[q].row.given \in Nat
  BY Kinds, BoundsAssumption DEF NextYear, Inv, Types, TypeOK, Year, Renter
<1>2. DatesOK' /\ CrossedThere'
  BY <1>1 DEF Lin, DatesOK, CrossedThere, histories
<1>3. ASSUME NEW row, NEW kind, kind # "reConsent" PROVE Changed(row, kind)' = Changed(row, kind)
  BY <1>3 DEF Changed
<1>4. WholeChanges'
  BY <1>1, <1>3 DEF Lin, WholeChanges, ReConsents, histories
<1> QED BY <1>2, <1>4 DEF Lin

LEMMA LinSaveNewStep == ASSUME Inv, Lin, NEW q \in Requests, SaveNew(q) PROVE Lin'
<1>1. /\ requests[q].pc = "saveNew" /\ requests[q] \in Request /\ Finish(q)
      /\ UNCHANGED <<year, crossed>>
  BY DEF SaveNew, Inv, Types, TypeOK
<1>2. PICK ph \in Phones, g \in Year : requests[q].phone = ph /\ requests[q].given = g
  BY <1>1, Kinds
<1> DEFINE row == [phone |-> ph, status |-> "ACTIVE", reason |-> None, given |-> g]
<1>3. PICK i \in Ids : renters[i] = None /\ renters' = [renters EXCEPT ![i] = row]
  BY <1>2 DEF SaveNew
<1>4. row \in Renter /\ row.given = g /\ g <= year
  BY <1>1, <1>2 DEF Renter, Lin, DatesOK
<1>5. row # None
  BY <1>4, NoneAssumption
<1> HIDE DEF row
<1>6. renters'[i] = row /\ \A x \in Ids \ {i} : renters'[x] = renters[x]
  BY <1>3 DEF Inv, Types, TypeOK
<1>7. \A p \in Requests : requests'[p].pc # "idle" => requests'[p] = requests[p]
  BY <1>1, FinishFacts, Kinds DEF Inv, Types
<1>8. \A p \in Requests : requests[p].pc = "save" => requests[p].id \in Ids \ {i}
  BY <1>3, Kinds DEF Inv, Types, TypeOK, ChangesOK
<1>9. DatesOK'
  BY <1>1, <1>4, <1>6, <1>7 DEF Lin, DatesOK
<1>10. CrossedThere'
  BY <1>1, <1>5, <1>6 DEF Lin, CrossedThere, Inv, Types, TypeOK
<1>11. ASSUME NEW r, NEW kind PROVE Changed(r, kind)' = Changed(r, kind)
  BY <1>1 DEF Changed
<1>12. WholeChanges'
  BY <1>1, <1>6, <1>7, <1>8, <1>11 DEF Lin, WholeChanges, ReConsents
<1> QED BY <1>9, <1>10, <1>12 DEF Lin

LEMMA LinSaveStep == ASSUME Inv, Lin, NEW q \in Requests, Save(q) PROVE Lin'
<1>1. PICK i \in Ids, row \in Renter, kind \in Kind :
         /\ requests[q].pc = "save" /\ requests[q].id = i
         /\ requests[q].row = row /\ requests[q].kind = kind
         /\ renters[i] # None /\ row # None
         /\ renters'[i] = row /\ \A x \in Ids \ {i} : renters'[x] = renters[x]
         /\ crossed' = IF Changing(i, q) # {} THEN crossed \cup {i} ELSE crossed
         /\ Finish(q) /\ UNCHANGED year
  BY SaveFacts
<1>2. \A p \in Requests : requests'[p].pc # "idle" => p # q /\ requests'[p] = requests[p]
  BY <1>1, FinishFacts, Kinds DEF Inv, Types
<1>3. row.given <= year
  BY <1>1 DEF Lin, DatesOK
<1>4. DatesOK'
  BY <1>1, <1>2, <1>3 DEF Lin, DatesOK
<1>5. CrossedThere'
  BY <1>1 DEF Lin, CrossedThere, Inv, Types, TypeOK
<1>6. ASSUME NEW p \in Requests, NEW x \in Ids \ crossed', requests'[p].pc = "save",
             requests'[p].id = x
      PROVE  requests'[p] = requests[p] /\ renters'[x] = renters[x] /\ x \notin crossed
  <2>1. p # q /\ requests'[p] = requests[p] /\ x \notin crossed
    BY <1>1, <1>2, <1>6
  <2>2. x # i
    BY <1>1, <1>6, <2>1 DEF Changing
  <2> QED BY <1>1, <2>1, <2>2
<1>7. ASSUME NEW r, NEW k PROVE Changed(r, k)' = Changed(r, k)
  BY <1>1 DEF Changed
<1>8. WholeChanges'
  BY <1>6, <1>7 DEF Lin, WholeChanges, ReConsents
<1> QED BY <1>4, <1>5, <1>8 DEF Lin

LEMMA LinInit == Init => Lin
<1> SUFFICES ASSUME Init PROVE Lin
  OBVIOUS
<1>1. \A q \in Requests : requests[q].pc = "idle"
  BY Kinds DEF Init
<1> QED BY <1>1 DEF Init, Lin, DatesOK, WholeChanges, CrossedThere

LEMMA LinStep == Inv /\ Lin /\ [Next]_vars => Lin'
<1> SUFFICES ASSUME Inv, Lin, [Next]_vars PROVE Lin'
  OBVIOUS
<1>1. CASE UNCHANGED vars
  <2>1. ASSUME NEW r, NEW k PROVE Changed(r, k)' = Changed(r, k)
    BY <1>1 DEF Changed, vars
  <2> QED BY <1>1, <2>1 DEF Lin, DatesOK, WholeChanges, ReConsents, CrossedThere, vars, histories
<1>2. ASSUME NEW q \in Requests, RequestFails(q) PROVE Lin'
  BY <1>2, LinIdleStep DEF RequestFails
<1>3. ASSUME Restart PROVE Lin'
  <2>1. (\A q \in Requests : requests'[q].pc = "idle") /\ UNCHANGED <<renters, year, histories>>
    BY <1>3, Kinds DEF Restart
  <2> QED BY <2>1 DEF Lin, DatesOK, WholeChanges, CrossedThere, histories
<1> QED BY <1>1, <1>2, <1>3, LinRegisterStep, LinSaveNewStep, LinBeginChangeStep, LinRereadStep,
           LinSaveStep, LinNextYearStep DEF Next

LEMMA LinInvariance == Spec => [](Inv /\ Lin)
BY InvInit, InvStep, LinInit, LinStep, PTL DEF Spec

\* What the refinement maps the table to.
Seen == [i \in Ids |-> IF i \in crossed THEN None ELSE renters[i]]

\* The save of a change is the change, of the row as it is now; over another request's
\* read it loses the renter.
LEMMA SaveIsChange == ASSUME Inv, Lin, NEW q \in Requests, Save(q)
                      PROVE  Lifecycle!Next \/ UNCHANGED <<Seen, year, crossed, contested>>
<1>1. PICK i \in Ids, row \in Renter, kind \in Kind :
         /\ requests[q].pc = "save" /\ requests[q].id = i
         /\ requests[q].row = row /\ requests[q].kind = kind
         /\ renters[i] # None /\ row # None
         /\ renters'[i] = row /\ \A x \in Ids \ {i} : renters'[x] = renters[x]
         /\ crossed' = IF Changing(i, q) # {} THEN crossed \cup {i} ELSE crossed
         /\ UNCHANGED <<year, contested>>
  BY SaveFacts
<1>2. Seen' = [x \in Ids |-> IF x \in crossed' THEN None ELSE renters'[x]]
  BY DEF Seen
<1>3. renters[i] \in Renter /\ year \in Year
  BY <1>1 DEF Inv, Types, TypeOK
<1>4. CASE i \in crossed
  <2>1. UNCHANGED crossed
    BY <1>1, <1>4
  <2>2. Seen' = Seen
    BY <1>1, <1>2, <1>4, <2>1 DEF Seen
  <2> QED BY <1>1, <2>1, <2>2
<1>5. CASE i \notin crossed /\ Changing(i, q) # {}
  <2>1. crossed' = crossed \cup {i} /\ Seen' = [Seen EXCEPT ![i] = None]
    BY <1>1, <1>2, <1>5 DEF Seen
  <2>2. Seen[i] # None
    BY <1>1, <1>5 DEF Seen
  <2> QED BY <1>1, <2>1, <2>2 DEF Lifecycle!Next, Lifecycle!Lose, Seen
<1>6. CASE i \notin crossed /\ Changing(i, q) = {}
  <2>1. UNCHANGED crossed /\ Seen[i] = renters[i] /\ Seen' = [Seen EXCEPT ![i] = row]
    BY <1>1, <1>2, <1>6 DEF Seen
  <2>2. IF kind = "reConsent" THEN ReConsents(renters[i], row) ELSE row = Changed(renters[i], kind)
    BY <1>1, <1>6 DEF Lin, WholeChanges
  <2>3. /\ kind = "reEnable" => renters[i].reason # "DELETION_REQUEST"
        /\ kind = "anonymize" =>
              renters[i].status = "DISABLED" /\ year >= renters[i].given + Retention
    BY <1>1, <1>6 DEF Inv, ReadsCurrent
  <2>4. i \in {x \in Ids : Seen[x] # None}
    BY <1>1, <2>1
  <2>5. CASE kind = "locale"
    BY <1>1, <2>1, <2>2, <2>5 DEF Changed, Seen
  <2>6. CASE kind = "reConsent"
    <3>1. PICK given \in 0 .. year : given >= renters[i].given /\ row = [renters[i] EXCEPT !.given = given]
      <4>1. row.given \in 0 .. year
        BY <1>1, <1>3, BoundsAssumption DEF Lin, DatesOK, Renter, Year
      <4>2. row.given >= renters[i].given /\ row = [renters[i] EXCEPT !.given = row.given]
        BY <1>3, <2>2, <2>6, <4>1, BoundsAssumption DEF ReConsents, Renter, Year
      <4> QED BY <4>1, <4>2
    <3>2. Lifecycle!ReConsent(i, given)
      BY <1>1, <2>1, <3>1 DEF Lifecycle!ReConsent, Lifecycle!Becomes, Seen
    <3> QED BY <2>4, <3>2 DEF Lifecycle!Next, Seen
  <2>7. CASE kind = "delete"
    <3>1. Lifecycle!RequestDeletion(i)
      BY <1>1, <2>1, <2>2, <2>7 DEF Changed, Lifecycle!RequestDeletion, Lifecycle!Becomes, Seen
    <3> QED BY <2>4, <3>1 DEF Lifecycle!Next, Seen
  <2>8. CASE kind = "disable"
    <3>1. Lifecycle!Disable(i)
      BY <1>1, <2>1, <2>2, <2>8 DEF Changed, Lifecycle!Disable, Lifecycle!Becomes, Seen
    <3> QED BY <2>4, <3>1 DEF Lifecycle!Next, Seen
  <2>9. CASE kind = "reEnable"
    <3>1. Lifecycle!ReEnable(i)
      BY <1>1, <2>1, <2>2, <2>3, <2>9 DEF Changed, Lifecycle!ReEnable, Lifecycle!Becomes, Seen
    <3> QED BY <2>4, <3>1 DEF Lifecycle!Next, Seen
  <2>10. CASE kind = "anonymize"
    <3>1. Lifecycle!Anonymize(i)
      BY <1>1, <2>1, <2>2, <2>3, <2>10 DEF Changed, Lifecycle!Anonymize, Lifecycle!Becomes, Seen
    <3> QED BY <2>4, <3>1 DEF Lifecycle!Next, Seen
  <2> QED BY <2>5, <2>6, <2>7, <2>8, <2>9, <2>10 DEF Kind
<1> QED BY <1>4, <1>5, <1>6

LEMMA SaveNewIsRegister == ASSUME Inv, Lin, NEW q \in Requests, SaveNew(q)
                           PROVE  Lifecycle!Next
<1>1. /\ requests[q].pc = "saveNew" /\ requests[q] \in Request
      /\ UNCHANGED <<year, crossed>>
  BY DEF SaveNew, Inv, Types, TypeOK
<1>2. PICK ph \in Phones, g \in Year : requests[q].phone = ph /\ requests[q].given = g
  BY <1>1, Kinds
<1> DEFINE row == [phone |-> ph, status |-> "ACTIVE", reason |-> None, given |-> g]
<1>3. PICK i \in Ids : renters[i] = None /\ renters' = [renters EXCEPT ![i] = row]
  BY <1>2 DEF SaveNew
<1>4. contested' \in {contested, contested \cup {ph}}
  BY <1>2 DEF SaveNew
<1>5. g \in 0 .. year
  BY <1>1, <1>2, BoundsAssumption DEF Inv, Types, TypeOK, Lin, DatesOK, Year
<1>6. i \notin crossed /\ Seen[i] = None
  BY <1>3 DEF Lin, CrossedThere, Seen
<1>7. (\E j \in Ids : Seen[j] # None /\ Seen[j].phone = ph) => ph \in contested
  BY <1>1, <1>2 DEF Inv, FirstOfPhone, Seen
<1>8. Seen' = [Seen EXCEPT ![i] = row]
  <2>1. Seen' = [x \in Ids |-> IF x \in crossed' THEN None ELSE renters'[x]]
    BY DEF Seen
  <2>2. renters'[i] = row /\ \A x \in Ids \ {i} : renters'[x] = renters[x]
    BY <1>3 DEF Inv, Types, TypeOK
  <2> QED BY <1>1, <1>6, <2>1, <2>2 DEF Seen
<1>9. Lifecycle!Register(i, ph, g)
  BY <1>1, <1>4, <1>6, <1>7, <1>8 DEF Lifecycle!Register, Seen
<1> QED BY <1>5, <1>9 DEF Lifecycle!Next

\* Of the renters nobody saved over a read, the requests that overlap do what
\* RenterLifecycle does in whole operations.
THEOREM ImplementsLifecycle == Spec => LifecycleSpec
<1>1. Init => Lifecycle!Init
  BY DEF Init, Lifecycle!Init
<1>2. Inv /\ Lin /\ [Next]_vars => [Lifecycle!Next]_(Lifecycle!vars)
  <2> SUFFICES ASSUME Inv, Lin, [Next]_vars
               PROVE  Lifecycle!Next \/ UNCHANGED <<Seen, year, crossed, contested>>
    BY DEF Lifecycle!vars, Seen
  <2>1. CASE UNCHANGED <<renters, year, histories>>
    BY <2>1 DEF Seen, histories
  <2>2. CASE NextYear
    BY <2>2 DEF NextYear, histories, Seen, Lifecycle!Next, Lifecycle!NextYear
  <2> QED BY <2>1, <2>2, SaveIsChange, SaveNewIsRegister
          DEF Next, vars, BeginRegister, FindPhone, BeginChange, Reread, RequestFails, Restart
<1> QED BY <1>1, <1>2, LinInvariance, PTL DEF Spec, LifecycleSpec, Lifecycle!Spec

----------------------------------------------------------------------------
(* What only overlapping requests can break *)

\* One request is answered before the next one is taken up.
OneAtATime == \A p, q \in Requests : requests[p] # Idle /\ requests[q] # Idle => p = q

Unharmed == crossed = {} /\ contested = {}

LEMMA UnharmedStep == Inv /\ Unharmed /\ OneAtATime /\ [Next]_vars => Unharmed'
<1> SUFFICES ASSUME Inv, Unharmed, OneAtATime, [Next]_vars PROVE Unharmed'
  OBVIOUS
<1>1. ASSUME NEW q \in Requests, SaveNew(q) PROVE Unharmed'
  <2>1. \A p \in Requests \ {q} : requests[p].pc # "saveNew"
    BY <1>1, Kinds DEF SaveNew, OneAtATime
  <2> QED BY <1>1, <2>1 DEF SaveNew, Unharmed
<1>2. ASSUME NEW q \in Requests, Save(q) PROVE Unharmed'
  <2>1. Changing(requests[q].id, q) = {}
    BY <1>2, Kinds DEF Save, Changing, OneAtATime
  <2> QED BY <1>2, <2>1 DEF Save, Unharmed
<1>3. UNCHANGED <<crossed, contested>> => Unharmed'
  BY DEF Unharmed
<1> QED BY <1>1, <1>2, <1>3 DEF Next, BeginRegister, FindPhone, BeginChange, Reread, RequestFails,
           Restart, NextYear, vars, histories

\* Without a unique index, and with whole-row saves, phones are still unique and
\* deletions final (but for an admin's disable) as long as requests come one after the
\* other, whichever of them fail.
THEOREM SafeOneByOne ==
    Spec /\ []OneAtATime =>
       []( /\ \A i, j \in Ids : /\ renters[i] # None /\ renters[j] # None
                                /\ renters[i].phone = renters[j].phone
                                /\ renters[i].phone # Anonymous
                                => i = j
           /\ \A i \in asked \ redisabled :
                 renters[i].status = "DISABLED" /\ renters[i].reason = "DELETION_REQUEST" )
<1>1. Init => Unharmed
  BY DEF Init, Unharmed
<1>2. Inv /\ Unharmed =>
         /\ \A i, j \in Ids : /\ renters[i] # None /\ renters[j] # None
                              /\ renters[i].phone = renters[j].phone
                              /\ renters[i].phone # Anonymous
                              => i = j
         /\ \A i \in asked \ redisabled :
               renters[i].status = "DISABLED" /\ renters[i].reason = "DELETION_REQUEST"
  BY DEF Inv, Unharmed, OneRenterPerPhone, DeletionSticks
<1> QED BY <1>1, <1>2, UnharmedStep, InvInit, InvStep, PTL DEF Spec

=============================================================================
