-------------------------- MODULE Accounts_proofs --------------------------
(***************************************************************************)
(* Proofs about Accounts: its types, the unique slugs and emails, the last *)
(* admin, and that only a save over somebody's read loses a change of an   *)
(* organization.                                                           *)
(***************************************************************************)
EXTENDS Accounts, FiniteSetTheorems, TLAPS

\* What the steps of a request rely on: rows that are there, and for a change a row
\* that was active, with the slug the organization keeps.
RequestsOK ==
    \A q \in Requests :
        /\ requests[q].pc \in {"count", "saveDisabled"} => accounts[requests[q].account] # None
        /\ requests[q].pc = "saveChange" =>
              /\ orgs[requests[q].org] # None
              /\ orgs[requests[q].org].slug = requests[q].row.slug
              /\ requests[q].row.status = "ACTIVE"

ToldOK == \A o \in Orgs : orgs[o] = None <=> told[o] = None

Types == TypeOK /\ RequestsOK /\ ToldOK

\* Of an organization nobody saved over a read, every read in flight still is the row.
ReadsCurrent ==
    \A o \in Orgs \ crossed :
        /\ orgs[o] = told[o]
        /\ \A q \in Requests :
              requests[q].pc = "saveChange" /\ requests[q].org = o => requests[q].row = orgs[o]

\* A disable that has counted will leave another active admin, until a second disable
\* of the organization is saved in its window.
OthersRemain ==
    /\ \A o \in bootstrapped \ raced : ActiveOrgAdmins(o) # {}
    /\ \A q \in Requests, a \in Accounts, o \in Orgs \ raced :
          /\ requests[q].pc = "saveDisabled" /\ requests[q].account = a
          /\ accounts[a].role = "ORG_ADMIN" /\ accounts[a].org = o
          => ActiveOrgAdmins(o) \ {a} # {}

----------------------------------------------------------------------------
(* Requests *)

LEMMA Kinds ==
    /\ Idle \in Request /\ Idle.pc = "idle"
    /\ \A r \in Request :
          /\ r = Idle \/ r \in Creation \/ r \in AdminCreation \/ r \in Disabling \/ r \in Change
          /\ r.pc = "saveOrg" => r.slug \in Slugs /\ r.email \in Emails
          /\ r.pc \in {"findEmail", "saveAdmin"} =>
                r.org \in Orgs /\ r.email \in Emails /\ r.role \in Role
          /\ r.pc \in {"count", "saveDisabled"} => r.account \in Accounts
          /\ r.pc = "saveChange" =>
                r.org \in Orgs /\ r.row \in Org /\ r.set \in Columns \cup {"status"}
BY DEF Request, Idle, Creation, AdminCreation, Disabling, Change

LEMMA RunFacts ==
    ASSUME TypeOK, NEW q \in Requests, NEW r \in Request, Run(q, r)
    PROVE  /\ requests' \in [Requests -> Request]
           /\ \A p \in Requests : requests'[p] = IF p = q THEN r ELSE requests[p]
BY DEF TypeOK, Run

LEMMA FinishFacts ==
    ASSUME TypeOK, NEW q \in Requests, Finish(q)
    PROVE  /\ requests' \in [Requests -> Request]
           /\ \A p \in Requests : requests'[p] = IF p = q THEN Idle ELSE requests[p]
BY Kinds, RunFacts DEF Finish

Inv == Types /\ OneRowEach /\ ReadsCurrent /\ OthersRemain

\* A step that saves nothing: the new record of q is idle, or what it says was just
\* read is in the tables.
LEMMA ReadStep ==
    ASSUME Inv, NEW q \in Requests, NEW r \in Request,
           requests' \in [Requests -> Request],
           \A p \in Requests : requests'[p] = IF p = q THEN r ELSE requests[p],
           UNCHANGED <<orgs, accounts, histories>>,
           r.pc \in {"count", "saveDisabled"} => accounts[r.account] # None,
           r.pc = "saveChange" =>
              r.row = orgs[r.org] /\ orgs[r.org] # None /\ r.row.status = "ACTIVE",
           r.pc = "saveDisabled" /\ accounts[r.account].role = "ORG_ADMIN" =>
              ActiveOrgAdmins(accounts[r.account].org) \ {r.account} # {}
    PROVE  Inv'
<1>1. \A o \in Orgs : ActiveOrgAdmins(o)' = ActiveOrgAdmins(o)
  BY DEF ActiveOrgAdmins
<1>2. TypeOK' /\ ToldOK'
  BY DEF Inv, Types, TypeOK, ToldOK, histories
<1>3. RequestsOK'
  BY DEF Inv, Types, RequestsOK
<1>4. ReadsCurrent' /\ OneRowEach'
  BY DEF Inv, ReadsCurrent, OneRowEach, histories
<1>5. \A o \in (bootstrapped \ raced)' : ActiveOrgAdmins(o)' # {}
  BY <1>1 DEF Inv, Types, TypeOK, OthersRemain, histories
<1>6. ASSUME NEW p \in Requests, NEW a \in Accounts, NEW o \in Orgs \ raced',
             requests'[p].pc = "saveDisabled", requests'[p].account = a,
             accounts'[a].role = "ORG_ADMIN", accounts'[a].org = o
      PROVE  ActiveOrgAdmins(o)' \ {a} # {}
  <2>1. ActiveOrgAdmins(o) \ {a} # {}
    BY <1>6 DEF Inv, OthersRemain, histories
  <2> QED BY <1>1, <2>1
<1> QED BY <1>2, <1>3, <1>4, <1>5, <1>6 DEF Inv, Types, OthersRemain

LEMMA BeginCreateStep ==
    ASSUME Inv, NEW q \in Requests, NEW s \in Slugs, NEW e \in Emails, BeginCreate(q, s, e)
    PROVE  Inv'
<1> DEFINE r == [pc |-> "saveOrg", slug |-> s, email |-> e]
<1>1. r \in Request /\ r.pc = "saveOrg"
  BY DEF Request, Creation
<1>2. Run(q, r) /\ UNCHANGED <<orgs, accounts, histories>>
  BY DEF BeginCreate
<1> HIDE DEF r
<1> QED BY <1>1, <1>2, RunFacts, ReadStep DEF Inv, Types

LEMMA AdminCreationKind ==
    ASSUME NEW o \in Orgs, NEW e \in Emails, NEW role \in Role,
           NEW pc \in {"findEmail", "saveAdmin"}
    PROVE  /\ [pc |-> pc, org |-> o, email |-> e, role |-> role] \in Request
           /\ [pc |-> pc, org |-> o, email |-> e, role |-> role].pc = pc
BY DEF Request, AdminCreation

LEMMA BeginCreateAdminStep ==
    ASSUME Inv, NEW q \in Requests, NEW o \in Orgs, NEW e \in Emails, NEW role \in Role,
           BeginCreateAdmin(q, o, e, role)
    PROVE  Inv'
<1> DEFINE r == [pc |-> "findEmail", org |-> o, email |-> e, role |-> role]
<1>1. r \in Request /\ r.pc = "findEmail"
  BY AdminCreationKind
<1>2. Run(q, r) /\ UNCHANGED <<orgs, accounts, histories>>
  BY DEF BeginCreateAdmin
<1> HIDE DEF r
<1> QED BY <1>1, <1>2, RunFacts, ReadStep DEF Inv, Types

LEMMA IdleStep ==
    ASSUME Inv, NEW q \in Requests, Finish(q), UNCHANGED <<orgs, accounts, histories>>
    PROVE  Inv'
BY Kinds, FinishFacts, ReadStep DEF Inv, Types

LEMMA FindEmailStep == ASSUME Inv, NEW q \in Requests, FindEmail(q) PROVE Inv'
<1> DEFINE r == [requests[q] EXCEPT !.pc = "saveAdmin"]
<1>1. /\ requests[q].pc = "findEmail" /\ UNCHANGED <<orgs, accounts, histories>>
      /\ Finish(q) \/ Run(q, r)
  BY DEF FindEmail
<1>2. requests[q] \in AdminCreation
  BY <1>1 DEF Inv, Types, TypeOK, Request, Idle, Creation, AdminCreation, Disabling, Change
<1>3. r \in Request /\ r.pc = "saveAdmin"
  BY <1>2 DEF Request, AdminCreation
<1> HIDE DEF r
<1>4. CASE Run(q, r)
  BY <1>1, <1>3, <1>4, RunFacts, ReadStep DEF Inv, Types
<1> QED BY <1>1, <1>4, IdleStep

LEMMA BeginDisableStep ==
    ASSUME Inv, NEW q \in Requests, NEW a \in Accounts, BeginDisable(q, a)
    PROVE  Inv'
<1> DEFINE pc == IF accounts[a].role = "ORG_ADMIN" THEN "count" ELSE "saveDisabled"
           r == [pc |-> pc, account |-> a]
<1>1. accounts[a] # None /\ Run(q, r) /\ UNCHANGED <<orgs, accounts, histories>>
  BY DEF BeginDisable
<1>2. r \in Request /\ r.account = a /\ r.pc = pc
  BY DEF Request, Disabling
<1>3. r.pc = "saveDisabled" => accounts[a].role # "ORG_ADMIN"
  OBVIOUS
<1>4. r.pc # "saveChange"
  OBVIOUS
<1> HIDE DEF r, pc
<1> QED BY <1>1, <1>2, <1>3, <1>4, RunFacts, ReadStep DEF Inv, Types

LEMMA CountStep == ASSUME Inv, NEW q \in Requests, CountActiveOrgAdmins(q) PROVE Inv'
<1> DEFINE a == requests[q].account
           r == [requests[q] EXCEPT !.pc = "saveDisabled"]
<1>1. /\ requests[q].pc = "count" /\ UNCHANGED <<orgs, accounts, histories>>
      /\ Finish(q) \/ (Run(q, r) /\ ~LastAdmin(accounts[a].org))
  BY DEF CountActiveOrgAdmins
<1>2. requests[q] \in Disabling
  BY <1>1 DEF Inv, Types, TypeOK, Request, Idle, Creation, AdminCreation, Disabling, Change
<1>3. r \in Request /\ r.pc = "saveDisabled" /\ r.account = a /\ accounts[a] # None
  BY <1>1, <1>2 DEF Inv, Types, RequestsOK, Request, Disabling
<1> HIDE DEF r
<1>4. CASE Run(q, r) /\ ~LastAdmin(accounts[a].org)
  <2> DEFINE S == ActiveOrgAdmins(accounts[a].org)
  <2>1. S \ {a} # {}
    <3>1. SUFFICES ASSUME S \subseteq {a} PROVE FALSE
      OBVIOUS
    <3>2. IsFiniteSet({a}) /\ Cardinality({a}) = 1
      BY FS_Singleton
    <3>3. IsFiniteSet(S) /\ Cardinality(S) <= 1
      BY <3>1, <3>2, FS_Subset
    <3> QED BY <1>4, <3>3 DEF LastAdmin
  <2> HIDE DEF S, a
  <2> QED BY <1>1, <1>3, <1>4, <2>1, RunFacts, ReadStep DEF Inv, Types, S
<1> QED BY <1>1, <1>4, IdleStep

LEMMA BeginChangeStep ==
    ASSUME Inv, NEW q \in Requests, NEW o \in Orgs, NEW set \in Columns \cup {"status"},
           BeginChange(q, o, set)
    PROVE  Inv'
<1> DEFINE r == [pc |-> "saveChange", org |-> o, row |-> orgs[o], set |-> set]
<1>1. /\ orgs[o] # None /\ orgs[o].status = "ACTIVE" /\ Run(q, r)
      /\ UNCHANGED <<orgs, accounts, histories>>
  BY DEF BeginChange, MayChange
<1>2. orgs[o] \in Org
  BY <1>1 DEF Inv, Types, TypeOK
<1>3. r \in Request /\ r.pc = "saveChange" /\ r.org = o /\ r.row = orgs[o]
  BY <1>2 DEF Request, Change
<1> HIDE DEF r
<1> QED BY <1>1, <1>3, RunFacts, ReadStep DEF Inv, Types

----------------------------------------------------------------------------
(* The steps that save *)

\* Accounts that stay as they are have the same active admins.
LEMMA SameAdmins ==
    ASSUME accounts' = accounts, NEW o PROVE ActiveOrgAdmins(o)' = ActiveOrgAdmins(o)
BY DEF ActiveOrgAdmins

LEMMA SaveOrgStep == ASSUME Inv, NEW q \in Requests, SaveOrg(q) PROVE Inv'
<1> DEFINE r == requests[q]
           row == [slug |-> r.slug, status |-> "ACTIVE", columns |-> {}]
<1>1. r.pc = "saveOrg" /\ r \in Request /\ UNCHANGED <<accounts, bootstrapped, crossed, raced>>
  BY DEF SaveOrg, Inv, Types, TypeOK
<1>2. CASE SlugTaken(r.slug)
  <2>1. Finish(q) /\ UNCHANGED <<orgs, told>>
    BY <1>2 DEF SaveOrg
  <2> QED BY <1>1, <2>1, IdleStep DEF histories
<1>3. CASE ~SlugTaken(r.slug)
  <2>1. PICK o \in {x \in Orgs : orgs[x] = None} :
           /\ orgs' = [orgs EXCEPT ![o] = row] /\ told' = [told EXCEPT ![o] = row]
           /\ Run(q, [pc |-> "findEmail", org |-> o, email |-> r.email, role |-> "ORG_ADMIN"])
    BY <1>3 DEF SaveOrg
  <2>2. r.slug \in Slugs /\ r.email \in Emails /\ "ORG_ADMIN" \in Role
    BY <1>1, Kinds DEF Role
  <2>3. row \in Org /\ row.slug = r.slug
    BY <2>2 DEF Org
  <2> DEFINE n == [pc |-> "findEmail", org |-> o, email |-> r.email, role |-> "ORG_ADMIN"]
  <2>4. n \in Request /\ n.pc = "findEmail"
    BY <2>2, AdminCreationKind
  <2>5. Run(q, n)
    BY <2>1
  <2> HIDE DEF n, row
  <2>6. /\ requests' \in [Requests -> Request]
        /\ \A p \in Requests : requests'[p] = IF p = q THEN n ELSE requests[p]
    BY <2>4, <2>5, RunFacts DEF Inv, Types
  <2>7. /\ orgs' \in [Orgs -> Org \cup {None}] /\ told' \in [Orgs -> Org \cup {None}]
        /\ orgs'[o] = row /\ told'[o] = row
        /\ \A x \in Orgs \ {o} : orgs'[x] = orgs[x] /\ told'[x] = told[x]
    BY <2>1, <2>3 DEF Inv, Types, TypeOK
  <2>8. TypeOK'
    BY <1>1, <2>6, <2>7 DEF Inv, Types, TypeOK
  <2>9. \A p \in Requests : requests[p].pc = "saveChange" =>
           requests[p].org \in Orgs /\ requests[p].org # o
    BY <2>1, Kinds DEF Inv, Types, TypeOK, RequestsOK
  <2>10. RequestsOK' /\ ToldOK'
    <3>1. row # None
      BY <2>3, RowsAssumption
    <3>2. ToldOK'
      BY <2>7, <3>1 DEF Inv, Types, ToldOK
    <3>3. RequestsOK'
      BY <1>1, <2>4, <2>6, <2>7, <2>9 DEF Inv, Types, RequestsOK
    <3> QED BY <3>2, <3>3
  <2>11. ReadsCurrent'
    BY <1>1, <2>4, <2>6, <2>7, <2>9 DEF Inv, ReadsCurrent
  <2>12. OneRowEach'
    <3>1. \A x \in Orgs : orgs[x] # None => orgs[x].slug # r.slug
      BY <1>3 DEF SlugTaken
    <3>2. ASSUME NEW x \in Orgs, NEW y \in Orgs,
                 orgs'[x] # None, orgs'[y] # None, orgs'[x].slug = orgs'[y].slug
          PROVE  x = y
      BY <2>3, <2>7, <3>1, <3>2 DEF Inv, OneRowEach
    <3> QED BY <1>1, <3>2 DEF Inv, OneRowEach
  <2>13. OthersRemain'
    BY <1>1, <2>4, <2>6, SameAdmins DEF Inv, OthersRemain
  <2> QED BY <2>8, <2>10, <2>11, <2>12, <2>13 DEF Inv, Types
<1> QED BY <1>2, <1>3

LEMMA SaveAdminStep == ASSUME Inv, NEW q \in Requests, SaveAdmin(q) PROVE Inv'
<1> DEFINE r == requests[q]
           row == [org |-> r.org, email |-> r.email, role |-> r.role, status |-> "ACTIVE"]
<1>1. /\ r.pc = "saveAdmin" /\ r \in Request /\ Finish(q)
      /\ UNCHANGED <<orgs, told, crossed, raced>>
  BY DEF SaveAdmin, Inv, Types, TypeOK
<1>2. CASE EmailTaken(r.email)
  <2>1. UNCHANGED <<accounts, bootstrapped>>
    BY <1>2 DEF SaveAdmin
  <2> QED BY <1>1, <2>1, IdleStep DEF histories
<1>3. CASE ~EmailTaken(r.email)
  <2>1. PICK a \in {x \in Accounts : accounts[x] = None} :
           /\ accounts' = [accounts EXCEPT ![a] = row]
           /\ bootstrapped' = IF r.role = "ORG_ADMIN" THEN bootstrapped \cup {r.org}
                              ELSE bootstrapped
    BY <1>3 DEF SaveAdmin
  <2>2. r.org \in Orgs /\ r.email \in Emails /\ r.role \in Role
    BY <1>1, Kinds
  <2>3. /\ row \in Account /\ row.email = r.email /\ row.org = r.org /\ row.role = r.role
        /\ row.status = "ACTIVE"
    BY <2>2 DEF Account
  <2> HIDE DEF row
  <2>4. /\ requests' \in [Requests -> Request]
        /\ \A p \in Requests : requests'[p] = IF p = q THEN Idle ELSE requests[p]
    BY <1>1, FinishFacts DEF Inv, Types
  <2>5. /\ accounts' \in [Accounts -> Account \cup {None}] /\ accounts'[a] = row
        /\ \A x \in Accounts \ {a} : accounts'[x] = accounts[x]
    BY <2>1, <2>3 DEF Inv, Types, TypeOK
  <2>6. row # None
    BY <2>3, RowsAssumption
  <2>7. TypeOK'
    BY <1>1, <2>1, <2>2, <2>4, <2>5 DEF Inv, Types, TypeOK
  <2>8. RequestsOK'
    BY <1>1, <2>4, <2>5, <2>6, Kinds DEF Inv, Types, TypeOK, RequestsOK
  <2>9. ToldOK' /\ ReadsCurrent'
    BY <1>1, <2>4, Kinds DEF Inv, Types, ToldOK, ReadsCurrent
  <2>10. OneRowEach'
    <3>1. \A x \in Accounts : accounts[x] # None => accounts[x].email # r.email
      BY <1>3 DEF EmailTaken
    <3>2. ASSUME NEW x \in Accounts, NEW y \in Accounts,
                 accounts'[x] # None, accounts'[y] # None, accounts'[x].email = accounts'[y].email
          PROVE  x = y
      BY <2>3, <2>5, <3>1, <3>2 DEF Inv, OneRowEach
    <3> QED BY <1>1, <3>2 DEF Inv, OneRowEach
  <2>11. ASSUME NEW o \in Orgs
         PROVE  /\ ActiveOrgAdmins(o) \subseteq ActiveOrgAdmins(o)'
                /\ r.role = "ORG_ADMIN" /\ r.org = o => a \in ActiveOrgAdmins(o)'
    BY <2>1, <2>3, <2>5, <2>6, <2>11 DEF ActiveOrgAdmins
  <2> HIDE DEF r
  <2>12. ASSUME NEW o \in bootstrapped' \ raced' PROVE ActiveOrgAdmins(o)' # {}
    <3>1. o \in Orgs /\ o \notin raced /\ (o \in bootstrapped \/ (r.role = "ORG_ADMIN" /\ r.org = o))
      BY <1>1, <2>1, <2>2, <2>12 DEF Inv, Types, TypeOK
    <3>2. CASE o \in bootstrapped
      BY <2>11, <3>1, <3>2 DEF Inv, OthersRemain
    <3> QED BY <2>11, <3>1, <3>2
  <2>13. ASSUME NEW p \in Requests, NEW x \in Accounts, NEW o \in Orgs \ raced',
                requests'[p].pc = "saveDisabled", requests'[p].account = x,
                accounts'[x].role = "ORG_ADMIN", accounts'[x].org = o
         PROVE  ActiveOrgAdmins(o)' \ {x} # {}
    <3>1. requests'[p] = requests[p] /\ o \in Orgs \ raced
      BY <1>1, <2>4, <2>13, Kinds
    <3>2. accounts[x] # None
      BY <2>13, <3>1 DEF Inv, Types, RequestsOK
    <3>3. accounts'[x] = accounts[x]
      BY <2>1, <2>5, <3>2
    <3>4. ActiveOrgAdmins(o) \ {x} # {}
      BY <2>13, <3>1, <3>3 DEF Inv, OthersRemain
    <3> QED BY <2>11, <3>4
  <2>14. OthersRemain'
    BY <2>12, <2>13 DEF OthersRemain
  <2> QED BY <2>7, <2>8, <2>9, <2>10, <2>14 DEF Inv, Types
<1> QED BY <1>2, <1>3

LEMMA SaveDisabledStep == ASSUME Inv, NEW q \in Requests, SaveDisabled(q) PROVE Inv'
<1>1. PICK a \in Accounts : requests[q].account = a /\ accounts[a] # None
  BY Kinds DEF SaveDisabled, Inv, Types, TypeOK, RequestsOK
<1>2. accounts[a] \in Account
  BY <1>1 DEF Inv, Types, TypeOK
<1>3. PICK o \in Orgs : accounts[a].org = o
  BY <1>2 DEF Account
<1> DEFINE row == [accounts[a] EXCEPT !.status = "DISABLED"]
<1>4. /\ row \in Account /\ row.org = o /\ row.email = accounts[a].email
      /\ row.role = accounts[a].role /\ row.status = "DISABLED"
  BY <1>2, <1>3 DEF Account
<1>5. /\ requests[q].pc = "saveDisabled" /\ Finish(q)
      /\ accounts' = [accounts EXCEPT ![a] = row]
      /\ raced' = IF Counted(o, q) # {} THEN raced \cup {o} ELSE raced
      /\ UNCHANGED <<orgs, bootstrapped, told, crossed>>
  BY <1>1, <1>3 DEF SaveDisabled
<1> HIDE DEF row
<1>6. /\ requests' \in [Requests -> Request]
      /\ \A p \in Requests : requests'[p] = IF p = q THEN Idle ELSE requests[p]
  BY <1>5, FinishFacts DEF Inv, Types
<1>7. /\ accounts' \in [Accounts -> Account \cup {None}] /\ accounts'[a] = row /\ row # None
      /\ \A x \in Accounts \ {a} : accounts'[x] = accounts[x]
  BY <1>4, <1>5, RowsAssumption DEF Inv, Types, TypeOK
<1>8. TypeOK'
  BY <1>3, <1>5, <1>6, <1>7 DEF Inv, Types, TypeOK
<1>9. RequestsOK'
  BY <1>5, <1>6, <1>7, Kinds DEF Inv, Types, TypeOK, RequestsOK
<1>10. ToldOK' /\ ReadsCurrent'
  BY <1>5, <1>6, Kinds DEF Inv, Types, ToldOK, ReadsCurrent
<1>11. OneRowEach'
  <2>1. \A x \in Accounts : /\ accounts'[x] # None => accounts[x] # None
                            /\ accounts'[x].email = accounts[x].email
    BY <1>1, <1>4, <1>7
  <2> QED BY <1>5, <2>1 DEF Inv, OneRowEach
<1>12. ASSUME NEW x \in Orgs
       PROVE  /\ x # o => ActiveOrgAdmins(x) \subseteq ActiveOrgAdmins(x)'
              /\ ActiveOrgAdmins(x) \ {a} \subseteq ActiveOrgAdmins(x)'
              /\ accounts[a].role # "ORG_ADMIN" => ActiveOrgAdmins(x) \subseteq ActiveOrgAdmins(x)'
  BY <1>3, <1>7, <1>12 DEF ActiveOrgAdmins
<1>13. \A x \in Accounts : accounts'[x].role = accounts[x].role /\ accounts'[x].org = accounts[x].org
  BY <1>3, <1>4, <1>7
<1>14. ASSUME NEW x \in bootstrapped' \ raced' PROVE ActiveOrgAdmins(x)' # {}
  <2>1. x \in Orgs /\ x \in bootstrapped \ raced
    BY <1>5, <1>14 DEF Inv, Types, TypeOK
  <2>2. ActiveOrgAdmins(x) # {}
    BY <2>1 DEF Inv, OthersRemain
  <2>3. CASE x # o \/ accounts[a].role # "ORG_ADMIN"
    BY <1>12, <2>1, <2>2, <2>3
  <2>4. CASE x = o /\ accounts[a].role = "ORG_ADMIN"
    <3>1. ActiveOrgAdmins(x) \ {a} # {}
      BY <1>1, <1>3, <1>5, <2>1, <2>4 DEF Inv, OthersRemain
    <3> QED BY <1>12, <2>1, <3>1
  <2> QED BY <2>3, <2>4
<1>15. ASSUME NEW p \in Requests, NEW x \in Accounts, NEW y \in Orgs \ raced',
              requests'[p].pc = "saveDisabled", requests'[p].account = x,
              accounts'[x].role = "ORG_ADMIN", accounts'[x].org = y
       PROVE  ActiveOrgAdmins(y)' \ {x} # {}
  <2>1. p # q /\ requests'[p] = requests[p] /\ y \in Orgs \ raced
    BY <1>5, <1>6, <1>15, Kinds
  <2>2. ActiveOrgAdmins(y) \ {x} # {}
    BY <1>13, <1>15, <2>1 DEF Inv, OthersRemain
  <2>3. y # o
    <3>1. y = o => p \in Counted(o, q)
      BY <1>13, <1>15, <2>1 DEF Counted
    <3>2. y = o => y \in raced'
      BY <1>5, <3>1
    <3> QED BY <1>15, <3>2
  <2> QED BY <1>12, <2>1, <2>2, <2>3
<1>16. OthersRemain'
  BY <1>14, <1>15 DEF OthersRemain
<1> QED BY <1>8, <1>9, <1>10, <1>11, <1>16 DEF Inv, Types

LEMMA ChangedFacts ==
    ASSUME NEW row \in Org, NEW set \in Columns \cup {"status"}
    PROVE  /\ Changed(row, set) \in Org /\ Changed(row, set).slug = row.slug
           /\ Changed(row, set) = IF set = "status" THEN [row EXCEPT !.status = "SUSPENDED"]
                                  ELSE [row EXCEPT !.columns = @ \cup {set}]
BY DEF Changed, Org

LEMMA SaveChangeStep == ASSUME Inv, NEW q \in Requests, SaveChange(q) PROVE Inv'
<1>1. requests[q].pc = "saveChange" /\ requests[q] \in Request
  BY DEF SaveChange, Inv, Types, TypeOK
<1>2. PICK o \in Orgs, row \in Org, set \in Columns \cup {"status"} :
         requests[q].org = o /\ requests[q].row = row /\ requests[q].set = set
  BY <1>1, Kinds
<1> DEFINE new == Changed(row, set)
           add == Changed(told[o], set)
<1>3. new \in Org /\ new.slug = row.slug /\ new # None
  BY <1>2, ChangedFacts, RowsAssumption
<1>4. /\ orgs[o] # None /\ orgs[o] \in Org /\ told[o] # None /\ told[o] \in Org
      /\ orgs[o].slug = row.slug /\ row.status = "ACTIVE"
  BY <1>1, <1>2 DEF Inv, Types, TypeOK, RequestsOK, ToldOK
<1>5. add \in Org /\ add # None
  BY <1>2, <1>4, ChangedFacts, RowsAssumption
<1>6. /\ orgs' = [orgs EXCEPT ![o] = new]
      /\ told' = [told EXCEPT ![o] = IF set = "status" THEN [told[o] EXCEPT !.status = "SUSPENDED"]
                                     ELSE [told[o] EXCEPT !.columns = @ \cup {set}]]
      /\ crossed' = IF Changing(o, q) # {} THEN crossed \cup {o} ELSE crossed
      /\ Finish(q) /\ UNCHANGED <<accounts, bootstrapped, raced>>
  BY <1>2 DEF SaveChange
<1>7. /\ requests' \in [Requests -> Request]
      /\ \A p \in Requests : requests'[p] = IF p = q THEN Idle ELSE requests[p]
  BY <1>6, FinishFacts DEF Inv, Types
<1>8. told'[o] = add /\ told' \in [Orgs -> Org \cup {None}]
  <2>1. told' = [told EXCEPT ![o] = add]
    BY <1>6 DEF Changed
  <2> HIDE DEF add
  <2> QED BY <1>5, <2>1 DEF Inv, Types, TypeOK
<1> HIDE DEF new, add
<1>9. /\ orgs' \in [Orgs -> Org \cup {None}] /\ orgs'[o] = new
      /\ \A x \in Orgs \ {o} : orgs'[x] = orgs[x] /\ told'[x] = told[x]
  BY <1>3, <1>6 DEF Inv, Types, TypeOK
<1>10. TypeOK'
  BY <1>6, <1>7, <1>8, <1>9 DEF Inv, Types, TypeOK
<1>11. RequestsOK'
  BY <1>3, <1>4, <1>6, <1>7, <1>9, Kinds DEF Inv, Types, TypeOK, RequestsOK
<1>12. ToldOK'
  BY <1>3, <1>4, <1>5, <1>8, <1>9 DEF Inv, Types, ToldOK
<1>13. OneRowEach'
  <2>1. \A x \in Orgs : /\ orgs'[x] # None => orgs[x] # None
                        /\ orgs'[x].slug = orgs[x].slug
    BY <1>3, <1>4, <1>9
  <2> QED BY <1>6, <2>1 DEF Inv, OneRowEach
<1>14. OthersRemain'
  <2>1. \A x \in Orgs : ActiveOrgAdmins(x)' = ActiveOrgAdmins(x)
    BY <1>6, SameAdmins
  <2> QED BY <1>6, <1>7, <2>1, Kinds DEF Inv, Types, TypeOK, OthersRemain
<1>15. ReadsCurrent'
  <2>1. ASSUME NEW x \in Orgs \ crossed' PROVE orgs'[x] = told'[x]
    <3>1. x \in Orgs \ crossed
      BY <1>6, <2>1
    <3>2. orgs[x] = told[x]
      BY <3>1 DEF Inv, ReadsCurrent
    <3>3. x = o => row = told[o]
      BY <1>1, <1>2, <3>1, <3>2 DEF Inv, ReadsCurrent
    <3> QED BY <1>8, <1>9, <3>2, <3>3 DEF new, add
  <2>2. ASSUME NEW x \in Orgs \ crossed', NEW p \in Requests,
               requests'[p].pc = "saveChange", requests'[p].org = x
        PROVE  requests'[p].row = orgs'[x]
    <3>1. p # q /\ requests'[p] = requests[p] /\ x \in Orgs \ crossed
      BY <1>6, <1>7, <2>2, Kinds
    <3>2. x # o
      BY <1>6, <2>2, <3>1 DEF Changing
    <3> QED BY <1>9, <2>2, <3>1, <3>2 DEF Inv, ReadsCurrent
  <2> QED BY <2>1, <2>2 DEF ReadsCurrent
<1> QED BY <1>10, <1>11, <1>12, <1>13, <1>14, <1>15 DEF Inv, Types

----------------------------------------------------------------------------

LEMMA InvInit == Init => Inv
<1> SUFFICES ASSUME Init PROVE Inv
  OBVIOUS
<1>1. TypeOK
  BY Kinds DEF Init, TypeOK
<1>2. \A q \in Requests : requests[q].pc = "idle"
  BY Kinds DEF Init
<1> QED BY <1>1, <1>2 DEF Init, Inv, Types, RequestsOK, ToldOK, OneRowEach, ReadsCurrent,
                            OthersRemain

LEMMA InvStep == Inv /\ [Next]_vars => Inv'
<1> SUFFICES ASSUME Inv, [Next]_vars PROVE Inv'
  OBVIOUS
<1>1. CASE UNCHANGED vars
  <2>1. \A o \in Orgs : ActiveOrgAdmins(o)' = ActiveOrgAdmins(o)
    BY <1>1, SameAdmins DEF vars
  <2>2. OthersRemain'
    BY <1>1, <2>1 DEF Inv, Types, TypeOK, OthersRemain, vars, histories
  <2> QED BY <1>1, <2>2 DEF Inv, Types, TypeOK, RequestsOK, ToldOK, OneRowEach, ReadsCurrent,
                            vars, histories
<1>2. ASSUME NEW q \in Requests, RequestFails(q) PROVE Inv'
  BY <1>2, IdleStep DEF RequestFails
<1> QED BY <1>1, <1>2, BeginCreateStep, SaveOrgStep, BeginCreateAdminStep, FindEmailStep,
           SaveAdminStep, BeginDisableStep, CountStep, SaveDisabledStep, BeginChangeStep,
           SaveChangeStep DEF Next

LEMMA Invariance == Spec => []Inv
BY InvInit, InvStep, PTL DEF Spec

\* The tables, the requests and the histories keep their types.
THEOREM TypeCorrect == Spec => []TypeOK
<1>1. Inv => TypeOK
  BY DEF Inv, Types
<1> QED BY <1>1, Invariance, PTL

\* No two organizations share a slug and no two accounts an email, however the creations
\* overlap.
THEOREM OneRow == Spec => []OneRowEach
<1>1. Inv => OneRowEach
  BY DEF Inv
<1> QED BY <1>1, Invariance, PTL

\* An organization that has had an admin keeps an active one unless two disables
\* overlapped.
THEOREM AdminStays == Spec => []AdminRemains
<1>1. Inv => AdminRemains
  BY DEF Inv, OthersRemain, AdminRemains
<1> QED BY <1>1, Invariance, PTL

\* Only a save over somebody's read loses a change of an organization.
THEOREM AddsUp == Spec => []ChangesAddUp
<1>1. Inv => ChangesAddUp
  BY DEF Inv, ReadsCurrent, ChangesAddUp
<1> QED BY <1>1, Invariance, PTL

\* A suspended organization stays as it is unless the suspension was saved over a read.
THEOREM Freezes == Spec => SuspensionFreezes
<1> DEFINE Frozen == \A o \in Orgs \ crossed :
                        orgs[o] # None /\ orgs[o].status = "SUSPENDED" => orgs'[o] = orgs[o]
<1>1. Inv /\ [Next]_vars => [Frozen]_vars
  <2> SUFFICES ASSUME Inv, Next, NEW o \in Orgs \ crossed,
                      orgs[o] # None, orgs[o].status = "SUSPENDED"
               PROVE  orgs'[o] = orgs[o]
    OBVIOUS
  <2>1. PICK q \in Requests : SaveOrg(q) \/ SaveChange(q) \/ UNCHANGED orgs
    BY DEF Next, BeginCreate, BeginCreateAdmin, FindEmail, SaveAdmin, BeginDisable,
           CountActiveOrgAdmins, SaveDisabled, BeginChange, RequestFails
  <2>2. CASE SaveOrg(q)
    BY <2>2 DEF SaveOrg, Inv, Types, TypeOK
  <2>3. CASE SaveChange(q)
    <3>1. requests[q].org # o
      BY <2>3 DEF SaveChange, Inv, Types, RequestsOK, ReadsCurrent
    <3> QED BY <2>3, <3>1 DEF SaveChange, Inv, Types, TypeOK
  <2> QED BY <2>1, <2>2, <2>3
<1> QED BY <1>1, Invariance, PTL DEF Spec, SuspensionFreezes

----------------------------------------------------------------------------
(* The refinement of OrganizationRegistry.  Who adds an admin to an organization, and *)
(* who saves one over a read, has found it.                                            *)

OrgsThere ==
    /\ \A q \in Requests :
          requests[q].pc \in {"findEmail", "saveAdmin"} => orgs[requests[q].org] # None
    /\ \A o \in crossed : orgs[o] # None

LEMMA OrgsThereReadStep ==
    ASSUME Inv, OrgsThere, NEW q \in Requests, NEW r \in Request, Run(q, r),
           UNCHANGED <<orgs, crossed>>,
           r.pc \in {"findEmail", "saveAdmin"} => orgs[r.org] # None
    PROVE  OrgsThere'
BY RunFacts DEF Inv, Types, OrgsThere

LEMMA OrgsThereFinish ==
    ASSUME Inv, OrgsThere, NEW q \in Requests, Finish(q), UNCHANGED <<orgs, crossed>>
    PROVE  OrgsThere'
BY Kinds, OrgsThereReadStep DEF Finish

LEMMA OrgsThereStep == Inv /\ OrgsThere /\ [Next]_vars => OrgsThere'
<1> SUFFICES ASSUME Inv, OrgsThere, [Next]_vars PROVE OrgsThere'
  OBVIOUS
<1>1. CASE UNCHANGED vars
  BY <1>1 DEF OrgsThere, vars, histories
<1>2. ASSUME NEW q \in Requests, NEW s \in Slugs, NEW e \in Emails, BeginCreate(q, s, e)
      PROVE  OrgsThere'
  <2> DEFINE r == [pc |-> "saveOrg", slug |-> s, email |-> e]
  <2>1. r \in Request /\ r.pc = "saveOrg"
    BY DEF Request, Creation
  <2>2. Run(q, r) /\ UNCHANGED <<orgs, crossed>>
    BY <1>2 DEF BeginCreate, histories
  <2> HIDE DEF r
  <2> QED BY <2>1, <2>2, OrgsThereReadStep
<1>3. ASSUME NEW q \in Requests, SaveOrg(q) PROVE OrgsThere'
  <2>1. UNCHANGED crossed /\ requests[q].pc = "saveOrg" /\ requests[q] \in Request
    BY <1>3 DEF SaveOrg, Inv, Types, TypeOK
  <2>2. CASE SlugTaken(requests[q].slug)
    <3>1. Finish(q) /\ UNCHANGED orgs
      BY <1>3, <2>2 DEF SaveOrg
    <3> QED BY <2>1, <3>1, OrgsThereFinish
  <2>3. CASE ~SlugTaken(requests[q].slug)
    <3>1. PICK slug \in Slugs, email \in Emails :
             requests[q].slug = slug /\ requests[q].email = email
      BY <2>1, Kinds
    <3> DEFINE row == [slug |-> slug, status |-> "ACTIVE", columns |-> {}]
    <3>2. PICK o \in Orgs :
             /\ orgs' = [orgs EXCEPT ![o] = row]
             /\ Run(q, [pc |-> "findEmail", org |-> o, email |-> email, role |-> "ORG_ADMIN"])
      BY <1>3, <2>3, <3>1 DEF SaveOrg
    <3>3. row \in Org
      BY DEF Org
    <3>4. row # None
      BY <3>3, RowsAssumption
    <3> HIDE DEF row
    <3> DEFINE n == [pc |-> "findEmail", org |-> o, email |-> email, role |-> "ORG_ADMIN"]
    <3>5. n \in Request /\ n.org = o /\ Run(q, n)
      BY <3>2, AdminCreationKind DEF Role
    <3> HIDE DEF n
    <3>6. /\ \A p \in Requests : requests'[p] = IF p = q THEN n ELSE requests[p]
      BY <3>5, RunFacts DEF Inv, Types
    <3>7. orgs'[o] # None /\ \A x \in Orgs : orgs[x] # None => orgs'[x] # None
      BY <3>2, <3>4 DEF Inv, Types, TypeOK
    <3>8. \A p \in Requests : requests[p].pc \in {"findEmail", "saveAdmin"} => requests[p].org \in Orgs
      BY Kinds DEF Inv, Types, TypeOK
    <3>9. crossed \subseteq Orgs
      BY DEF Inv, Types, TypeOK
    <3> QED BY <2>1, <3>5, <3>6, <3>7, <3>8, <3>9 DEF OrgsThere
  <2> QED BY <2>2, <2>3
<1>4. ASSUME NEW q \in Requests, NEW o \in Orgs, NEW e \in Emails, NEW role \in Role,
             BeginCreateAdmin(q, o, e, role)
      PROVE  OrgsThere'
  <2> DEFINE r == [pc |-> "findEmail", org |-> o, email |-> e, role |-> role]
  <2>1. r \in Request /\ r.org = o
    BY AdminCreationKind
  <2>2. Run(q, r) /\ orgs[o] # None /\ UNCHANGED <<orgs, crossed>>
    BY <1>4 DEF BeginCreateAdmin, histories
  <2> HIDE DEF r
  <2> QED BY <2>1, <2>2, OrgsThereReadStep
<1>5. ASSUME NEW q \in Requests, FindEmail(q) PROVE OrgsThere'
  <2> DEFINE r == [requests[q] EXCEPT !.pc = "saveAdmin"]
  <2>1. /\ requests[q].pc = "findEmail" /\ UNCHANGED <<orgs, crossed>>
        /\ Finish(q) \/ Run(q, r)
    BY <1>5 DEF FindEmail, histories
  <2>2. requests[q] \in AdminCreation /\ orgs[requests[q].org] # None
    BY <2>1 DEF OrgsThere, Inv, Types, TypeOK, Request, Idle, Creation, AdminCreation, Disabling, Change
  <2>3. r \in Request /\ r.org = requests[q].org
    BY <2>2 DEF Request, AdminCreation
  <2> HIDE DEF r
  <2> QED BY <2>1, <2>2, <2>3, OrgsThereReadStep, OrgsThereFinish
<1>6. ASSUME NEW q \in Requests, NEW a \in Accounts, BeginDisable(q, a) PROVE OrgsThere'
  <2> DEFINE pc == IF accounts[a].role = "ORG_ADMIN" THEN "count" ELSE "saveDisabled"
             r == [pc |-> pc, account |-> a]
  <2>1. r \in Request /\ r.pc \in {"count", "saveDisabled"}
    BY DEF Request, Disabling
  <2>2. Run(q, r) /\ UNCHANGED <<orgs, crossed>>
    BY <1>6 DEF BeginDisable, histories
  <2> HIDE DEF r
  <2> QED BY <2>1, <2>2, OrgsThereReadStep
<1>7. ASSUME NEW q \in Requests, CountActiveOrgAdmins(q) PROVE OrgsThere'
  <2> DEFINE r == [requests[q] EXCEPT !.pc = "saveDisabled"]
  <2>1. /\ requests[q].pc = "count" /\ UNCHANGED <<orgs, crossed>>
        /\ Finish(q) \/ Run(q, r)
    BY <1>7 DEF CountActiveOrgAdmins, histories
  <2>2. requests[q] \in Disabling
    BY <2>1 DEF Inv, Types, TypeOK, Request, Idle, Creation, AdminCreation, Disabling, Change
  <2>3. r \in Request /\ r.pc = "saveDisabled"
    BY <2>2 DEF Request, Disabling
  <2> HIDE DEF r
  <2> QED BY <2>1, <2>3, OrgsThereReadStep, OrgsThereFinish
<1>8. ASSUME NEW q \in Requests, NEW o \in Orgs, NEW set \in Columns \cup {"status"},
             BeginChange(q, o, set)
      PROVE  OrgsThere'
  <2> DEFINE r == [pc |-> "saveChange", org |-> o, row |-> orgs[o], set |-> set]
  <2>1. orgs[o] \in Org /\ Run(q, r) /\ UNCHANGED <<orgs, crossed>>
    BY <1>8 DEF BeginChange, histories, Inv, Types, TypeOK
  <2>2. r \in Request /\ r.pc = "saveChange"
    BY <2>1 DEF Request, Change
  <2> HIDE DEF r
  <2> QED BY <2>1, <2>2, OrgsThereReadStep
<1>9. ASSUME NEW q \in Requests, SaveChange(q) PROVE OrgsThere'
  <2>1. requests[q].pc = "saveChange" /\ requests[q] \in Request /\ Finish(q)
    BY <1>9 DEF SaveChange, Inv, Types, TypeOK
  <2>2. PICK o \in Orgs, row \in Org, set \in Columns \cup {"status"} :
           requests[q].org = o /\ requests[q].row = row /\ requests[q].set = set
    BY <2>1, Kinds
  <2>3. Changed(row, set) \in Org
    BY ChangedFacts
  <2>4. /\ orgs' = [orgs EXCEPT ![o] = Changed(row, set)] /\ crossed' \subseteq crossed \cup {o}
        /\ Changed(row, set) # None
    BY <1>9, <2>2, <2>3, RowsAssumption DEF SaveChange
  <2>5. \A x \in Orgs : orgs[x] # None => orgs'[x] # None
    BY <2>4 DEF Inv, Types, TypeOK
  <2>6. orgs[o] # None
    BY <2>1, <2>2 DEF Inv, Types, RequestsOK
  <2>7. \A p \in Requests : requests'[p].pc # "idle" => requests'[p] = requests[p]
    BY <2>1, FinishFacts, Kinds DEF Inv, Types
  <2>8. \A p \in Requests : requests[p].pc \in {"findEmail", "saveAdmin"} => requests[p].org \in Orgs
    BY Kinds DEF Inv, Types, TypeOK
  <2>9. crossed \subseteq Orgs
    BY DEF Inv, Types, TypeOK
  <2> QED BY <2>4, <2>5, <2>6, <2>7, <2>8, <2>9 DEF OrgsThere
<1>10. ASSUME NEW q \in Requests, SaveAdmin(q) \/ SaveDisabled(q) \/ RequestFails(q)
       PROVE  OrgsThere'
  BY <1>10, OrgsThereFinish DEF SaveAdmin, SaveDisabled, RequestFails, histories
<1> QED BY <1>1, <1>2, <1>3, <1>4, <1>5, <1>6, <1>7, <1>8, <1>9, <1>10 DEF Next

LEMMA OrgsThereInit == Init => OrgsThere
BY Kinds DEF Init, OrgsThere

LEMMA OrgsThereInvariance == Spec => [](Inv /\ OrgsThere)
BY InvInit, InvStep, OrgsThereInit, OrgsThereStep, PTL DEF Spec

\* What the refinement maps the organizations to.
Seen == [o \in Orgs |-> IF o \in crossed THEN None ELSE orgs[o]]

LEMMA SaveOrgIsCreate ==
    ASSUME Inv, OrgsThere, NEW q \in Requests, SaveOrg(q)
    PROVE  Registry!Next \/ UNCHANGED <<Seen, accounts, crossed, raced>>
<1>1. /\ requests[q].pc = "saveOrg" /\ requests[q] \in Request
      /\ UNCHANGED <<accounts, crossed, raced>>
  BY DEF SaveOrg, Inv, Types, TypeOK
<1>2. PICK slug \in Slugs : requests[q].slug = slug
  BY <1>1, Kinds
<1>3. CASE SlugTaken(slug)
  <2>1. UNCHANGED orgs
    BY <1>2, <1>3 DEF SaveOrg
  <2> QED BY <1>1, <2>1 DEF Seen
<1>4. CASE ~SlugTaken(slug)
  <2> DEFINE row == [slug |-> slug, status |-> "ACTIVE", columns |-> {}]
  <2>1. PICK o \in Orgs : orgs[o] = None /\ orgs' = [orgs EXCEPT ![o] = row]
    BY <1>2, <1>4 DEF SaveOrg
  <2>2. o \notin crossed /\ Seen[o] = None
    BY <2>1 DEF OrgsThere, Seen
  <2>3. \A x \in Orgs : Seen[x] # None => Seen[x].slug # slug
    BY <1>4 DEF SlugTaken, Seen
  <2>4. Seen' = [Seen EXCEPT ![o] = row]
    <3>1. Seen' = [x \in Orgs |-> IF x \in crossed' THEN None ELSE orgs'[x]]
      BY DEF Seen
    <3>2. orgs'[o] = row /\ \A x \in Orgs \ {o} : orgs'[x] = orgs[x]
      BY <2>1 DEF Inv, Types, TypeOK
    <3> QED BY <1>1, <2>2, <3>1, <3>2 DEF Seen
  <2>5. Registry!Create(o, slug)
    BY <1>1, <2>2, <2>3, <2>4 DEF Registry!Create, Seen
  <2> QED BY <2>5 DEF Registry!Next
<1> QED BY <1>3, <1>4

LEMMA SaveChangeIsChange ==
    ASSUME Inv, OrgsThere, NEW q \in Requests, SaveChange(q)
    PROVE  Registry!Next \/ UNCHANGED <<Seen, accounts, crossed, raced>>
<1>1. requests[q].pc = "saveChange" /\ requests[q] \in Request
  BY DEF SaveChange, Inv, Types, TypeOK
<1>2. PICK o \in Orgs, row \in Org, set \in Columns \cup {"status"} :
         requests[q].org = o /\ requests[q].row = row /\ requests[q].set = set
  BY <1>1, Kinds
<1> DEFINE new == Changed(row, set)
<1>3. /\ orgs' = [orgs EXCEPT ![o] = new]
      /\ crossed' = IF Changing(o, q) # {} THEN crossed \cup {o} ELSE crossed
      /\ UNCHANGED <<accounts, raced>>
  BY <1>2 DEF SaveChange
<1>4. /\ orgs[o] # None /\ orgs'[o] = new /\ row.status = "ACTIVE"
      /\ \A x \in Orgs \ {o} : orgs'[x] = orgs[x]
  BY <1>1, <1>2, <1>3 DEF Inv, Types, TypeOK, RequestsOK
<1>5. new = IF set = "status" THEN [row EXCEPT !.status = "SUSPENDED"]
            ELSE [row EXCEPT !.columns = row.columns \cup {set}]
  BY DEF Changed
<1> HIDE DEF new
<1>6. Seen' = [x \in Orgs |-> IF x \in crossed' THEN None ELSE orgs'[x]]
  BY DEF Seen
<1>7. CASE o \in crossed
  <2>1. UNCHANGED crossed
    BY <1>3, <1>7
  <2>2. Seen' = Seen
    BY <1>4, <1>6, <1>7, <2>1 DEF Seen
  <2> QED BY <1>3, <2>1, <2>2
<1>8. CASE o \notin crossed /\ Changing(o, q) # {}
  <2>1. crossed' = crossed \cup {o} /\ Seen' = [Seen EXCEPT ![o] = None]
    BY <1>3, <1>4, <1>6, <1>8 DEF Seen
  <2>2. Seen[o] # None
    BY <1>4, <1>8 DEF Seen
  <2> QED BY <1>3, <2>1, <2>2 DEF Registry!Next, Registry!Lose, Seen
<1>9. CASE o \notin crossed /\ Changing(o, q) = {}
  <2>1. UNCHANGED crossed /\ Seen[o] = orgs[o] /\ Seen' = [Seen EXCEPT ![o] = new]
    BY <1>3, <1>4, <1>6, <1>9 DEF Seen
  <2>2. orgs[o] = row
    BY <1>1, <1>2, <1>9 DEF Inv, ReadsCurrent
  <2>3. Seen' = [Seen EXCEPT ![o].status = "SUSPENDED"]
        \/ \E c \in Columns : Seen' = [Seen EXCEPT ![o].columns = Seen[o].columns \cup {c}]
    BY <1>5, <2>1, <2>2
  <2>4. Registry!Change(o)
    BY <1>3, <1>4, <2>1, <2>2, <2>3 DEF Registry!Change, Seen
  <2>5. o \in {x \in Orgs : Seen[x] # None}
    BY <1>4, <2>1
  <2> QED BY <2>4, <2>5 DEF Registry!Next, Seen
<1> QED BY <1>7, <1>8, <1>9

LEMMA SaveAdminIsAdd ==
    ASSUME Inv, OrgsThere, NEW q \in Requests, SaveAdmin(q)
    PROVE  Registry!Next \/ UNCHANGED <<Seen, accounts, crossed, raced>>
<1>1. /\ requests[q].pc = "saveAdmin" /\ requests[q] \in Request
      /\ UNCHANGED <<orgs, crossed, raced>>
  BY DEF SaveAdmin, Inv, Types, TypeOK
<1>2. UNCHANGED Seen
  BY <1>1 DEF Seen
<1>3. PICK o \in Orgs, email \in Emails, role \in Role :
         requests[q].org = o /\ requests[q].email = email /\ requests[q].role = role
  BY <1>1, Kinds
<1>4. CASE EmailTaken(email)
  BY <1>1, <1>2, <1>3, <1>4 DEF SaveAdmin
<1>5. CASE ~EmailTaken(email)
  <2>1. PICK a \in Accounts :
           /\ accounts[a] = None
           /\ accounts' = [accounts EXCEPT ![a] =
                              [org |-> o, email |-> email, role |-> role, status |-> "ACTIVE"]]
    BY <1>3, <1>5 DEF SaveAdmin
  <2>2. Seen[o] # None \/ o \in crossed
    BY <1>1, <1>3 DEF OrgsThere, Seen
  <2>3. \A x \in Accounts : accounts[x] # None => accounts[x].email # email
    BY <1>5 DEF EmailTaken
  <2>4. Registry!AddAdmin(a, o, email, role)
    BY <1>1, <1>2, <2>1, <2>2, <2>3 DEF Registry!AddAdmin, Seen
  <2> QED BY <2>4 DEF Registry!Next, Role
<1> QED BY <1>4, <1>5

LEMMA SaveDisabledIsDisable ==
    ASSUME Inv, OrgsThere, NEW q \in Requests, SaveDisabled(q)
    PROVE  Registry!Next
<1>1. PICK a \in Accounts : requests[q].account = a /\ accounts[a] # None
  BY Kinds DEF SaveDisabled, Inv, Types, TypeOK, RequestsOK
<1>2. PICK o \in Orgs : accounts[a].org = o
  BY <1>1 DEF Inv, Types, TypeOK, Account
<1>3. /\ requests[q].pc = "saveDisabled"
      /\ accounts' = [accounts EXCEPT ![a].status = "DISABLED"]
      /\ raced' \in {raced, raced \cup {o}}
      /\ UNCHANGED <<orgs, crossed>>
  BY <1>1, <1>2 DEF SaveDisabled
<1>4. UNCHANGED Seen
  BY <1>3 DEF Seen
<1>5. ASSUME accounts[a].role = "ORG_ADMIN", o \notin raced
      PROVE  \E b \in Accounts \ {a} :
                /\ accounts[b] # None
                /\ accounts[b].org = o /\ accounts[b].role = "ORG_ADMIN"
                /\ accounts[b].status = "ACTIVE"
  <2>1. ActiveOrgAdmins(o) \ {a} # {}
    BY <1>1, <1>2, <1>3, <1>5 DEF Inv, OthersRemain
  <2> QED BY <2>1 DEF ActiveOrgAdmins
<1>6. Registry!DisableAdmin(a)
  BY <1>2, <1>3, <1>4, <1>5 DEF Registry!DisableAdmin, Seen
<1> QED BY <1>1, <1>6 DEF Registry!Next

\* Whatever requests overlap, the rows nobody saved over a read change by the whole
\* operations of OrganizationRegistry only, and each judged rightly.
THEOREM ImplementsRegistry == Spec => RegistrySpec
<1>1. Init => Registry!Init
  BY DEF Init, Registry!Init
<1>2. Inv /\ OrgsThere /\ [Next]_vars => [Registry!Next]_(Registry!vars)
  <2> SUFFICES ASSUME Inv, OrgsThere, [Next]_vars
               PROVE  Registry!Next \/ UNCHANGED <<Seen, accounts, crossed, raced>>
    BY DEF Registry!vars, Seen
  <2>1. CASE UNCHANGED <<orgs, accounts, histories>>
    BY <2>1 DEF Seen, histories
  <2> QED BY <2>1, SaveOrgIsCreate, SaveChangeIsChange, SaveAdminIsAdd, SaveDisabledIsDisable
          DEF Next, vars, BeginCreate, BeginCreateAdmin, FindEmail, BeginDisable,
              CountActiveOrgAdmins, BeginChange, RequestFails
<1> QED BY <1>1, <1>2, OrgsThereInvariance, PTL DEF Spec, RegistrySpec, Registry!Spec

----------------------------------------------------------------------------
(* What only overlapping requests can break *)

\* One request is answered before the next one is taken up.
OneAtATime == \A p, q \in Requests : requests[p] # Idle /\ requests[q] # Idle => p = q

Unharmed == crossed = {} /\ raced = {}

LEMMA UnharmedStep == Inv /\ Unharmed /\ OneAtATime /\ [Next]_vars => Unharmed'
<1> SUFFICES ASSUME Inv, Unharmed, OneAtATime, [Next]_vars PROVE Unharmed'
  OBVIOUS
<1>1. ASSUME NEW q \in Requests, SaveDisabled(q) PROVE Unharmed'
  <2>1. PICK o : raced' = IF Counted(o, q) # {} THEN raced \cup {o} ELSE raced
    BY <1>1 DEF SaveDisabled
  <2>2. Counted(o, q) = {}
    BY <1>1, Kinds DEF SaveDisabled, Counted, OneAtATime
  <2> QED BY <1>1, <2>1, <2>2 DEF SaveDisabled, Unharmed
<1>2. ASSUME NEW q \in Requests, SaveChange(q) PROVE Unharmed'
  <2>1. Changing(requests[q].org, q) = {}
    BY <1>2, Kinds DEF SaveChange, Changing, OneAtATime
  <2> QED BY <1>2, <2>1 DEF SaveChange, Unharmed
<1>3. UNCHANGED <<crossed, raced>> => Unharmed'
  BY DEF Unharmed
<1> QED BY <1>1, <1>2, <1>3 DEF Next, BeginCreate, SaveOrg, BeginCreateAdmin, FindEmail, SaveAdmin,
           BeginDisable, CountActiveOrgAdmins, BeginChange, RequestFails, vars, histories

\* DR-002, which the code breaks, and the settings, of which it loses some, are safe as
\* long as requests come one after the other, whichever of them fail.
THEOREM SafeOneByOne == Spec /\ []OneAtATime => [](NoLockout /\ orgs = told)
<1>1. Init => Unharmed
  BY DEF Init, Unharmed
<1>2. Inv /\ Unharmed => NoLockout /\ orgs = told
  BY DEF Inv, Types, TypeOK, ReadsCurrent, OthersRemain, Unharmed, NoLockout
<1> QED BY <1>1, <1>2, UnharmedStep, InvInit, InvStep, PTL DEF Spec

=============================================================================
