------------------------------ MODULE Accounts ------------------------------
(***************************************************************************)
(* Organizations and their admin accounts: OrganizationService,            *)
(* AdminAccountService and the two tables they write.                      *)
(*                                                                         *)
(* There are no transactions: every await is a step.  A change of an       *)
(* organization reads its row and later writes the whole row back.  New    *)
(* rows are kept apart by the unique constraints on slug and email only.   *)
(***************************************************************************)
EXTENDS FiniteSets, Naturals

CONSTANTS
    Orgs, Accounts,     \* ids of rows
    Slugs, Emails,
    Columns,            \* branding, payment_creds, payment_details, ...
    Requests,           \* slots for requests in flight at the same time
    None                \* no row; SQL NULL

ASSUME NoneAssumption == None \notin Orgs \cup Accounts \cup Slugs \cup Emails

VARIABLES
    orgs,           \* the organizations table
    accounts,       \* the admin_accounts table
    requests,       \* the request each slot runs
    bootstrapped,   \* history: the organizations that got an admin
    told,           \* history: what the successful changes of a row add up to
    crossed,        \* history: organizations saved over somebody's read
    raced           \* history: organizations with two disables in one window

histories == <<bootstrapped, told, crossed, raced>>
vars == <<orgs, accounts, requests, histories>>

Role == {"ORG_ADMIN", "STATION_OPERATOR"}
Org == [slug : Slugs, status : {"ACTIVE", "SUSPENDED"}, columns : SUBSET Columns]
Account == [org : Orgs, email : Emails, role : Role, status : {"ACTIVE", "DISABLED"}]
ASSUME RowsAssumption == None \notin Org \cup Account

\* A request record: id of the organization and account it is about, what it
\* will store, and for a change of an organization the row it read and `set',
\* the column it is to change or "status".
Idle == [pc |-> "idle"]
Creation == [pc : {"saveOrg"}, slug : Slugs, email : Emails]
AdminCreation == [pc : {"findEmail", "saveAdmin"}, org : Orgs, email : Emails, role : Role]
Disabling == [pc : {"count", "saveDisabled"}, account : Accounts]
Change == [pc : {"saveChange"}, org : Orgs, row : Org, set : Columns \cup {"status"}]
Request == {Idle} \cup Creation \cup AdminCreation \cup Disabling \cup Change

ActiveOrgAdmins_AnyOrg(o) ==
    {a \in Accounts : /\ accounts[a] # None
                      /\ accounts[a].role = "ORG_ADMIN"
                      /\ accounts[a].status = "ACTIVE"}
ActiveOrgAdmins(o) ==
    {a \in Accounts : /\ accounts[a] # None
                      /\ accounts[a].org = o
                      /\ accounts[a].role = "ORG_ADMIN"
                      /\ accounts[a].status = "ACTIVE"}

Init ==
    /\ orgs = [o \in Orgs |-> None]
    /\ accounts = [a \in Accounts |-> None]
    /\ requests = [q \in Requests |-> Idle]
    /\ bootstrapped = {}
    /\ told = [o \in Orgs |-> None]
    /\ crossed = {}
    /\ raced = {}

Run(q, r) == requests' = [requests EXCEPT ![q] = r]
Finish(q) == Run(q, Idle)

\* Any await of a request may throw; what was saved before it stays.
RequestFails(q) ==
    /\ requests[q] # Idle
    /\ Finish(q)
    /\ UNCHANGED <<orgs, accounts, histories>>

----------------------------------------------------------------------------
(* OrganizationService.create *)

SlugTaken_NoConstraint(s) == FALSE
SlugTaken(s) == \E o \in Orgs : orgs[o] # None /\ orgs[o].slug = s

EmailTaken_NoConstraint(e) == FALSE
EmailTaken(e) == \E a \in Accounts : accounts[a] # None /\ accounts[a].email = e

\* findBySlug, then the hash of the bot secret: the insert is a later step.
BeginCreate(q, s, e) ==
    /\ requests[q] = Idle
    /\ ~\E o \in Orgs : orgs[o] # None /\ orgs[o].slug = s
    /\ Run(q, [pc |-> "saveOrg", slug |-> s, email |-> e])
    /\ UNCHANGED <<orgs, accounts, histories>>

SaveOrg(q) ==
    LET r == requests[q]
        row == [slug |-> r.slug, status |-> "ACTIVE", columns |-> {}] IN
    /\ r.pc = "saveOrg"
    /\ IF SlugTaken(r.slug)
       THEN Finish(q) /\ UNCHANGED <<orgs, told>>
       ELSE \E o \in {x \in Orgs : orgs[x] = None} :
               /\ orgs' = [orgs EXCEPT ![o] = row]
               /\ told' = [told EXCEPT ![o] = row]
               /\ Run(q, [pc |-> "findEmail", org |-> o, email |-> r.email,
                          role |-> "ORG_ADMIN"])
    /\ UNCHANGED <<accounts, bootstrapped, crossed, raced>>

----------------------------------------------------------------------------
(* AdminAccountService *)

BeginCreateAdmin(q, o, e, role) ==
    /\ requests[q] = Idle
    /\ orgs[o] # None
    /\ Run(q, [pc |-> "findEmail", org |-> o, email |-> e, role |-> role])
    /\ UNCHANGED <<orgs, accounts, histories>>

\* findByEmail, then the password's hash.
FindEmail(q) ==
    LET r == requests[q] IN
    /\ r.pc = "findEmail"
    /\ IF \E a \in Accounts : accounts[a] # None /\ accounts[a].email = r.email
       THEN Finish(q)
       ELSE Run(q, [r EXCEPT !.pc = "saveAdmin"])
    /\ UNCHANGED <<orgs, accounts, histories>>

SaveAdmin(q) ==
    LET r == requests[q] IN
    /\ r.pc = "saveAdmin"
    /\ IF EmailTaken(r.email)
       THEN UNCHANGED <<accounts, bootstrapped>>
       ELSE \E a \in {x \in Accounts : accounts[x] = None} :
               /\ accounts' = [accounts EXCEPT ![a] =
                                 [org |-> r.org, email |-> r.email, role |-> r.role,
                                  status |-> "ACTIVE"]]
               /\ bootstrapped' = IF r.role = "ORG_ADMIN" THEN bootstrapped \cup {r.org}
                                  ELSE bootstrapped
    /\ Finish(q)
    /\ UNCHANGED <<orgs, told, crossed, raced>>

\* disable reads the account.  One that is disabled already, or is missing, ends
\* the request; only an ORG_ADMIN has the others counted.
BeginDisable(q, a) ==
    /\ requests[q] = Idle
    /\ accounts[a] # None /\ accounts[a].status = "ACTIVE"
    /\ Run(q, [pc |-> IF accounts[a].role = "ORG_ADMIN" THEN "count" ELSE "saveDisabled",
               account |-> a])
    /\ UNCHANGED <<orgs, accounts, histories>>

LastAdmin_AllowsOne(o) == Cardinality(ActiveOrgAdmins(o)) <= 0
LastAdmin(o) == Cardinality(ActiveOrgAdmins(o)) <= 1

CountActiveOrgAdmins(q) ==
    LET r == requests[q] IN
    /\ r.pc = "count"
    /\ IF LastAdmin(accounts[r.account].org)
       THEN Finish(q)
       ELSE Run(q, [r EXCEPT !.pc = "saveDisabled"])
    /\ UNCHANGED <<orgs, accounts, histories>>

\* Other requests that have counted the admins of o and will disable one.
Counted(o, q) ==
    {p \in Requests \ {q} : requests[p].pc = "saveDisabled"
                            /\ accounts[requests[p].account].org = o}

SaveDisabled(q) ==
    LET a == requests[q].account
        o == accounts[a].org IN
    /\ requests[q].pc = "saveDisabled"
    /\ accounts' = [accounts EXCEPT ![a].status = "DISABLED"]
    /\ raced' = IF Counted(o, q) # {} THEN raced \cup {o} ELSE raced
    /\ Finish(q)
    /\ UNCHANGED <<orgs, bootstrapped, told, crossed>>

----------------------------------------------------------------------------
(* Changes of an organization: updateBranding, setMaintenanceWindow,       *)
(* updatePaymentCreds, updatePaymentDetails and updateCheckboxConfig each  *)
(* set one column, suspend sets the status.  They refuse or leave alone a  *)
(* suspended one.                                                          *)

MayChange_Always(row) == TRUE
MayChange(row) == row.status = "ACTIVE"

BeginChange(q, o, set) ==
    /\ requests[q] = Idle
    /\ orgs[o] # None
    /\ MayChange(orgs[o])
    /\ Run(q, [pc |-> "saveChange", org |-> o, row |-> orgs[o], set |-> set])
    /\ UNCHANGED <<orgs, accounts, histories>>

\* The setters of Organization.  Of a column it is kept whether it was set since the
\* creation of the organization.
Changed_DropsOthers(row, set) ==
    IF set = "status" THEN [row EXCEPT !.status = "SUSPENDED"]
    ELSE [row EXCEPT !.columns = {set}]
Changed_NoStatus(row, set) == [row EXCEPT !.columns = @ \cup {set}]
Changed(row, set) ==
    IF set = "status" THEN [row EXCEPT !.status = "SUSPENDED"]
    ELSE [row EXCEPT !.columns = @ \cup {set}]

Changing(o, q) == {p \in Requests \ {q} : requests[p].pc = "saveChange" /\ requests[p].org = o}

\* organizations.save: the whole row as it was read, with the change.
SaveChange(q) ==
    LET r == requests[q]
        sum == told[r.org] IN
    /\ r.pc = "saveChange"
    /\ orgs' = [orgs EXCEPT ![r.org] = Changed(r.row, r.set)]
    /\ told' = [told EXCEPT ![r.org] = IF r.set = "status" THEN [sum EXCEPT !.status = "SUSPENDED"]
                                       ELSE [sum EXCEPT !.columns = @ \cup {r.set}]]
    /\ crossed' = IF Changing(r.org, q) # {} THEN crossed \cup {r.org} ELSE crossed
    /\ Finish(q)
    /\ UNCHANGED <<accounts, bootstrapped, raced>>

Next ==
    \E q \in Requests :
        \/ \E s \in Slugs, e \in Emails : BeginCreate(q, s, e)
        \/ SaveOrg(q)
        \/ \E o \in Orgs, e \in Emails, role \in Role : BeginCreateAdmin(q, o, e, role)
        \/ FindEmail(q) \/ SaveAdmin(q)
        \/ \E a \in Accounts : BeginDisable(q, a)
        \/ CountActiveOrgAdmins(q) \/ SaveDisabled(q)
        \/ \E o \in Orgs, set \in Columns \cup {"status"} : BeginChange(q, o, set)
        \/ SaveChange(q)
        \/ RequestFails(q)

Spec == Init /\ [][Next]_vars

----------------------------------------------------------------------------
(* Properties *)

\* Every variable has its type.
TypeOK ==
    /\ orgs \in [Orgs -> Org \cup {None}]
    /\ accounts \in [Accounts -> Account \cup {None}]
    /\ requests \in [Requests -> Request]
    /\ bootstrapped \subseteq Orgs
    /\ told \in [Orgs -> Org \cup {None}]
    /\ crossed \subseteq Orgs
    /\ raced \subseteq Orgs

\* Two creations that both found a slug or an email free still leave one row with
\* it: the later insert is refused.
OneRowEach ==
    /\ \A o1, o2 \in Orgs :
          orgs[o1] # None /\ orgs[o2] # None /\ orgs[o1].slug = orgs[o2].slug => o1 = o2
    /\ \A a1, a2 \in Accounts :
          accounts[a1] # None /\ accounts[a2] # None /\ accounts[a1].email = accounts[a2].email
             => a1 = a2

\* An organization that has had an admin keeps an active one, unless a disable was
\* saved between another disable's count and its save.
AdminRemains == \A o \in bootstrapped \ raced : ActiveOrgAdmins(o) # {}

\* Until a save meets a row somebody else has read to change it, an organization
\* shows every change that succeeded: a suspension stays, no column is reset.
ChangesAddUp == \A o \in Orgs \ crossed : orgs[o] = told[o]

\* A suspended organization is frozen, also for the changes that were read while
\* it was active, unless the suspension itself was saved over such a read.
SuspensionFreezes ==
    [][\A o \in Orgs \ crossed :
          orgs[o] # None /\ orgs[o].status = "SUSPENDED" => orgs'[o] = orgs[o]]_vars

\* An organization never loses its last active admin (DR-002).
NoLockout == \A o \in bootstrapped : ActiveOrgAdmins(o) # {}

\* However the awaits of requests interleave, the two tables change only by whole
\* operations, each judged by the rows it finds: what OrganizationRegistry promises.
Registry == INSTANCE OrganizationRegistry WITH
    orgs <- [o \in Orgs |-> IF o \in crossed THEN None ELSE orgs[o]],
    lost <- crossed
RegistrySpec == Registry!Spec

=============================================================================
