------------------------ MODULE OrganizationRegistry ------------------------
(***************************************************************************)
(* What the organizations and their admin accounts promise the platform,   *)
(* one whole operation at a time: slugs and emails are unique, only an     *)
(* active organization changes, and an admin is disabled only if another   *)
(* active one of the organization is left (DR-002).  The first promise is  *)
(* off for an organization in lost, whose row was saved over somebody's    *)
(* read, the last one for those in raced, of which two disables met.       *)
(***************************************************************************)
CONSTANTS Orgs, Accounts, Slugs, Emails, Columns, None

VARIABLES orgs, accounts, lost, raced

vars == <<orgs, accounts, lost, raced>>

Init ==
    /\ orgs = [o \in Orgs |-> None]
    /\ accounts = [a \in Accounts |-> None]
    /\ lost = {} /\ raced = {}

Create(o, slug) ==
    /\ orgs[o] = None /\ o \notin lost
    /\ \A x \in Orgs : orgs[x] # None => orgs[x].slug # slug
    /\ orgs' = [orgs EXCEPT ![o] = [slug |-> slug, status |-> "ACTIVE", columns |-> {}]]
    /\ UNCHANGED <<accounts, lost, raced>>

\* A setting is stored, or the organization suspended.
Change(o) ==
    /\ orgs[o].status = "ACTIVE"
    /\ \/ \E c \in Columns : orgs' = [orgs EXCEPT ![o].columns = orgs[o].columns \cup {c}]
       \/ orgs' = [orgs EXCEPT ![o].status = "SUSPENDED"]
    /\ UNCHANGED <<accounts, lost, raced>>

Lose(o) ==
    /\ orgs' = [orgs EXCEPT ![o] = None]
    /\ lost' = lost \cup {o}
    /\ UNCHANGED <<accounts, raced>>

\* An account belongs to an organization that is there.
AddAdmin(a, o, email, role) ==
    /\ accounts[a] = None
    /\ orgs[o] # None \/ o \in lost
    /\ \A x \in Accounts : accounts[x] # None => accounts[x].email # email
    /\ accounts' = [accounts EXCEPT ![a] =
                      [org |-> o, email |-> email, role |-> role, status |-> "ACTIVE"]]
    /\ UNCHANGED <<orgs, lost, raced>>

DisableAdmin(a) ==
    LET o == accounts[a].org IN
    /\ accounts[a].role = "ORG_ADMIN" /\ o \notin raced =>
          \E b \in Accounts \ {a} :
             /\ accounts[b] # None
             /\ accounts[b].org = o /\ accounts[b].role = "ORG_ADMIN"
             /\ accounts[b].status = "ACTIVE"
    /\ accounts' = [accounts EXCEPT ![a].status = "DISABLED"]
    /\ raced' \in {raced, raced \cup {o}}
    /\ UNCHANGED <<orgs, lost>>

Next ==
    \/ \E o \in Orgs, slug \in Slugs : Create(o, slug)
    \/ \E o \in {x \in Orgs : orgs[x] # None} : Change(o) \/ Lose(o)
    \/ \E a \in Accounts, o \in Orgs, email \in Emails, role \in {"ORG_ADMIN", "STATION_OPERATOR"} :
          AddAdmin(a, o, email, role)
    \/ \E a \in {x \in Accounts : accounts[x] # None} : DisableAdmin(a)

Spec == Init /\ [][Next]_vars

=============================================================================
