------------------------------ MODULE Sessions ------------------------------
(***************************************************************************)
(* AuthService: what login, refresh and the Telegram exchange hand out,    *)
(* and to whom, while accounts are disabled and the process restarts.      *)
(*                                                                         *)
(* Tokens are signed and stored nowhere.  All the process knows of them is *)
(* the set usedRefreshTokens in its memory.  Each await is a step: a       *)
(* request reads a row and answers later by what it read.                  *)
(*                                                                         *)
(* An access token is known by its subject and the tick it expires at, so  *)
(* that the latest one of each subject stands for all.  A wrong password,  *)
(* and a bot secret that no organization has, are requests that fail.  The *)
(* organization's status is left out: this service does not look at it.    *)
(***************************************************************************)
EXTENDS FiniteSets, Naturals

CONSTANTS
    Admins, Renters,            \* ids of rows
    Tokens,                     \* the jti of refresh tokens
    Requests,                   \* slots for requests in flight at the same time
    AccessTtl, RefreshTtl,      \* in ticks of the clock
    LastTick,                   \* bound: the clock stops here
    None

ASSUME TtlAssumption ==
    AccessTtl \in Nat \ {0} /\ RefreshTtl \in Nat \ {0} /\ LastTick \in Nat

ASSUME IdsAssumption == Admins \cap Renters = {}

VARIABLES
    active,         \* the admins and renters whose row says ACTIVE
    access,         \* when the latest access token of each expires; 0 before the first
    refresh,        \* the refresh tokens signed so far
    used,           \* usedRefreshTokens
    requests,       \* the request each slot runs
    now,            \* the clock
    openUntil,      \* history: the last tick at which an answer could name the subject
    tainted         \* history: logins one of whose tokens was used twice, or forgotten

histories == <<openUntil, tainted>>
tokens == <<access, refresh, used>>
vars == <<active, tokens, requests, now, histories>>

Subjects == Admins \cup Renters

\* `login' is the token the login gave out, from which this one descends.
RefreshToken == [account : Admins, expires : 0 .. LastTick + RefreshTtl, login : Tokens]

ASSUME NoneAssumption == None \notin RefreshToken

Idle == [pc |-> "idle"]
Answer == [pc : {"login", "exchange"}, account : Subjects, active : BOOLEAN]
Refreshing == [pc : {"findById"}, account : Admins, token : Tokens]
Renewing == [pc : {"renew"}, account : Admins, token : Tokens, active : BOOLEAN]
Request == {Idle} \cup Answer \cup Refreshing \cup Renewing

Init ==
    /\ active = Subjects
    /\ access = [s \in Subjects |-> 0]
    /\ refresh = [t \in Tokens |-> None]
    /\ used = {}
    /\ requests = [q \in Requests |-> Idle]
    /\ now = 0
    /\ openUntil = [s \in Subjects |-> 0]
    /\ tainted = {}

Run(q, r) == requests' = [requests EXCEPT ![q] = r]
Finish(q) == Run(q, Idle)

----------------------------------------------------------------------------
(* JwtTokenService *)

AccessExpiry_RefreshTtl == now + RefreshTtl
AccessExpiry == now + AccessTtl
SignAccess(s) == access' = [access EXCEPT ![s] = AccessExpiry]

\* The jti is random: the token is a new one.
Unsigned_Repeats == Tokens
Unsigned == {t \in Tokens : refresh[t] = None}
SignRefresh(t, a, login) ==
    refresh' = [refresh EXCEPT ![t] =
                  [account |-> a, expires |-> now + RefreshTtl, login |-> login]]

Verified(t) == refresh[t] # None /\ now < refresh[t].expires

----------------------------------------------------------------------------
(* login *)

\* findByEmail; the password is compared next, which takes time.
BeginLogin(q, a) ==
    /\ requests[q] = Idle
    /\ Run(q, [pc |-> "login", account |-> a, active |-> a \in active])
    /\ UNCHANGED <<active, tokens, now, histories>>

Login(q) ==
    LET r == requests[q] IN
    /\ r.pc = "login"
    /\ IF r.active
       THEN /\ SignAccess(r.account)
            /\ \E t \in Unsigned : SignRefresh(t, r.account, t)
       ELSE UNCHANGED <<access, refresh>>
    /\ Finish(q)
    /\ UNCHANGED <<active, used, now, histories>>

----------------------------------------------------------------------------
(* refresh *)

IsUsed_Never(t) == FALSE
IsUsed(t) == t \in used

BeginRefresh(q, t) ==
    /\ requests[q] = Idle
    /\ Verified(t) /\ ~IsUsed(t)
    /\ Run(q, [pc |-> "findById", account |-> refresh[t].account, token |-> t])
    /\ UNCHANGED <<active, tokens, now, histories>>

FindById(q) ==
    LET r == requests[q] IN
    /\ r.pc = "findById"
    /\ Run(q, [pc |-> "renew", account |-> r.account, token |-> r.token,
               active |-> r.account \in active])
    /\ UNCHANGED <<active, tokens, now, histories>>

\* Other requests that found the same token unused.
Rivals(q, t) ==
    {p \in Requests \ {q} : requests[p].pc \in {"findById", "renew"} /\ requests[p].token = t}

MayRefresh_Always(r) == TRUE
MayRefresh(r) == r.active

\* The token is marked used, and the new pair signed, without another await.
Renew(q) ==
    LET r == requests[q]
        login == refresh[r.token].login IN
    /\ r.pc = "renew"
    /\ IF MayRefresh(r)
       THEN /\ used' = used \cup {r.token}
            /\ SignAccess(r.account)
            /\ \E t \in Unsigned : SignRefresh(t, r.account, login)
            /\ tainted' = IF Rivals(q, r.token) # {} THEN tainted \cup {login} ELSE tainted
       ELSE UNCHANGED <<tokens, tainted>>
    /\ Finish(q)
    /\ UNCHANGED <<active, now, openUntil>>

----------------------------------------------------------------------------
(* telegramExchange *)

BeginExchange(q, s) ==
    /\ requests[q] = Idle
    /\ Run(q, [pc |-> "exchange", account |-> s, active |-> s \in active])
    /\ UNCHANGED <<active, tokens, now, histories>>

Exchange(q) ==
    LET r == requests[q] IN
    /\ r.pc = "exchange"
    /\ IF r.active THEN SignAccess(r.account) ELSE UNCHANGED access
    /\ Finish(q)
    /\ UNCHANGED <<active, refresh, used, now, histories>>

----------------------------------------------------------------------------
(* The accounts, the process and the clock *)

\* An admin is disabled for good, a renter may be enabled again.
Disable(s) ==
    /\ s \in active
    /\ active' = active \ {s}
    /\ UNCHANGED <<tokens, requests, now, histories>>

ReEnable(s) ==
    /\ s \in Renters \ active
    /\ active' = active \cup {s}
    /\ openUntil' = [openUntil EXCEPT ![s] = now]
    /\ UNCHANGED <<tokens, requests, now, tainted>>

\* Any await of a request may throw; login and exchange also refuse here.
RequestFails(q) ==
    /\ requests[q] # Idle
    /\ Finish(q)
    /\ UNCHANGED <<active, tokens, now, histories>>

\* The memory of the process is gone, the tokens are not.
Restart ==
    /\ used # {} \/ \E q \in Requests : requests[q] # Idle
    /\ used' = {}
    /\ requests' = [q \in Requests |-> Idle]
    /\ tainted' = tainted \cup {refresh[t].login : t \in used}
    /\ UNCHANGED <<active, access, refresh, now, openUntil>>

\* No request in flight will still answer that s is active.
Closed(s) ==
    /\ s \notin active
    /\ \A q \in Requests :
          requests[q].pc \in {"login", "renew", "exchange"} /\ requests[q].account = s
             => ~requests[q].active

Tick ==
    /\ now < LastTick
    /\ now' = now + 1
    /\ openUntil' = [s \in Subjects |-> IF Closed(s) THEN openUntil[s] ELSE now + 1]
    /\ UNCHANGED <<active, tokens, requests, tainted>>

Next ==
    \/ \E q \in Requests :
          \/ \E a \in Admins : BeginLogin(q, a)
          \/ Login(q)
          \/ \E t \in Tokens : BeginRefresh(q, t)
          \/ FindById(q) \/ Renew(q)
          \/ \E s \in Renters : BeginExchange(q, s)
          \/ Exchange(q)
          \/ RequestFails(q)
    \/ \E s \in Subjects : Disable(s) \/ ReEnable(s)
    \/ Restart
    \/ Tick

Spec == Init /\ [][Next]_vars

----------------------------------------------------------------------------
(* Properties *)

\* Every variable has its type.
TypeOK ==
    /\ active \subseteq Subjects
    /\ access \in [Subjects -> 0 .. LastTick + AccessTtl]
    /\ refresh \in [Tokens -> RefreshToken \cup {None}]
    /\ used \subseteq Tokens
    /\ requests \in [Requests -> Request]
    /\ now \in 0 .. LastTick
    /\ openUntil \in [Subjects -> 0 .. LastTick]
    /\ tainted \subseteq Tokens

Family(login) == {t \in Tokens : refresh[t] # None /\ refresh[t].login = login}

\* Of the tokens that descend from one login exactly one is not used up: a refresh
\* that succeeds exchanges one token for one, and a refresh that fails, is refused
\* or meets a failing database burns none.  Excepted are the logins of which two
\* requests used one token at the same time, and those a restart forgot tokens of.
RotationAddsUp ==
    \A login \in Tokens \ tainted :
        Family(login) # {} => Cardinality(Family(login) \ used) = 1

\* A disabled admin or renter gets no further token, neither by login nor by the
\* refresh tokens still around, once the requests that read the row before the
\* disable have answered.
ClosedForGood ==
    [][\A s \in Subjects : Closed(s) =>
          /\ access'[s] = access[s]
          /\ \A t \in Tokens : refresh[t] = None /\ refresh'[t] # None => refresh'[t].account # s]_vars

\* Access tokens are never revoked, so this is all that ends a session: every
\* access token of a disabled subject expires one lifetime after the last answer
\* that could still take the subject for active.
RunsOut == \A s \in Subjects : access[s] <= openUntil[s] + AccessTtl

\* The tokens of a login that is not excepted.
Shown(login) == IF login \in tainted THEN {} ELSE Family(login)

\* The tokens, seen as one chain for each login, do what RefreshChains promises: a
\* refresh exchanges the usable token of a chain for one never signed before, and the
\* chain stays with the account that logged in, whatever requests overlap.
Chains == INSTANCE RefreshChains WITH
    owners <- [l \in Tokens |-> {refresh[t].account : t \in Shown(l)}],
    issued <- [l \in Tokens |-> Shown(l)],
    usable <- [l \in Tokens |-> Shown(l) \ used],
    lost <- tainted
ChainsSpec == Chains!Spec

=============================================================================
