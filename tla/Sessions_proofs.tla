-------------------------- MODULE Sessions_proofs --------------------------
(***************************************************************************)
(* Proofs about Sessions: its types, the end of a disabled account's       *)
(* sessions, that refreshing neither multiplies nor burns tokens, and that *)
(* the tokens implement RefreshChains.                                     *)
(***************************************************************************)
EXTENDS Sessions, FiniteSetTheorems, TLAPS

Refreshes(r) == r.pc \in {"findById", "renew"}

\* What the steps of a request rely on: only admins log in, and the token of a
\* refresh was signed.
RequestsOK ==
    \A q \in Requests :
        /\ requests[q].pc = "login" => requests[q].account \in Admins
        /\ Refreshes(requests[q]) => refresh[requests[q].token] # None

\* Only tokens that were signed are used up, and the first of a chain was signed too.
SignedOK ==
    /\ \A t \in used : refresh[t] # None
    /\ \A t \in Tokens : refresh[t] # None => refresh[refresh[t].login] # None

Types == TypeOK /\ RequestsOK /\ SignedOK

----------------------------------------------------------------------------
(* Types *)

LEMMA IdleFacts == Idle \in Request /\ Idle.pc = "idle"
BY DEF Idle, Request

\* What a request record holds, by the await it stands at.
LEMMA RequestKinds ==
    ASSUME NEW r \in Request
    PROVE  /\ r.pc \in {"login", "exchange"} =>
                 r.account \in Subjects /\ r.active \in BOOLEAN
           /\ Refreshes(r) => r.account \in Admins /\ r.token \in Tokens
           /\ r.pc = "renew" => r.active \in BOOLEAN
           /\ r.pc \in {"idle", "login", "exchange", "findById", "renew"}
BY DEF Request, Idle, Answer, Refreshing, Renewing, Refreshes

LEMMA RunKeepsRequests ==
    ASSUME TypeOK, NEW q \in Requests, NEW r \in Request, Run(q, r)
    PROVE  /\ requests' \in [Requests -> Request]
           /\ \A p \in Requests : requests'[p] = IF p = q THEN r ELSE requests[p]
BY DEF TypeOK, Run

LEMMA FinishKeepsRequests ==
    ASSUME TypeOK, NEW q \in Requests, Finish(q)
    PROVE  /\ requests' \in [Requests -> Request]
           /\ \A p \in Requests : requests'[p] = IF p = q THEN Idle ELSE requests[p]
BY IdleFacts, RunKeepsRequests DEF Finish

\* Signing an access token, and a refresh token.
LEMMA SignAccessTypes ==
    ASSUME TypeOK, NEW s \in Subjects, SignAccess(s)
    PROVE  /\ access' \in [Subjects -> 0 .. LastTick + AccessTtl]
           /\ \A p \in Subjects : access'[p] = IF p = s THEN now + AccessTtl ELSE access[p]
<1>1. now + AccessTtl \in 0 .. LastTick + AccessTtl
  BY TtlAssumption DEF TypeOK
<1> QED BY <1>1 DEF TypeOK, SignAccess, AccessExpiry

LEMMA SignRefreshTypes ==
    ASSUME TypeOK, NEW t \in Unsigned, NEW a \in Admins, NEW login \in Tokens,
           SignRefresh(t, a, login)
    PROVE  /\ refresh' \in [Tokens -> RefreshToken \cup {None}]
           /\ t \in Tokens /\ refresh[t] = None
           /\ refresh'[t] \in RefreshToken /\ refresh'[t] # None
           /\ refresh'[t].account = a /\ refresh'[t].login = login
           /\ \A u \in Tokens \ {t} : refresh'[u] = refresh[u]
<1> DEFINE r == [account |-> a, expires |-> now + RefreshTtl, login |-> login]
<1>1. now + RefreshTtl \in 0 .. LastTick + RefreshTtl
  BY TtlAssumption DEF TypeOK
<1>2. r \in RefreshToken /\ r # None
  BY <1>1, NoneAssumption DEF RefreshToken
<1>3. t \in Tokens /\ refresh[t] = None
  BY DEF Unsigned
<1>4. refresh' = [refresh EXCEPT ![t] = r]
  BY DEF SignRefresh
<1>5. refresh \in [Tokens -> RefreshToken \cup {None}]
  BY DEF TypeOK
<1>6. refresh'[t] = r /\ \A u \in Tokens \ {t} : refresh'[u] = refresh[u]
  BY <1>3, <1>4, <1>5
<1>7. refresh' \in [Tokens -> RefreshToken \cup {None}]
  BY <1>2, <1>4, <1>5
<1>8. r.account = a /\ r.login = login
  OBVIOUS
<1> QED BY <1>2, <1>3, <1>6, <1>7, <1>8

LEMMA InitTypes == Init => Types
<1> SUFFICES ASSUME Init PROVE Types
  OBVIOUS
<1>1. TypeOK
  BY IdleFacts, TtlAssumption DEF Init, TypeOK
<1>2. RequestsOK
  BY IdleFacts DEF Init, RequestsOK, Refreshes
<1>3. SignedOK
  BY DEF Init, SignedOK
<1> QED BY <1>1, <1>2, <1>3 DEF Types

\* A request that begins only changes its slot.
LEMMA BeginTypes ==
    ASSUME Types, NEW q \in Requests, NEW r \in Request, Run(q, r),
           r.pc = "login" => r.account \in Admins,
           Refreshes(r) => refresh[r.token] # None,
           UNCHANGED <<active, tokens, now, histories>>
    PROVE  Types'
<1>1. /\ requests' \in [Requests -> Request]
      /\ \A p \in Requests : requests'[p] = IF p = q THEN r ELSE requests[p]
  BY RunKeepsRequests DEF Types
<1>2. TypeOK'
  BY <1>1 DEF Types, TypeOK, tokens, histories
<1>3. RequestsOK'
  BY <1>1 DEF Types, RequestsOK, tokens, Refreshes
<1>4. SignedOK'
  BY DEF Types, SignedOK, tokens
<1> QED BY <1>2, <1>3, <1>4 DEF Types

\* Request q of an admin is answered with an access token and the refresh token
\* t, which descends from login.
Pair(q, t, login) ==
    /\ requests[q].account \in Admins
    /\ access' \in [Subjects -> 0 .. LastTick + AccessTtl]
    /\ \A s \in Subjects :
          access'[s] = IF s = requests[q].account THEN now + AccessTtl ELSE access[s]
    /\ refresh' \in [Tokens -> RefreshToken \cup {None}]
    /\ refresh[t] = None /\ refresh'[t] \in RefreshToken /\ refresh'[t] # None
    /\ refresh'[t].account = requests[q].account /\ refresh'[t].login = login
    /\ \A u \in Tokens \ {t} : refresh'[u] = refresh[u]

LEMMA LoginPair ==
    ASSUME Types, NEW q \in Requests, Login(q), requests[q].active
    PROVE  \E t \in Tokens : Pair(q, t, t)
<1>1. requests[q] \in Request /\ requests[q].pc = "login"
  BY DEF Login, Types, TypeOK
<1>2. requests[q].account \in Admins /\ requests[q].account \in Subjects
  BY <1>1 DEF Types, RequestsOK, Subjects
<1>3. PICK t \in Unsigned : SignRefresh(t, requests[q].account, t)
  BY DEF Login
<1>4. t \in Tokens
  BY DEF Unsigned
<1>5. SignAccess(requests[q].account)
  BY DEF Login
<1> QED BY <1>2, <1>3, <1>4, <1>5, SignAccessTypes, SignRefreshTypes DEF Types, Pair

\* The token a refresh presents was signed, and so was the first of its chain.
LEMMA RenewToken ==
    ASSUME Types, NEW q \in Requests, Refreshes(requests[q])
    PROVE  /\ requests[q].token \in Tokens /\ refresh[requests[q].token] # None
           /\ refresh[requests[q].token].login \in Tokens
           /\ refresh[refresh[requests[q].token].login] # None
<1>1. requests[q] \in Request
  BY DEF Types, TypeOK
<1>2. requests[q].token \in Tokens /\ refresh[requests[q].token] # None
  BY <1>1, RequestKinds DEF Types, RequestsOK
<1>3. refresh[requests[q].token] \in RefreshToken
  BY <1>2 DEF Types, TypeOK
<1> QED BY <1>2, <1>3 DEF Types, SignedOK, RefreshToken

LEMMA RenewPair ==
    ASSUME Types, NEW q \in Requests, Renew(q), requests[q].active
    PROVE  \E t \in Tokens : Pair(q, t, refresh[requests[q].token].login)
<1> DEFINE login == refresh[requests[q].token].login
<1>1. requests[q] \in Request /\ requests[q].pc = "renew" /\ Refreshes(requests[q])
  BY DEF Renew, Types, TypeOK, Refreshes
<1>2. requests[q].account \in Admins /\ requests[q].account \in Subjects
  BY <1>1, RequestKinds DEF Subjects
<1>3. login \in Tokens
  BY <1>1, RenewToken
<1>4. PICK t \in Unsigned : SignRefresh(t, requests[q].account, login)
  BY DEF Renew, MayRefresh
<1>5. t \in Tokens
  BY DEF Unsigned
<1>6. SignAccess(requests[q].account)
  BY DEF Renew, MayRefresh
<1>7. Pair(q, t, login)
  <2> HIDE DEF login
  <2> QED BY <1>2, <1>3, <1>4, <1>5, <1>6, SignAccessTypes, SignRefreshTypes DEF Types, Pair
<1> QED BY <1>5, <1>7

LEMMA PairTypes ==
    ASSUME Types, NEW q \in Requests, NEW t \in Tokens, NEW login \in Tokens,
           Pair(q, t, login), Finish(q),
           login = t \/ refresh[login] # None,
           used' \subseteq Tokens, \A x \in used' : refresh[x] # None,
           tainted' \subseteq Tokens,
           UNCHANGED <<active, now, openUntil>>
    PROVE  Types'
<1>0. TypeOK /\ RequestsOK /\ SignedOK
  BY DEF Types
<1>1. /\ requests' \in [Requests -> Request]
      /\ \A p \in Requests : requests'[p] = IF p = q THEN Idle ELSE requests[p]
  BY <1>0, FinishKeepsRequests
<1>2. TypeOK'
  BY <1>1, <1>0 DEF Pair, TypeOK
<1>3. \A u \in Tokens : refresh[u] # None => refresh'[u] = refresh[u]
  BY DEF Pair
<1>4. RequestsOK'
  <2> SUFFICES ASSUME NEW p \in Requests
               PROVE  /\ requests'[p].pc = "login" => requests'[p].account \in Admins
                      /\ Refreshes(requests'[p]) => refresh'[requests'[p].token] # None
    BY DEF RequestsOK, Refreshes
  <2>1. CASE p = q
    BY <2>1, <1>1, IdleFacts DEF Refreshes
  <2>2. CASE p # q
    <3>1. Refreshes(requests[p]) => requests[p].token \in Tokens /\ refresh[requests[p].token] # None
      BY RenewToken
    <3> QED BY <2>2, <3>1, <1>1, <1>3, <1>0 DEF RequestsOK, Refreshes
  <2> QED BY <2>1, <2>2
<1>5. SignedOK'
  <2>1. \A x \in used' : refresh'[x] # None
    BY <1>3
  <2>2. ASSUME NEW u \in Tokens, refresh'[u] # None PROVE refresh'[refresh'[u].login] # None
    <3>1. CASE u = t
      BY <3>1, <1>3 DEF Pair
    <3>2. CASE u # t
      <4>1. refresh[u] \in RefreshToken /\ refresh'[u] = refresh[u]
        BY <3>2, <2>2, <1>0 DEF Pair, TypeOK
      <4>2. refresh[u].login \in Tokens /\ refresh[refresh[u].login] # None
        BY <4>1, <3>2, <2>2, <1>0 DEF RefreshToken, SignedOK
      <4> QED BY <4>1, <4>2, <1>3
    <3> QED BY <3>1, <3>2
  <2> QED BY <2>1, <2>2 DEF SignedOK
<1> QED BY <1>2, <1>4, <1>5 DEF Types

LEMMA TypesStep == ASSUME Types, [Next]_vars PROVE Types'
<1>0. TypeOK /\ RequestsOK /\ SignedOK
  BY DEF Types
<1>1. ASSUME NEW q \in Requests, NEW a \in Admins, BeginLogin(q, a) PROVE Types'
  <2> DEFINE r == [pc |-> "login", account |-> a, active |-> a \in active]
  <2>1. r \in Request /\ r.pc = "login" /\ r.account = a /\ ~Refreshes(r)
    BY DEF Request, Answer, Subjects, Refreshes
  <2> QED BY <1>1, <2>1, BeginTypes DEF BeginLogin
<1>2. ASSUME NEW q \in Requests, NEW s \in Renters, BeginExchange(q, s) PROVE Types'
  <2> DEFINE r == [pc |-> "exchange", account |-> s, active |-> s \in active]
  <2>1. r \in Request /\ r.pc = "exchange" /\ ~Refreshes(r)
    BY DEF Request, Answer, Subjects, Refreshes
  <2> QED BY <1>2, <2>1, BeginTypes DEF BeginExchange
<1>3. ASSUME NEW q \in Requests, NEW t \in Tokens, BeginRefresh(q, t) PROVE Types'
  <2> DEFINE r == [pc |-> "findById", account |-> refresh[t].account, token |-> t]
  <2>1. refresh[t] # None /\ refresh[t] \in RefreshToken
    BY <1>3, <1>0 DEF BeginRefresh, Verified, TypeOK
  <2>2. r \in Request /\ r.pc = "findById" /\ r.token = t
    BY <2>1 DEF Request, Refreshing, RefreshToken
  <2> QED BY <1>3, <2>1, <2>2, BeginTypes DEF BeginRefresh
<1>4. ASSUME NEW q \in Requests, FindById(q) PROVE Types'
  <2> DEFINE o == requests[q]
             r == [pc |-> "renew", account |-> o.account, token |-> o.token,
                   active |-> o.account \in active]
  <2>1. o \in Request /\ o.pc = "findById" /\ Refreshes(o)
    BY <1>4, <1>0 DEF FindById, TypeOK, Refreshes
  <2>2. o.account \in Admins /\ o.token \in Tokens /\ refresh[o.token] # None
    BY <2>1, <1>0, RequestKinds DEF RequestsOK
  <2>3. r \in Request /\ r.pc = "renew" /\ r.token = o.token
    BY <2>2 DEF Request, Renewing
  <2>4. Run(q, r) /\ UNCHANGED <<active, tokens, now, histories>>
    BY <1>4 DEF FindById
  <2> HIDE DEF r
  <2> QED BY <2>2, <2>3, <2>4, BeginTypes
<1>5. ASSUME NEW q \in Requests, RequestFails(q) PROVE Types'
  BY <1>5, IdleFacts, BeginTypes DEF RequestFails, Finish, Refreshes
<1>6. ASSUME NEW q \in Requests, Login(q) PROVE Types'
  <2>1. CASE ~requests[q].active
    BY <1>6, <2>1, IdleFacts, BeginTypes DEF Login, Finish, tokens, Refreshes
  <2>2. CASE requests[q].active
    <3>1. PICK t \in Tokens : Pair(q, t, t)
      BY <1>6, <2>2, LoginPair
    <3>2. Finish(q) /\ UNCHANGED <<active, used, now, histories>>
      BY <1>6 DEF Login
    <3> QED BY <3>1, <3>2, PairTypes, <1>0 DEF TypeOK, SignedOK, histories
  <2> QED BY <2>1, <2>2
<1>7. ASSUME NEW q \in Requests, Renew(q) PROVE Types'
  <2>1. CASE ~requests[q].active
    BY <1>7, <2>1, IdleFacts, BeginTypes DEF Renew, MayRefresh, Finish, tokens, histories, Refreshes
  <2>2. CASE requests[q].active
    <3> DEFINE u == requests[q].token
    <3>1. u \in Tokens /\ refresh[u] # None /\ refresh[u].login \in Tokens
      BY <1>7, RenewToken DEF Renew, Refreshes
    <3>2. PICK t \in Tokens : Pair(q, t, refresh[u].login)
      BY <1>7, <2>2, RenewPair
    <3>3. /\ used' = used \cup {u}
          /\ tainted' = tainted \/ tainted' = tainted \cup {refresh[u].login}
          /\ Finish(q)
          /\ UNCHANGED <<active, now, openUntil>>
      BY <1>7, <2>2 DEF Renew, MayRefresh
    <3>4. /\ used' \subseteq Tokens /\ \A x \in used' : refresh[x] # None
          /\ tainted' \subseteq Tokens
          /\ refresh[refresh[u].login] # None
      BY <3>1, <3>3, <1>0 DEF TypeOK, SignedOK
    <3> QED BY <3>1, <3>2, <3>3, <3>4, PairTypes, <1>0 DEF TypeOK
  <2> QED BY <2>1, <2>2
<1>8. ASSUME NEW q \in Requests, Exchange(q) PROVE Types'
  <2>1. requests[q] \in Request /\ requests[q].pc = "exchange"
    BY <1>8, <1>0 DEF Exchange, TypeOK
  <2>2. requests[q].account \in Subjects
    BY <2>1, RequestKinds
  <2>3. access' \in [Subjects -> 0 .. LastTick + AccessTtl]
    BY <1>8, <2>2, <1>0, SignAccessTypes DEF Exchange, TypeOK
  <2>4. /\ requests' \in [Requests -> Request]
        /\ \A p \in Requests : requests'[p] = IF p = q THEN Idle ELSE requests[p]
    BY <1>8, <1>0, FinishKeepsRequests DEF Exchange
  <2>5. TypeOK'
    BY <1>8, <2>3, <2>4, <1>0 DEF Exchange, TypeOK, histories
  <2>6. RequestsOK' /\ SignedOK'
    BY <1>8, <2>4, <1>0, IdleFacts DEF Exchange, RequestsOK, SignedOK, Refreshes
  <2> QED BY <2>5, <2>6 DEF Types
<1>9. ASSUME NEW s \in Subjects, Disable(s) \/ ReEnable(s) PROVE Types'
  <2>1. TypeOK'
    BY <1>9, <1>0 DEF Disable, ReEnable, TypeOK, tokens, histories
  <2>2. RequestsOK' /\ SignedOK'
    BY <1>9, <1>0 DEF Disable, ReEnable, tokens, RequestsOK, SignedOK
  <2> QED BY <2>1, <2>2 DEF Types
<1>10. CASE Restart
  <2>1. TypeOK'
    BY <1>10, <1>0, IdleFacts DEF Restart, TypeOK, SignedOK, RefreshToken
  <2>2. RequestsOK' /\ SignedOK'
    BY <1>10, <1>0, IdleFacts DEF Restart, RequestsOK, SignedOK, Refreshes
  <2> QED BY <2>1, <2>2 DEF Types
<1>11. CASE Tick
  <2>1. now + 1 \in 0 .. LastTick
    BY <1>11, <1>0, TtlAssumption DEF Tick, TypeOK
  <2>2. openUntil' \in [Subjects -> 0 .. LastTick]
    BY <1>11, <2>1, <1>0 DEF Tick, TypeOK
  <2>3. TypeOK'
    BY <1>11, <2>1, <2>2, <1>0 DEF Tick, TypeOK, tokens
  <2>4. RequestsOK' /\ SignedOK'
    BY <1>11, <1>0 DEF Tick, tokens, RequestsOK, SignedOK
  <2> QED BY <2>3, <2>4 DEF Types
<1>12. CASE UNCHANGED vars
  BY <1>12, <1>0 DEF vars, tokens, histories, Types, TypeOK, RequestsOK, SignedOK
<1> QED BY <1>1, <1>2, <1>3, <1>4, <1>5, <1>6, <1>7, <1>8, <1>9, <1>10, <1>11, <1>12 DEF Next

\* Every variable of the tokens, accounts and requests keeps its type.
THEOREM TypeCorrect == Spec => []TypeOK
<1>1. Types => TypeOK
  BY DEF Types
<1> QED BY <1>1, InitTypes, TypesStep, PTL DEF Spec

----------------------------------------------------------------------------
(* Disabled accounts *)

\* A request for s read its row as active and has yet to answer.
Answers(q, s) ==
    requests[q].pc \in {"login", "renew", "exchange"} /\ requests[q].account = s
    /\ requests[q].active

LEMMA ClosedMeans ==
    ASSUME NEW s \in Subjects
    PROVE  Closed(s) <=> s \notin active /\ \A q \in Requests : ~Answers(q, s)
BY DEF Closed, Answers

\* Only answers to requests that read the row as active sign tokens.
LEMMA SignedByAnswer ==
    ASSUME Types, Next
    PROVE  \/ UNCHANGED <<access, refresh>>
           \/ /\ now' = now /\ openUntil' = openUntil
              /\ \E q \in Requests, s \in Subjects :
                    /\ Answers(q, s)
                    /\ access' = [access EXCEPT ![s] = now + AccessTtl]
                    /\ \A t \in Tokens :
                          refresh[t] = None /\ refresh'[t] # None => refresh'[t].account = s
<1>1. ASSUME NEW q \in Requests, Login(q), requests[q].active PROVE
        /\ now' = now /\ openUntil' = openUntil
        /\ \E s \in Subjects :
              /\ Answers(q, s)
              /\ access' = [access EXCEPT ![s] = now + AccessTtl]
              /\ \A t \in Tokens :
                    refresh[t] = None /\ refresh'[t] # None => refresh'[t].account = s
  <2> DEFINE s == requests[q].account
  <2>1. PICK t \in Tokens : Pair(q, t, t)
    BY <1>1, LoginPair
  <2>2. s \in Subjects /\ Answers(q, s)
    BY <1>1, <2>1 DEF Login, Pair, Answers, Subjects
  <2>3. access' = [access EXCEPT ![s] = now + AccessTtl]
    BY <1>1 DEF Login, SignAccess, AccessExpiry
  <2>4. now' = now /\ openUntil' = openUntil
    BY <1>1 DEF Login, histories
  <2>5. \A u \in Tokens : refresh[u] = None /\ refresh'[u] # None => refresh'[u].account = s
    BY <2>1 DEF Pair
  <2> QED BY <2>2, <2>3, <2>4, <2>5
<1>2. ASSUME NEW q \in Requests, Renew(q), requests[q].active PROVE
        /\ now' = now /\ openUntil' = openUntil
        /\ \E s \in Subjects :
              /\ Answers(q, s)
              /\ access' = [access EXCEPT ![s] = now + AccessTtl]
              /\ \A t \in Tokens :
                    refresh[t] = None /\ refresh'[t] # None => refresh'[t].account = s
  <2> DEFINE s == requests[q].account
  <2>1. PICK t \in Tokens : Pair(q, t, refresh[requests[q].token].login)
    BY <1>2, RenewPair
  <2>2. s \in Subjects /\ Answers(q, s)
    BY <1>2, <2>1 DEF Renew, Pair, Answers, Subjects
  <2>3. access' = [access EXCEPT ![s] = now + AccessTtl]
    BY <1>2 DEF Renew, MayRefresh, SignAccess, AccessExpiry
  <2>4. now' = now /\ openUntil' = openUntil
    BY <1>2 DEF Renew
  <2>5. \A u \in Tokens : refresh[u] = None /\ refresh'[u] # None => refresh'[u].account = s
    BY <2>1 DEF Pair
  <2> QED BY <2>2, <2>3, <2>4, <2>5
<1>3. ASSUME NEW q \in Requests, Exchange(q), requests[q].active PROVE
        /\ now' = now /\ openUntil' = openUntil
        /\ \E s \in Subjects :
              /\ Answers(q, s)
              /\ access' = [access EXCEPT ![s] = now + AccessTtl]
              /\ \A t \in Tokens :
                    refresh[t] = None /\ refresh'[t] # None => refresh'[t].account = s
  <2> DEFINE s == requests[q].account
  <2>1. requests[q] \in Request /\ requests[q].pc = "exchange"
    BY <1>3 DEF Exchange, Types, TypeOK
  <2>2. s \in Subjects /\ Answers(q, s)
    BY <1>3, <2>1, RequestKinds DEF Answers
  <2> QED BY <1>3, <2>2 DEF Exchange, SignAccess, AccessExpiry, histories
<1>4. ASSUME NEW q \in Requests, Login(q) \/ Renew(q) \/ Exchange(q), ~requests[q].active
      PROVE  UNCHANGED <<access, refresh>>
  BY <1>4 DEF Login, Renew, MayRefresh, Exchange, tokens
<1>5. Next => \/ UNCHANGED <<access, refresh>>
              \/ \E q \in Requests : Login(q) \/ Renew(q) \/ Exchange(q)
  BY DEF Next, BeginLogin, BeginRefresh, FindById, BeginExchange, RequestFails,
         Disable, ReEnable, Restart, Tick, tokens
<1> QED BY <1>1, <1>2, <1>3, <1>4, <1>5

\* No token is signed for a disabled subject once the requests that read the row
\* before have answered.
THEOREM NoTokenWhenClosed == Spec => ClosedForGood
<1>1. ASSUME Types, [Next]_vars
      PROVE  [\A s \in Subjects : Closed(s) =>
                /\ access'[s] = access[s]
                /\ \A t \in Tokens :
                      refresh[t] = None /\ refresh'[t] # None => refresh'[t].account # s]_vars
  <2>1. CASE UNCHANGED <<access, refresh>>
    BY <2>1
  <2>2. ASSUME NEW q \in Requests, NEW s \in Subjects, Answers(q, s),
               access' = [access EXCEPT ![s] = now + AccessTtl],
               \A t \in Tokens : refresh[t] = None /\ refresh'[t] # None => refresh'[t].account = s,
               NEW p \in Subjects, Closed(p)
        PROVE  /\ access'[p] = access[p]
               /\ \A t \in Tokens :
                     refresh[t] = None /\ refresh'[t] # None => refresh'[t].account # p
    <3>1. p # s
      BY <1>1, <2>2, ClosedMeans
    <3> QED BY <1>1, <2>2, <3>1 DEF Types, TypeOK
  <2> QED BY <1>1, <2>1, <2>2, SignedByAnswer
<1> QED BY <1>1, InitTypes, TypesStep, PTL DEF Spec, ClosedForGood

\* openUntil is past or, while an answer can still name the subject, present.
OpenOK ==
    \A s \in Subjects : openUntil[s] <= now /\ (~Closed(s) => openUntil[s] = now)

\* A subject opens only when a renter is enabled again.
LEMMA OpensByReEnable ==
    ASSUME Types, Next, NEW s \in Subjects, Closed(s), ~Closed(s)'
    PROVE  ReEnable(s)
<1>1. s \notin active /\ \A q \in Requests : ~Answers(q, s)
  BY ClosedMeans
<1>2. CASE s \in active'
  BY <1>1, <1>2 DEF Next, BeginLogin, Login, BeginRefresh, FindById, Renew, BeginExchange,
     Exchange, RequestFails, Disable, ReEnable, Restart, Tick
<1>3. CASE s \notin active'
  <2>1. PICK q \in Requests : Answers(q, s)'
    BY <1>3 DEF Closed, Answers
  <2>2. ~Answers(q, s)
    BY <1>1
  <2>3. requests'[q] # requests[q]
    BY <2>1, <2>2 DEF Answers
  <2>4. Idle \in Request /\ Idle.pc = "idle" /\ requests \in [Requests -> Request]
    BY IdleFacts DEF Types, TypeOK
  <2>5. requests'[q].pc \in {"login", "renew", "exchange"}
    BY <2>1 DEF Answers
  <2>6. ASSUME NEW p \in Requests, Finish(p) PROVE FALSE
    BY <2>3, <2>4, <2>5, <2>6 DEF Finish, Run
  <2>7. ASSUME NEW p \in Requests, NEW r, Run(p, r), r.pc \in {"login", "renew", "exchange"},
               r.active = (r.account \in active)
        PROVE  FALSE
    BY <1>1, <2>1, <2>3, <2>4, <2>7 DEF Run, Answers
  <2>8. ASSUME NEW p \in Requests, NEW a \in Subjects, BeginLogin(p, a) \/ BeginExchange(p, a)
        PROVE  FALSE
    BY <2>7, <2>8 DEF BeginLogin, BeginExchange
  <2>9. ASSUME NEW p \in Requests, FindById(p) PROVE FALSE
    BY <2>7, <2>9 DEF FindById
  <2>10. ASSUME NEW p \in Requests, NEW t \in Tokens, BeginRefresh(p, t) PROVE FALSE
    BY <2>3, <2>4, <2>5, <2>10 DEF BeginRefresh, Run
  <2>11. ASSUME NEW p \in Requests, Login(p) \/ Renew(p) \/ Exchange(p) \/ RequestFails(p)
         PROVE  FALSE
    BY <2>6, <2>11 DEF Login, Renew, Exchange, RequestFails
  <2>12. ~Restart /\ ~Tick /\ \A a \in Subjects : ~Disable(a) /\ ~ReEnable(a)
    BY <2>3, <2>4, <2>5 DEF Restart, Tick, Disable, ReEnable
  <2> QED BY <2>8, <2>9, <2>10, <2>11, <2>12 DEF Next, Subjects
<1> QED BY <1>2, <1>3

LEMMA OpenStep == ASSUME Types, OpenOK, [Next]_vars PROVE OpenOK'
<1> SUFFICES ASSUME NEW s \in Subjects
             PROVE  openUntil'[s] <= now' /\ (~Closed(s)' => openUntil'[s] = now')
  BY DEF OpenOK
<1>0. openUntil \in [Subjects -> 0 .. LastTick] /\ now \in 0 .. LastTick /\ openUntil[s] <= now
  BY DEF Types, TypeOK, OpenOK
<1>1. CASE UNCHANGED vars
  BY <1>1 DEF vars, histories, OpenOK, Closed
<1>2. CASE Next
  <2>1. CASE ReEnable(s)
    BY <2>1, <1>0, TtlAssumption DEF ReEnable
  <2>2. CASE ~ReEnable(s)
    <3>1. ~Closed(s)' => ~Closed(s) /\ openUntil[s] = now
      BY <1>2, <2>2, OpensByReEnable DEF OpenOK
    <3>2. CASE Tick
      BY <3>1, <3>2, <1>0, TtlAssumption DEF Tick
    <3>3. ASSUME NEW p \in Subjects, ReEnable(p) PROVE now' = now /\ openUntil'[s] = openUntil[s]
      BY <3>3, <2>2, <1>0 DEF ReEnable, Types, TypeOK
    <3>4. CASE now' = now /\ openUntil'[s] = openUntil[s]
      BY <3>1, <3>4, <1>0
    <3> QED BY <1>2, <3>2, <3>3, <3>4 DEF Next, BeginLogin, Login, BeginRefresh, FindById, Renew,
          BeginExchange, Exchange, RequestFails, Disable, Restart, histories
  <2> QED BY <2>1, <2>2
<1> QED BY <1>1, <1>2

LEMMA RunsOutStep == ASSUME Types, OpenOK, RunsOut, [Next]_vars PROVE RunsOut'
<1> SUFFICES ASSUME NEW s \in Subjects PROVE access'[s] <= openUntil'[s] + AccessTtl
  BY DEF RunsOut
<1>0. /\ openUntil \in [Subjects -> 0 .. LastTick] /\ now \in 0 .. LastTick
      /\ access \in [Subjects -> 0 .. LastTick + AccessTtl]
      /\ openUntil[s] <= now /\ access[s] <= openUntil[s] + AccessTtl
      /\ AccessTtl \in Nat /\ LastTick \in Nat
  BY TtlAssumption DEF Types, TypeOK, OpenOK, RunsOut
<1>1. openUntil'[s] \in Nat /\ openUntil[s] <= openUntil'[s]
  <2>1. CASE Tick
    BY <2>1, <1>0 DEF Tick
  <2>2. ASSUME NEW p \in Subjects, ReEnable(p) PROVE openUntil'[s] \in {openUntil[s], now}
    BY <2>2, <1>0 DEF ReEnable
  <2>3. CASE openUntil' = openUntil
    BY <2>3, <1>0
  <2>4. Tick \/ (\E p \in Subjects : ReEnable(p)) \/ openUntil' = openUntil
    BY DEF Next, BeginLogin, Login, BeginRefresh, FindById, Renew,
       BeginExchange, Exchange, RequestFails, Disable, Restart, histories, vars
  <2> QED BY <2>1, <2>2, <2>3, <2>4, <1>0
<1>2. CASE access'[s] = access[s]
  BY <1>0, <1>1, <1>2
<1>3. ASSUME NEW q \in Requests, NEW p \in Subjects, Answers(q, p), openUntil' = openUntil,
             access' = [access EXCEPT ![p] = now + AccessTtl]
      PROVE  access'[s] <= openUntil'[s] + AccessTtl
  <2>1. CASE p = s
    <3>1. openUntil[s] = now
      BY <1>3, <2>1, ClosedMeans DEF OpenOK
    <3> QED BY <1>3, <2>1, <3>1, <1>0
  <2>2. CASE p # s
    BY <1>3, <2>2, <1>0
  <2> QED BY <2>1, <2>2
<1> QED BY <1>2, <1>3, SignedByAnswer DEF vars, tokens

\* Every access token of a disabled subject expires one lifetime after the last
\* answer that could still take the subject for active.
THEOREM SessionsRunOut == Spec => []RunsOut
<1>1. Init => Types /\ OpenOK /\ RunsOut
  <2> SUFFICES ASSUME Init PROVE OpenOK /\ RunsOut
    BY InitTypes
  <2> QED BY TtlAssumption DEF Init, OpenOK, RunsOut
<1>2. Types /\ OpenOK /\ RunsOut /\ [Next]_vars => (Types /\ OpenOK /\ RunsOut)'
  BY TypesStep, OpenStep, RunsOutStep
<1> QED BY <1>1, <1>2, PTL DEF Spec

----------------------------------------------------------------------------
(* Rotation *)

\* A refresh under way presents a token that is not used up.
PresentsUnused ==
    \A q \in Requests :
        Refreshes(requests[q]) /\ refresh[requests[q].token].login \notin tainted
          => requests[q].token \notin used

\* RotationAddsUp without counting: the one token of a login that is left.
OneLeft ==
    \A login \in Tokens \ tainted :
        Family(login) # {} => \E t \in Tokens : Family(login) \ used = {t}

Rotation == PresentsUnused /\ OneLeft

LEMMA OneLeftIsOne == ASSUME OneLeft PROVE RotationAddsUp
<1> SUFFICES ASSUME NEW login \in Tokens \ tainted, Family(login) # {}
             PROVE  Cardinality(Family(login) \ used) = 1
  BY DEF RotationAddsUp
<1>1. PICK t \in Tokens : Family(login) \ used = {t}
  BY DEF OneLeft
<1> QED BY <1>1, FS_Singleton

\* A step that writes no refresh token: a request may look one up.
LEMMA RotationSame ==
    ASSUME Types, Rotation, [Next]_vars, UNCHANGED <<refresh, used, tainted>>
    PROVE  Rotation'
<1>1. OneLeft'
  BY DEF Rotation, OneLeft, Family
<1>2. PresentsUnused'
  <2> SUFFICES ASSUME NEW p \in Requests, Refreshes(requests'[p]),
                      refresh[requests'[p].token].login \notin tainted
               PROVE  requests'[p].token \notin used
    BY DEF PresentsUnused, Refreshes
  <2>0. requests \in [Requests -> Request] /\ Idle.pc = "idle"
    BY IdleFacts DEF Types, TypeOK
  <2>1. CASE requests'[p] = requests[p]
    BY <2>1 DEF Rotation, PresentsUnused
  <2>2. ASSUME NEW q \in Requests, Finish(q) PROVE requests'[p] = requests[p]
    BY <2>0, <2>2 DEF Finish, Run, Refreshes
  <2>3. ASSUME NEW q \in Requests, NEW t \in Tokens, BeginRefresh(q, t)
        PROVE  requests'[p] = requests[p] \/ requests'[p].token \notin used
    BY <2>0, <2>3 DEF BeginRefresh, Run, IsUsed
  <2>4. ASSUME NEW q \in Requests, FindById(q)
        PROVE  \/ requests'[p] = requests[p]
               \/ Refreshes(requests[p]) /\ requests'[p].token = requests[p].token
    BY <2>0, <2>4 DEF FindById, Run, Refreshes
  <2>5. ASSUME NEW q \in Requests, NEW a \in Subjects, BeginLogin(q, a) \/ BeginExchange(q, a)
        PROVE  requests'[p] = requests[p]
    BY <2>0, <2>5 DEF BeginLogin, BeginExchange, Run, Refreshes
  <2>6. Restart => requests'[p] = requests[p]
    BY <2>0 DEF Restart, Refreshes
  <2>7. UNCHANGED vars \/ Tick \/ (\E s \in Subjects : Disable(s) \/ ReEnable(s))
          => requests'[p] = requests[p]
    BY DEF vars, Tick, Disable, ReEnable
  <2>8. ASSUME NEW q \in Requests, Login(q) \/ Renew(q) \/ Exchange(q) \/ RequestFails(q)
        PROVE  Finish(q)
    BY <2>8 DEF Login, Renew, Exchange, RequestFails
  <2> QED BY <2>1, <2>2, <2>3, <2>4, <2>5, <2>6, <2>7, <2>8
          DEF Next, Subjects, Rotation, PresentsUnused
<1> QED BY <1>1, <1>2 DEF Rotation

LEMMA RotationLogin ==
    ASSUME Types, Rotation, NEW q \in Requests, Login(q), requests[q].active
    PROVE  Rotation'
<1>0. /\ used' = used /\ tainted' = tainted /\ Finish(q)
      /\ TypeOK /\ SignedOK
  BY DEF Login, histories, Types
<1>1. PICK t \in Tokens : Pair(q, t, t)
  BY LoginPair
<1>2. \A u \in Tokens : refresh[u] # None => u # t /\ refresh'[u] = refresh[u]
  BY <1>1 DEF Pair
<1>3. OneLeft'
  <2> SUFFICES ASSUME NEW login \in Tokens \ tainted, Family(login)' # {}
               PROVE  \E x \in Tokens : Family(login)' \ used = {x}
    BY <1>0 DEF OneLeft
  <2>1. CASE login = t
    <3>1. \A u \in Tokens \ {t} : refresh[u] # None => refresh[u].login # t
      BY <1>0, <1>1 DEF SignedOK, Pair
    <3>2. Family(login)' = {t}
      BY <2>1, <3>1, <1>1 DEF Family, Pair
    <3>3. t \notin used
      BY <1>0, <1>1 DEF SignedOK, Pair
    <3> QED BY <3>2, <3>3
  <2>2. CASE login # t
    <3>1. Family(login)' = Family(login)
      BY <2>2, <1>1 DEF Family, Pair
    <3> QED BY <3>1 DEF Rotation, OneLeft
  <2> QED BY <2>1, <2>2
<1>4. PresentsUnused'
  <2> SUFFICES ASSUME NEW p \in Requests, Refreshes(requests'[p]),
                      refresh'[requests'[p].token].login \notin tainted
               PROVE  requests'[p].token \notin used
    BY <1>0 DEF PresentsUnused, Refreshes
  <2>1. requests'[p] = requests[p]
    BY <1>0, IdleFacts, FinishKeepsRequests DEF Refreshes
  <2> QED BY <2>1, <1>2, RenewToken DEF Rotation, PresentsUnused
<1> QED BY <1>3, <1>4 DEF Rotation

LEMMA RotationRenew ==
    ASSUME Types, Rotation, NEW q \in Requests, Renew(q), requests[q].active
    PROVE  Rotation'
<1> DEFINE u == requests[q].token
           chain == refresh[u].login
<1>0. TypeOK /\ SignedOK /\ Refreshes(requests[q])
  BY DEF Types, Renew, Refreshes
<1>1. /\ used' = used \cup {u} /\ Finish(q)
      /\ tainted' = IF Rivals(q, u) # {} THEN tainted \cup {chain} ELSE tainted
  BY DEF Renew, MayRefresh
<1>2. u \in Tokens /\ refresh[u] # None /\ chain \in Tokens /\ refresh[chain] # None
  BY <1>0, RenewToken
<1>3. PICK t \in Tokens : Pair(q, t, chain)
  BY RenewPair
<1>4. \A v \in Tokens : refresh[v] # None => v # t /\ refresh'[v] = refresh[v]
  BY <1>3 DEF Pair
<1>5. OneLeft'
  <2> SUFFICES ASSUME NEW login \in Tokens \ tainted', Family(login)' # {}
               PROVE  \E x \in Tokens : Family(login)' \ used' = {x}
    BY DEF OneLeft
  <2>0. login \notin tainted
    BY <1>1
  <2>1. CASE login = chain
    <3>1. u \notin used
      BY <2>0, <2>1, <1>0 DEF Rotation, PresentsUnused
    <3>2. u \in Family(login)
      BY <2>1, <1>2 DEF Family
    <3>3. Family(login) \ used = {u}
      BY <2>0, <3>1, <3>2 DEF Rotation, OneLeft
    <3>4. Family(login)' = Family(login) \cup {t}
      BY <2>1, <1>3 DEF Family, Pair
    <3>5. t \notin used /\ t # u
      BY <1>0, <1>2, <1>3 DEF SignedOK, Pair
    <3>6. Family(login)' \ used' = {t}
      BY <3>3, <3>4, <3>5, <1>1
    <3> QED BY <3>6
  <2>2. CASE login # chain
    <3>1. Family(login)' = Family(login)
      BY <2>2, <1>3 DEF Family, Pair
    <3>2. u \notin Family(login)
      BY <2>2 DEF Family
    <3>3. Family(login)' \ used' = Family(login) \ used
      BY <3>1, <3>2, <1>1
    <3> QED BY <2>0, <3>1, <3>3 DEF Rotation, OneLeft
  <2> QED BY <2>1, <2>2
<1>6. PresentsUnused'
  <2> SUFFICES ASSUME NEW p \in Requests, Refreshes(requests'[p]),
                      refresh'[requests'[p].token].login \notin tainted'
               PROVE  requests'[p].token \notin used'
    BY DEF PresentsUnused, Refreshes
  <2> DEFINE v == requests[p].token
  <2>1. p # q /\ requests'[p] = requests[p]
    BY <1>0, <1>1, IdleFacts, FinishKeepsRequests DEF Refreshes
  <2>2. v \in Tokens /\ refresh[v] # None /\ refresh'[v] = refresh[v]
    BY <2>1, <1>4, RenewToken
  <2>3. refresh[v].login \notin tainted'
    BY <2>1, <2>2
  <2>4. v \notin used
    BY <2>1, <2>3, <1>1 DEF Rotation, PresentsUnused
  <2>5. ASSUME v = u PROVE FALSE
    <3>1. p \in Rivals(q, u)
      BY <2>1, <2>5 DEF Rivals, Refreshes
    <3> QED BY <3>1, <2>3, <2>5, <1>1
  <2> QED BY <2>1, <2>4, <2>5, <1>1
<1> QED BY <1>5, <1>6 DEF Rotation

LEMMA RotationRestart == ASSUME Types, Rotation, Restart PROVE Rotation'
<1>1. OneLeft'
  <2> SUFFICES ASSUME NEW login \in Tokens \ tainted', Family(login)' # {}
               PROVE  \E x \in Tokens : Family(login)' \ used' = {x}
    BY DEF OneLeft
  <2>1. Family(login)' = Family(login) /\ used' = {} /\ login \notin tainted
    BY DEF Restart, Family
  <2>2. \A t \in used : refresh[t].login # login
    BY DEF Restart
  <2>3. Family(login) \ used = Family(login) \ {}
    BY <2>2 DEF Family
  <2> QED BY <2>1, <2>3 DEF Rotation, OneLeft
<1>2. PresentsUnused'
  BY DEF Restart, PresentsUnused
<1> QED BY <1>1, <1>2 DEF Rotation

LEMMA RotationStep == ASSUME Types, Rotation, [Next]_vars PROVE Rotation'
<1>1. CASE UNCHANGED <<refresh, used, tainted>>
  BY <1>1, RotationSame
<1>2. ASSUME NEW q \in Requests, Login(q) \/ Renew(q), ~requests[q].active
      PROVE  UNCHANGED <<refresh, used, tainted>>
  BY <1>2 DEF Login, Renew, MayRefresh, tokens, histories
<1>3. \/ UNCHANGED <<refresh, used, tainted>>
      \/ Restart
      \/ \E q \in Requests : Login(q) \/ Renew(q)
  BY DEF Next, BeginLogin, BeginRefresh, FindById, BeginExchange, Exchange, RequestFails,
         Disable, ReEnable, Tick, tokens, histories, vars
<1> QED BY <1>1, <1>2, <1>3, RotationLogin, RotationRenew, RotationRestart

\* Of the tokens that descend from one login exactly one is not used up, unless two
\* requests used one at the same time or a restart forgot used ones.
THEOREM RotationHolds == Spec => []RotationAddsUp
<1>1. Init => Types /\ Rotation
  <2> SUFFICES ASSUME Init PROVE Rotation
    BY InitTypes
  <2> QED BY DEF Init, Rotation, PresentsUnused, OneLeft, Family
<1>2. Types /\ Rotation /\ [Next]_vars => (Types /\ Rotation)'
  BY TypesStep, RotationStep
<1>3. Rotation => RotationAddsUp
  BY OneLeftIsOne DEF Rotation
<1> QED BY <1>1, <1>2, <1>3, PTL DEF Spec

----------------------------------------------------------------------------
(* Refinement *)

\* A refresh under way is its token's account's.
OwnTokens ==
    \A q \in Requests :
        Refreshes(requests[q]) => requests[q].account = refresh[requests[q].token].account

\* Tokens are signed once.
LEMMA SignedStay ==
    ASSUME Types, [Next]_vars, NEW t \in Tokens, refresh[t] # None
    PROVE  refresh'[t] = refresh[t]
<1>1. ASSUME NEW q \in Requests, Login(q), requests[q].active PROVE refresh'[t] = refresh[t]
  BY <1>1, LoginPair DEF Pair
<1>2. ASSUME NEW q \in Requests, Renew(q), requests[q].active PROVE refresh'[t] = refresh[t]
  BY <1>2, RenewPair DEF Pair
<1>3. ASSUME NEW q \in Requests, Login(q) \/ Renew(q), ~requests[q].active PROVE UNCHANGED refresh
  BY <1>3 DEF Login, Renew, MayRefresh, tokens
<1> QED BY <1>1, <1>2, <1>3 DEF Next, BeginLogin, BeginRefresh, FindById, BeginExchange, Exchange,
           RequestFails, Disable, ReEnable, Restart, Tick, tokens, vars

LEMMA OwnStep == ASSUME Types, OwnTokens, [Next]_vars PROVE OwnTokens'
<1>0. requests \in [Requests -> Request] /\ Idle.pc = "idle"
  BY IdleFacts DEF Types, TypeOK
<1> SUFFICES ASSUME NEW p \in Requests, Refreshes(requests'[p])
             PROVE  requests'[p].account = refresh'[requests'[p].token].account
  BY DEF OwnTokens, Refreshes
<1> DEFINE Same == /\ Refreshes(requests[p])
                   /\ requests'[p].token = requests[p].token
                   /\ requests'[p].account = requests[p].account
<1>1. CASE Same
  <2>1. requests[p].token \in Tokens /\ refresh[requests[p].token] # None
    BY <1>0, <1>1, RequestKinds DEF Types, RequestsOK
  <2> QED BY <1>1, <2>1, SignedStay DEF OwnTokens
<1>2. ASSUME NEW q \in Requests, NEW t \in Tokens, BeginRefresh(q, t)
      PROVE  requests'[p].account = refresh'[requests'[p].token].account
  <2>1. CASE p = q
    BY <1>0, <1>2, <2>1 DEF BeginRefresh, Run, tokens
  <2>2. CASE p # q
    BY <1>0, <1>1, <1>2, <2>2 DEF BeginRefresh, Run
  <2> QED BY <2>1, <2>2
<1>3. ASSUME NEW q \in Requests, FindById(q) PROVE Same
  BY <1>0, <1>3 DEF FindById, Run, Refreshes
<1>4. ASSUME NEW q \in Requests, Finish(q) PROVE Same
  BY <1>0, <1>4 DEF Finish, Run, Refreshes
<1>5. ASSUME NEW q \in Requests, NEW a \in Subjects, BeginLogin(q, a) \/ BeginExchange(q, a)
      PROVE  Same
  BY <1>0, <1>5 DEF BeginLogin, BeginExchange, Run, Refreshes
<1>6. ~Restart
  BY <1>0 DEF Restart, Refreshes
<1>7. UNCHANGED vars \/ Tick \/ (\E s \in Subjects : Disable(s) \/ ReEnable(s)) => Same
  BY DEF vars, Tick, Disable, ReEnable
<1>8. ASSUME NEW q \in Requests, Login(q) \/ Renew(q) \/ Exchange(q) \/ RequestFails(q)
      PROVE  Finish(q)
  BY <1>8 DEF Login, Renew, Exchange, RequestFails
<1> HIDE DEF Same
<1> QED BY <1>1, <1>2, <1>3, <1>4, <1>5, <1>6, <1>7, <1>8 DEF Next, Subjects

OwnersOf(l) == {refresh[t].account : t \in Shown(l)}
UsableOf(l) == Shown(l) \ used

\* What the abstract state shows of a login.
SameChain(l) ==
    UNCHANGED <<OwnersOf(l), Shown(l), UsableOf(l)>>

LEMMA ChainsDiffer ==
    ASSUME Types, NEW q \in Requests, NEW t \in Tokens, NEW login \in Tokens, Pair(q, t, login),
           NEW l \in Tokens, l \notin tainted', tainted \subseteq tainted'
    PROVE  /\ l # login => Shown(l)' = Shown(l) /\ OwnersOf(l)' = OwnersOf(l)
           /\ l = login => /\ Shown(l)' = Shown(l) \cup {t}
                           /\ OwnersOf(l)' = OwnersOf(l) \cup {requests[q].account}
<1>1. \A u \in Tokens : refresh[u] # None => u # t /\ refresh'[u] = refresh[u]
  BY DEF Pair
<1>2. l \notin tainted
  OBVIOUS
<1>3. l # login => Shown(l)' = Shown(l)
  BY <1>2 DEF Shown, Family, Pair
<1>4. l = login => Shown(l)' = Shown(l) \cup {t}
  BY <1>2 DEF Shown, Family, Pair
<1>5. \A u \in Shown(l) : refresh'[u].account = refresh[u].account
  BY <1>1 DEF Shown, Family
<1>6. refresh'[t].account = requests[q].account
  BY DEF Pair
<1>7. l # login => OwnersOf(l)' = OwnersOf(l)
  BY <1>3, <1>5 DEF OwnersOf
<1>8. l = login => OwnersOf(l)' = OwnersOf(l) \cup {requests[q].account}
  BY <1>4, <1>5, <1>6 DEF OwnersOf
<1> QED BY <1>3, <1>4, <1>7, <1>8

\* No shown chain has a token that was not signed.
LEMMA UnsignedNew ==
    ASSUME NEW t \in Tokens, refresh[t] = None PROVE Chains!New(t)
BY DEF Chains!New, Shown, Family

\* The steps of the chains, login by login.
LEMMA SameIsStutter ==
    ASSUME \A l \in Tokens : SameChain(l), UNCHANGED tainted
    PROVE  UNCHANGED Chains!vars
BY DEF SameChain, OwnersOf, UsableOf, Chains!vars

LEMMA StartIsLogin ==
    ASSUME NEW t \in Tokens, NEW a \in Admins, Chains!New(t), Shown(t) = {},
           Shown(t)' = {t}, OwnersOf(t)' = {a}, UsableOf(t)' = {t},
           \A l \in Tokens \ {t} : SameChain(l), UNCHANGED tainted
    PROVE  Chains!Login(t, a)
BY DEF SameChain, OwnersOf, UsableOf, Chains!Login

LEMMA ExchangeIsRefresh ==
    ASSUME NEW l \in Tokens, NEW t \in Tokens, Chains!New(t), Shown(l) # {},
           Shown(l)' = Shown(l) \cup {t}, OwnersOf(l)' = OwnersOf(l), UsableOf(l)' = {t},
           \A k \in Tokens \ {l} : SameChain(k), UNCHANGED tainted
    PROVE  Chains!Refresh(l, t)
BY DEF SameChain, OwnersOf, UsableOf, Chains!Refresh

LEMMA TaintIsLose ==
    ASSUME NEW logins \in SUBSET Tokens, tainted' = tainted \cup logins,
           \A l \in Tokens \ tainted' : SameChain(l)
    PROVE  Chains!Lose(logins)
<1>1. ASSUME NEW l \in Tokens
      PROVE  /\ Shown(l)' = IF l \in logins THEN {} ELSE Shown(l)
             /\ OwnersOf(l)' = IF l \in logins THEN {} ELSE OwnersOf(l)
             /\ UsableOf(l)' = IF l \in logins THEN {} ELSE UsableOf(l)
  <2>1. CASE l \in tainted'
    BY <2>1 DEF Shown, OwnersOf, UsableOf
  <2>2. CASE l \notin tainted'
    BY <2>2 DEF SameChain
  <2> QED BY <2>1, <2>2
<1> QED BY <1>1 DEF OwnersOf, UsableOf, Chains!Lose, Chains!Without

\* A login starts a chain.
LEMMA LoginIsLogin ==
    ASSUME Types, NEW q \in Requests, Login(q), requests[q].active
    PROVE  Chains!Next \/ UNCHANGED Chains!vars
<1>0. used' = used /\ tainted' = tainted /\ SignedOK
  BY DEF Login, histories, Types
<1>1. PICK t \in Tokens : Pair(q, t, t)
  BY LoginPair
<1>2. ASSUME NEW l \in Tokens \ {t} PROVE SameChain(l)
  <2>1. CASE l \in tainted
    BY <1>0, <2>1 DEF SameChain, OwnersOf, UsableOf, Shown
  <2>2. CASE l \notin tainted
    BY <1>0, <1>1, <2>2, ChainsDiffer DEF SameChain, UsableOf
  <2> QED BY <2>1, <2>2
<1>3. CASE t \in tainted
  <2>1. SameChain(t)
    BY <1>0, <1>3 DEF SameChain, OwnersOf, UsableOf, Shown
  <2> QED BY <1>0, <1>2, <2>1, SameIsStutter
<1>4. CASE t \notin tainted
  <2>1. Shown(t) = {}
    BY <1>0, <1>1 DEF Shown, Family, SignedOK, Pair
  <2>2. OwnersOf(t) = {}
    BY <2>1 DEF OwnersOf
  <2>3. Shown(t)' = {t} /\ OwnersOf(t)' = {requests[q].account}
    BY <1>0, <1>1, <1>4, <2>1, <2>2, ChainsDiffer
  <2>4. UsableOf(t)' = {t}
    BY <1>0, <1>1, <2>3 DEF UsableOf, SignedOK, Pair
  <2>5. PICK a \in Admins : requests[q].account = a
    BY <1>1 DEF Pair
  <2>6. Chains!New(t)
    BY <1>1, UnsignedNew DEF Pair
  <2>7. Chains!Login(t, a)
    BY <1>0, <1>2, <2>1, <2>3, <2>4, <2>5, <2>6, StartIsLogin
  <2> QED BY <2>7 DEF Chains!Next
<1> QED BY <1>3, <1>4

\* A renewal exchanges a token, unless a rival presents it too.
LEMMA RenewIsRefresh ==
    ASSUME Types, OwnTokens, Rotation, Rotation', NEW q \in Requests, Renew(q), requests[q].active
    PROVE  Chains!Next \/ UNCHANGED Chains!vars
<1>0. TypeOK /\ SignedOK /\ Refreshes(requests[q])
  BY DEF Types, Renew, Refreshes
<1>1. PICK u \in Tokens, chain \in Tokens :
         requests[q].token = u /\ refresh[u] # None /\ refresh[u].login = chain
  BY <1>0, RenewToken
<1>2. /\ used' = used \cup {u}
      /\ tainted' = IF Rivals(q, u) # {} THEN tainted \cup {chain} ELSE tainted
  BY <1>1 DEF Renew, MayRefresh
<1>3. PICK t \in Tokens : Pair(q, t, chain)
  BY <1>1, RenewPair
<1>4. ASSUME NEW l \in Tokens \ {chain} PROVE SameChain(l)
  <2>1. CASE l \in tainted
    BY <1>2, <2>1 DEF SameChain, OwnersOf, UsableOf, Shown
  <2>2. CASE l \notin tainted
    <3>1. Shown(l)' = Shown(l) /\ OwnersOf(l)' = OwnersOf(l)
      BY <1>2, <1>1, <1>3, <2>2, ChainsDiffer
    <3>2. u \notin Shown(l)
      BY <1>1, <1>4 DEF Shown, Family
    <3> QED BY <1>2, <3>1, <3>2 DEF SameChain, UsableOf
  <2> QED BY <2>1, <2>2
<1>5. CASE chain \in tainted
  <2>1. SameChain(chain) /\ UNCHANGED tainted
    BY <1>2, <1>5 DEF SameChain, OwnersOf, UsableOf, Shown
  <2> QED BY <1>4, <2>1, SameIsStutter
<1>6. CASE chain \notin tainted /\ tainted' # tainted
  <2>1. tainted' = tainted \cup {chain}
    BY <1>2, <1>6
  <2>2. Chains!Lose({chain})
    BY <1>1, <1>4, <2>1, TaintIsLose
  <2> QED BY <1>1, <2>2 DEF Chains!Next
<1>7. CASE chain \notin tainted /\ tainted' = tainted
  <2>1. u \in Shown(chain)
    BY <1>1, <1>7 DEF Shown, Family
  <2>2. requests[q].account = refresh[u].account
    BY <1>0, <1>1 DEF OwnTokens
  <2>3. /\ Shown(chain)' = Shown(chain) \cup {t}
        /\ OwnersOf(chain)' = OwnersOf(chain) \cup {requests[q].account}
    BY <1>1, <1>3, <1>7, ChainsDiffer
  <2>4. OwnersOf(chain)' = OwnersOf(chain)
    BY <2>1, <2>2, <2>3 DEF OwnersOf
  <2>5. UsableOf(chain)' = {t}
    <3>1. t \in Shown(chain)' /\ t \notin used'
      BY <1>0, <1>2, <1>1, <1>3, <2>3 DEF SignedOK, Pair
    <3>2. PICK x \in Tokens : UsableOf(chain)' = {x}
      <4>1. Shown(chain)' = Family(chain)'
        BY <1>7 DEF Shown
      <4>2. Family(chain)' # {}
        BY <3>1, <4>1
      <4>3. PICK x \in Tokens : Family(chain)' \ used' = {x}
        BY <1>1, <1>7, <4>2 DEF Rotation, OneLeft
      <4> QED BY <4>1, <4>3 DEF UsableOf
    <3> QED BY <3>1, <3>2 DEF UsableOf
  <2>6. Chains!New(t)
    BY <1>3, UnsignedNew DEF Pair
  <2>7. Chains!Refresh(chain, t)
    BY <1>1, <1>4, <1>7, <2>1, <2>3, <2>4, <2>5, <2>6, ExchangeIsRefresh
  <2> QED BY <1>1, <2>7 DEF Chains!Next
<1> QED BY <1>5, <1>6, <1>7

\* A restart loses the chains it forgets used tokens of.
LEMMA RestartIsLose ==
    ASSUME Types, Restart PROVE Chains!Next \/ UNCHANGED Chains!vars
<1>0. \A t \in used : t \in Tokens /\ refresh[t].login \in Tokens
  BY DEF Types, TypeOK, SignedOK, RefreshToken
<1>1. PICK logins \in SUBSET Tokens : logins = {refresh[t].login : t \in used}
  BY <1>0
<1>2. UNCHANGED refresh /\ used' = {} /\ tainted' = tainted \cup logins
  BY <1>1 DEF Restart
<1>3. ASSUME NEW l \in Tokens \ tainted' PROVE SameChain(l)
  <2>1. Shown(l)' = Shown(l) /\ OwnersOf(l)' = OwnersOf(l)
    BY <1>2, <1>3 DEF Shown, Family, OwnersOf
  <2>2. \A t \in used : t \notin Shown(l)
    BY <1>1, <1>2, <1>3 DEF Shown, Family
  <2> QED BY <1>2, <2>1, <2>2 DEF SameChain, UsableOf
<1>4. CASE logins = {}
  <2>1. tainted' = tainted
    BY <1>2, <1>4
  <2>2. ASSUME NEW l \in tainted PROVE SameChain(l)
    BY <2>1, <2>2 DEF SameChain, OwnersOf, UsableOf, Shown
  <2> QED BY <1>3, <2>1, <2>2, SameIsStutter
<1>5. CASE logins # {}
  <2>1. Chains!Lose(logins)
    BY <1>2, <1>3, TaintIsLose
  <2> QED BY <1>5, <2>1 DEF Chains!Next
<1> QED BY <1>4, <1>5

\* The refresh tokens do what RefreshChains promises: one usable token of a chain for
\* one that is new, and a chain stays its owner's.
THEOREM ImplementsChains == Spec => ChainsSpec
<1> DEFINE Known == Types /\ Rotation /\ OwnTokens
<1>1. Init => Known /\ Chains!Init
  <2> SUFFICES ASSUME Init PROVE Rotation /\ OwnTokens /\ Chains!Init
    BY InitTypes
  <2>1. Rotation /\ OwnTokens
    BY IdleFacts DEF Init, Rotation, PresentsUnused, OneLeft, Family, OwnTokens, Refreshes
  <2>2. \A l \in Tokens : Shown(l) = {} /\ OwnersOf(l) = {} /\ UsableOf(l) = {}
    BY DEF Init, Shown, Family, OwnersOf, UsableOf
  <2> QED BY <2>1, <2>2 DEF Init, Chains!Init, Chains!Nothing, OwnersOf, UsableOf
<1>2. Known /\ [Next]_vars => Known'
  BY TypesStep, RotationStep, OwnStep
<1>3. Known /\ Known' /\ [Next]_vars => [Chains!Next]_(Chains!vars)
  <2> SUFFICES ASSUME Known, Known', [Next]_vars PROVE Chains!Next \/ UNCHANGED Chains!vars
    OBVIOUS
  <2>1. CASE UNCHANGED <<refresh, used, tainted>>
    <3>1. \A l \in Tokens : SameChain(l)
      BY <2>1 DEF SameChain, OwnersOf, UsableOf, Shown, Family
    <3> QED BY <2>1, <3>1, SameIsStutter
  <2>2. ASSUME NEW q \in Requests, Login(q) \/ Renew(q), ~requests[q].active
        PROVE  UNCHANGED <<refresh, used, tainted>>
    BY <2>2 DEF Login, Renew, MayRefresh, tokens, histories
  <2>3. \/ UNCHANGED <<refresh, used, tainted>>
        \/ Restart
        \/ \E q \in Requests : Login(q) \/ Renew(q)
    BY DEF Next, BeginLogin, BeginRefresh, FindById, BeginExchange, Exchange, RequestFails,
           Disable, ReEnable, Tick, tokens, histories, vars
  <2> QED BY <2>1, <2>2, <2>3, LoginIsLogin, RenewIsRefresh, RestartIsLose
<1> QED BY <1>1, <1>2, <1>3, PTL DEF Spec, ChainsSpec, Chains!Spec

----------------------------------------------------------------------------
(* What only overlapping refreshes and restarts can break *)

\* A refresh is answered before another one presents the same token.
TokensApart ==
    \A p, q \in Requests :
        /\ Refreshes(requests[p]) /\ Refreshes(requests[q])
        /\ requests[p].token = requests[q].token
        => p = q

Untainted == tainted = {}

LEMMA UntaintedStep ==
    Untainted /\ TokensApart /\ [Next]_vars /\ [~Restart]_vars => Untainted'
<1> SUFFICES ASSUME Untainted, TokensApart, [Next]_vars, [~Restart]_vars PROVE Untainted'
  OBVIOUS
<1>1. ASSUME NEW q \in Requests, Renew(q) PROVE Untainted'
  <2>1. Rivals(q, requests[q].token) = {}
    BY <1>1 DEF Renew, Rivals, TokensApart, Refreshes
  <2> QED BY <1>1, <2>1 DEF Renew, Untainted
<1>2. tainted' = tainted \/ (\E q \in Requests : Renew(q)) \/ (Restart /\ Next)
  BY DEF Next, BeginLogin, Login, BeginRefresh, FindById, BeginExchange, Exchange, RequestFails,
         Disable, ReEnable, Tick, vars, histories
<1>3. Restart => UNCHANGED vars
  OBVIOUS
<1> QED BY <1>1, <1>2, <1>3 DEF Untainted, vars, histories

\* In a process that is not restarted, and as long as no two requests present one
\* token at a time, exactly one token of every login is not used up, whatever else
\* overlaps or fails.
THEOREM RotationSafe ==
    Spec /\ []TokensApart /\ [][~Restart]_vars =>
       [](\A login \in Tokens : Family(login) # {} => Cardinality(Family(login) \ used) = 1)
<1>1. Init => Untainted
  BY DEF Init, Untainted
<1>2. RotationAddsUp /\ Untainted =>
         \A login \in Tokens : Family(login) # {} => Cardinality(Family(login) \ used) = 1
  BY DEF RotationAddsUp, Untainted
<1> QED BY <1>1, <1>2, UntaintedStep, RotationHolds, PTL DEF Spec

=============================================================================
