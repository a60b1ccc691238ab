--------------------------- MODULE RefreshChains ----------------------------
(***************************************************************************)
(* What rotating refresh tokens promises the admins: each login starts a   *)
(* chain of tokens that stays its owner's, and a refresh exchanges the one *)
(* usable token of the chain for a new one, which nobody was ever given    *)
(* before.  A chain is called by its first token.  Nothing is promised of  *)
(* the chains in lost, which are shown empty.                              *)
(***************************************************************************)
CONSTANTS Admins, Tokens

VARIABLES
    owners,     \* the accounts the tokens of a chain were given to
    issued,     \* all tokens of a chain
    usable,     \* those a refresh would accept
    lost

vars == <<owners, issued, usable, lost>>

Nothing == [l \in Tokens |-> {}]

Init == owners = Nothing /\ issued = Nothing /\ usable = Nothing /\ lost = {}

New(t) == \A l \in Tokens : t \notin issued[l]

Login(t, a) ==
    /\ issued[t] = {} /\ New(t)
    /\ owners' = [owners EXCEPT ![t] = {a}]
    /\ issued' = [issued EXCEPT ![t] = {t}]
    /\ usable' = [usable EXCEPT ![t] = {t}]
    /\ UNCHANGED lost

Refresh(l, t) ==
    /\ issued[l] # {} /\ New(t)
    /\ issued' = [issued EXCEPT ![l] = issued[l] \cup {t}]
    /\ usable' = [usable EXCEPT ![l] = {t}]
    /\ UNCHANGED <<owners, lost>>

\* Two refreshes with one token, or a restart that forgets which are used.
Without(f, logins) == [l \in Tokens |-> IF l \in logins THEN {} ELSE f[l]]
Lose(logins) ==
    /\ lost' = lost \cup logins
    /\ owners' = Without(owners, logins)
    /\ issued' = Without(issued, logins)
    /\ usable' = Without(usable, logins)

Next ==
    \/ \E t \in Tokens, a \in Admins : Login(t, a)
    \/ \E l, t \in Tokens : Refresh(l, t)
    \/ \E logins \in (SUBSET Tokens) \ {{}} : Lose(logins)

Spec == Init /\ [][Next]_vars

=============================================================================
