----------------------------- MODULE MCAccounts -----------------------------
(* Bounded instance of Accounts for TLC. *)
EXTENDS Accounts, TLC

Symmetry ==
    Permutations(Orgs) \cup Permutations(Accounts) \cup Permutations(Slugs)
    \cup Permutations(Emails) \cup Permutations(Columns) \cup Permutations(Requests)
=============================================================================
