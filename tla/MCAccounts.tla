----------------------------- MODULE MCAccounts -----------------------------
(* Accounts on small instances, with their symmetries. *)
EXTENDS Accounts, TLC

CONSTANTS a1, a2, a3, e1, e2, g1, g2, r1, r2

Symmetry ==
    Permutations(Accounts) \union Permutations(Emails)
        \union Permutations(Googles) \union Permutations(Requests)
=============================================================================
