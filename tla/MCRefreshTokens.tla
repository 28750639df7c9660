--------------------------- MODULE MCRefreshTokens ---------------------------
(* RefreshTokens on small instances, with their symmetries. *)
EXTENDS RefreshTokens, TLC

CONSTANTS t1, t2, t3, t4, ann, bob, r1, r2, r3

Symmetry == Permutations(Tokens) \union Permutations(Users) \union Permutations(Requests)
=============================================================================
