------------------------------- MODULE MCFiles -------------------------------
(* Files on small instances, with their symmetries. *)
EXTENDS Files, TLC

CONSTANTS f1, f2, t1, t2, r1, r2, r3, r4

Symmetry == Permutations(FileIds) \union Permutations(Tenants) \union Permutations(Requests)
=============================================================================
