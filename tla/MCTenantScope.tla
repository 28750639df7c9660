--------------------------- MODULE MCTenantScope ---------------------------
(* TenantScope on small instances, with their symmetries. *)
EXTENDS TenantScope, TLC

CONSTANTS i1, i2, i3, t1, t2, p1, p2

Symmetry == Permutations(Rows) \union Permutations(Tenants) \union Permutations(Callers)
=============================================================================
