--------------------------- MODULE MCAuditPipeline ---------------------------
(* AuditPipeline on small instances: who owns which audit, and the symmetries. *)
EXTENDS AuditPipeline, TLC

CONSTANTS a1, a2, a3, a4, w1, w2, p1, p2, acme, globex

OneTenant == [a \in Audits |-> acme]
TwoTenants == [a \in Audits |-> IF a = a4 THEN globex ELSE acme]

\* The processes, and the audits of one tenant, are interchangeable.
Symmetry == Permutations(Workers) \union Permutations(Reapers)
SymmetryOfAcme == Symmetry \union Permutations({a1, a2, a3})
SymmetryOneTenant == Symmetry \union Permutations(Audits)
=============================================================================
