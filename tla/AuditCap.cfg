\* Four requests of two tenants against the cap.
SPECIFICATION Spec
CONSTANTS
    a1 = a1  a2 = a2  a3 = a3  a4 = a4
    w1 = w1  w2 = w2  p1 = p1  p2 = p2
    acme = acme  globex = globex
    NoAudit = NoAudit
    Audits = {a1, a2, a3, a4}  Tenants = {acme, globex}  TenantOf <- TwoTenants
    Workers = {w1}  Reapers = {}
    MaxInflight = 1  Burst = 2
    Stale = 0  Retention = 0  Deliveries = 1
    MaxTime = 0
SYMMETRY SymmetryOfAcme
INVARIANTS SoftCap
CHECK_DEADLOCK FALSE
