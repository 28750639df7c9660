\* Two audits, a worker, two overlapping sweeps; send() may fail after storing its job;
\* after the one tick all that nobody touched is stale.  The refinement, and that nothing
\* stays stuck.
SPECIFICATION FairSpec
CONSTANTS
    a1 = a1  a2 = a2  a3 = a3  a4 = a4
    w1 = w1  w2 = w2  p1 = p1  p2 = p2
    acme = acme  globex = globex
    NoAudit = NoAudit
    Audits = {a1, a2}  Tenants = {acme}  TenantOf <- OneTenant
    Workers = {w1}  Reapers = {p1, p2}
    MaxInflight = 2  Burst = 2
    Stale = 0  Retention = 0  Deliveries = 1
    MaxTime = 1
PROPERTIES ImplementsLifecycle OverdueAuditsSettle
CHECK_DEADLOCK FALSE
