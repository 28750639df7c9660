\* Two audits, a redelivered job, two handlers and a reaper; send() may fail after storing.
SPECIFICATION Spec
CONSTANTS
    a1 = a1  a2 = a2  a3 = a3  a4 = a4
    w1 = w1  w2 = w2  p1 = p1  p2 = p2
    acme = acme  globex = globex
    NoAudit = NoAudit
    Audits = {a1, a2}  Tenants = {acme}  TenantOf <- OneTenant
    Workers = {w1, w2}  Reapers = {p1}
    MaxInflight = 2  Burst = 2
    Stale = 1  Retention = 2  Deliveries = 2
    MaxTime = 3
SYMMETRY SymmetryOneTenant
INVARIANTS AtMostOneNotification HandledByOne NotificationMatchesStatus ErroredRequestLeavesFailedAudit
PROPERTIES FreshAuditsAreNotReaped
CHECK_DEADLOCK FALSE
