\* Three requests, two files, two tenants, without symmetry: what rows and objects become.
SPECIFICATION FairSpec
CONSTANTS
    f1 = f1  f2 = f2  t1 = t1  t2 = t2  r1 = r1  r2 = r2  r3 = r3  r4 = r4
    NoFile = NoFile  NoTenant = NoTenant
    FileIds = {f1, f2}  Tenants = {t1, t2}  Requests = {r1, r2, r3}
INVARIANTS RowHasObject OrphansComeFromFailures
PROPERTIES ImplementsStoredFile RemovedObjectsGo
CHECK_DEADLOCK FALSE
