\* Every operation the extension's lists and branches name, with any arguments.
SPECIFICATION Spec
CONSTANTS
    i1 = i1  i2 = i2  i3 = i3  t1 = t1  t2 = t2  p1 = p1  p2 = p2
    NoTenant = NoTenant  Absent = Absent
    Rows = {i1, i2, i3}  Tenants = {t1, t2}  Callers = {p1, p2}
    Operations = {"findFirst", "findFirstOrThrow", "findMany", "count", "aggregate", "groupBy",
                  "update", "updateMany", "delete", "deleteMany", "findUnique",
                  "findUniqueOrThrow", "create", "createMany", "upsert"}
INVARIANTS Isolation
CHECK_DEADLOCK FALSE
