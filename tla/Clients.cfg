\* Four rows and pages of one; two notifications, two users and three requests of
\* theirs; every kind of route.
SPECIFICATION FairSpec
CONSTANTS
    MaxRow = 4  Limit = 1  Column <- AuditColumns
    Sorts <- AuditSorts  Allowed <- AuditFields
    Notes = {n1, n2}  Users = {ann, bob}  Requests = {r1, r2, r3}
    NoNote = NoNote  NoUser = NoUser  MaxTime = 3
    Routes = {"open", "private", "empty", "download", "probe", "callback"}
INVARIANTS TypesOK EveryRowOnce CountedOnce OneAnswer
PROPERTIES FirstReadStays EveryRequestIsAnswered
\* A scan and an exchange end.
CHECK_DEADLOCK FALSE
