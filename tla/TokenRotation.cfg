\* Two requests, three tokens: who holds a live token when.
SPECIFICATION Spec
CONSTANTS
    t1 = t1  t2 = t2  t3 = t3  t4 = t4  ann = ann  bob = bob
    r1 = r1  r2 = r2  r3 = r3
    NoToken = NoToken  NoUser = NoUser
    Tokens = {t1, t2, t3}  Users = {ann}  Requests = {r1, r2}
    Ttl = 1  Grace = 0  MaxTime = 2
SYMMETRY Symmetry
INVARIANTS SessionNeverForks LateTokensAreUseless
PROPERTIES CaughtFamilyIsDead ReuseIsCaught
CHECK_DEADLOCK FALSE
