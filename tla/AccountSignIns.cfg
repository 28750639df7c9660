\* Two requests, two emails, two identities: every way in, overlapping.
SPECIFICATION Spec
CONSTANTS
    a1 = a1  a2 = a2  a3 = a3  e1 = e1  e2 = e2  g1 = g1  g2 = g2  r1 = r1  r2 = r2
    NoAccount = NoAccount  NoEmail = NoEmail  NoGoogle = NoGoogle
    Accounts = {a1, a2}  Emails = {e1, e2}  Googles = {g1, g2}  Requests = {r1, r2}
SYMMETRY Symmetry
INVARIANTS OneAccountEach EveryAccountHasAWayIn ClosedAccountsStayShut IdentityStaysPut
CHECK_DEADLOCK FALSE
