--------------------------- MODULE Accounts_proofs ---------------------------
(***************************************************************************)
(* Accounts: an email and an identity have one account, every account has  *)
(* a way in, a closed one admits nobody, and an identity stays where it    *)
(* signed in - for any number of accounts, emails, identities, requests.   *)
(***************************************************************************)
EXTENDS Accounts, TLAPS

-----------------------------------------------------------------------------
(* The inductive invariant *)

\* What a request carries where it stands.
Carries ==
    \A r \in Requests :
        /\ at[r] \in {"byEmail", "create"} => mail[r] \in Emails
        /\ at[r] \in {"byEmail", "tenantOfLinked", "tenantOfExisting", "link"}
              => ident[r] \in Googles
        /\ at[r] \in {"password", "tenantOfLogin"} => ident[r] = NoGoogle
        /\ at[r] \notin {"idle", "byEmail", "create"}
              => who[r] \in Accounts /\ Exists(who[r])

\* Before the tenant check, an account shut when the request began is one whose
\* tenant was; after it, there is none.
ShutApart ==
    /\ \A a \in closed \union tenantClosed : Exists(a)
    /\ \A r \in Requests :
          /\ before[r] \subseteq closed \union tenantClosed
          /\ at[r] \in {"password", "tenantOfLogin", "tenantOfLinked", "tenantOfExisting"}
                => (who[r] \in before[r] => who[r] \in tenantClosed)

\* A request that came with a linked identity stands with the identity's account.
LinkHeld ==
    \A r \in Requests :
        (at[r] \in {"tenantOfLinked", "issue"} /\ ident[r] \in Googles \ displaced)
            => google[who[r]] = ident[r]

IInv == /\ TypeOK
        /\ OneAccountEach
        /\ EveryAccountHasAWayIn
        /\ Carries
        /\ ShutApart
        /\ ClosedAccountsStayShut
        /\ LinkHeld
        /\ IdentityStaysPut

LEMMA InitIInv == Init => IInv
BY ConstantsOK DEF Init, IInv, TypeOK, OneAccountEach, EveryAccountHasAWayIn, Exists,
    Carries, ShutApart, ClosedAccountsStayShut, LinkHeld, IdentityStaysPut, Places

-----------------------------------------------------------------------------
(* Steps *)

\* The type invariant needs an account behind every request that writes to one.
LEMMA TypePreserved == TypeOK /\ Carries /\ [Next]_vars => TypeOK'
<1> SUFFICES ASSUME TypeOK, Carries, [Next]_vars PROVE TypeOK'
  OBVIOUS
<1> USE ConstantsOK DEF TypeOK, Carries, Places, rowVars, shutVars, reqVars, history
<1>1. ASSUME NEW r \in Requests, NEW e \in Emails, Register(r, e) PROVE TypeOK'
  BY <1>1 DEF Register, Arrive
<1>2. ASSUME NEW r \in Requests, NEW e \in Emails, Login(r, e) PROVE TypeOK'
  BY <1>2 DEF Login, Arrive, Holders
<1>3. ASSUME NEW r \in Requests, NEW g \in Googles, NEW e \in Emails, GoogleLinked(r, g, e) PROVE TypeOK'
  BY <1>3 DEF GoogleLinked, Arrive, Recognised
<1>4. ASSUME NEW r \in Requests, NEW g \in Googles, NEW e \in Emails, GoogleUnlinked(r, g, e) PROVE TypeOK'
  BY <1>4 DEF GoogleUnlinked, Arrive
<1>5. ASSUME NEW r \in Requests, NEW a \in Accounts, Create(r, a) PROVE TypeOK'
  BY <1>5 DEF Create, Proceed, GetsPassword
<1>6. ASSUME NEW r \in Requests, NEW a \in Accounts, Own(r, a) PROVE TypeOK'
  BY <1>6 DEF Own, Arrive
<1>7. ASSUME NEW r \in Requests, VerifyPassword(r) PROVE TypeOK'
  BY <1>7 DEF VerifyPassword, Proceed
<1>8. ASSUME NEW r \in Requests, ByEmail(r) PROVE TypeOK'
  BY <1>8 DEF ByEmail, WhenNobodyHolds, Proceed, Leave, Holders
<1>9. ASSUME NEW r \in Requests, CreateRefused(r) PROVE TypeOK'
  BY <1>9 DEF CreateRefused, Leave
<1>10. ASSUME NEW r \in Requests, TenantActive(r) PROVE TypeOK'
  BY <1>10 DEF TenantActive, AfterTenant, Proceed
<1>11. ASSUME NEW r \in Requests, Link(r) PROVE TypeOK'
  BY <1>11 DEF Link, Proceed
<1>12. ASSUME NEW r \in Requests, LinkRefused(r) PROVE TypeOK'
  BY <1>12 DEF LinkRefused, Leave
<1>13. ASSUME NEW r \in Requests, Issue(r) PROVE TypeOK'
  BY <1>13 DEF Issue, Leave
<1>14. ASSUME NEW r \in Requests, SoftDelete(r) PROVE TypeOK'
  BY <1>14 DEF SoftDelete, Leave
<1>15. ASSUME NEW r \in Requests, Abort(r) PROVE TypeOK'
  BY <1>15 DEF Abort, Leave
<1>16. ASSUME NEW a \in Accounts, CloseTenant(a) PROVE TypeOK'
  BY <1>16 DEF CloseTenant
<1>17. CASE UNCHANGED vars
  BY <1>17 DEF vars
<1>. QED
  BY <1>1, <1>2, <1>3, <1>4, <1>5, <1>6, <1>7, <1>8, <1>9, <1>10, <1>11, <1>12, <1>13, <1>14, <1>15, <1>16, <1>17 DEF Next, Step

LEMMA InvPreserved == IInv /\ [Next]_vars => IInv'
<1> SUFFICES ASSUME IInv, [Next]_vars PROVE IInv'
  OBVIOUS
<1>0. TypeOK'
  BY TypePreserved DEF IInv
<1> USE <1>0, ConstantsOK DEF IInv, TypeOK, Places, rowVars, shutVars, reqVars, history,
      OneAccountEach, EveryAccountHasAWayIn, Exists, Carries, ShutApart,
      ClosedAccountsStayShut, LinkHeld, IdentityStaysPut, Holders, Recognised, Admits
<1>1. ASSUME NEW r \in Requests, NEW e \in Emails, Register(r, e) PROVE IInv'
  BY <1>1 DEF Register, Arrive
<1>2. ASSUME NEW r \in Requests, NEW e \in Emails, Login(r, e) PROVE IInv'
  BY <1>2 DEF Login, Arrive, Holders
<1>3. ASSUME NEW r \in Requests, NEW g \in Googles, NEW e \in Emails, GoogleLinked(r, g, e) PROVE IInv'
  BY <1>3 DEF GoogleLinked, Arrive, Recognised
<1>4. ASSUME NEW r \in Requests, NEW g \in Googles, NEW e \in Emails, GoogleUnlinked(r, g, e) PROVE IInv'
  BY <1>4 DEF GoogleUnlinked, Arrive
<1>5. ASSUME NEW r \in Requests, NEW a \in Accounts, Create(r, a) PROVE IInv'
  <2>1. OneAccountEach'
    BY <1>5 DEF Create, Creatable, Proceed, GetsPassword
  <2>2. EveryAccountHasAWayIn'
    BY <1>5 DEF Create, Creatable, Proceed, GetsPassword
  <2>3. Carries'
    BY <1>5 DEF Create, Creatable, Proceed, GetsPassword
  <2>4. ShutApart'
    BY <1>5 DEF Create, Creatable, Proceed, GetsPassword
  <2>5. ClosedAccountsStayShut'
    BY <1>5 DEF Create, Creatable, Proceed, GetsPassword
  <2>6. LinkHeld'
    BY <1>5 DEF Create, Creatable, Proceed, GetsPassword
  <2>7. IdentityStaysPut'
    BY <1>5 DEF Create, Creatable, Proceed, GetsPassword
  <2>. QED  BY <2>1, <2>2, <2>3, <2>4, <2>5, <2>6, <2>7
<1>6. ASSUME NEW r \in Requests, NEW a \in Accounts, Own(r, a) PROVE IInv'
  BY <1>6 DEF Own, Arrive
<1>7. ASSUME NEW r \in Requests, VerifyPassword(r) PROVE IInv'
  BY <1>7 DEF VerifyPassword, Proceed
<1>8. ASSUME NEW r \in Requests, ByEmail(r) PROVE IInv'
  BY <1>8 DEF ByEmail, WhenNobodyHolds, Proceed, Leave, Holders
<1>9. ASSUME NEW r \in Requests, CreateRefused(r) PROVE IInv'
  BY <1>9 DEF CreateRefused, Leave
<1>10. ASSUME NEW r \in Requests, TenantActive(r) PROVE IInv'
  BY <1>10 DEF TenantActive, AfterTenant, Proceed
<1>11. ASSUME NEW r \in Requests, Link(r) PROVE IInv'
  <2>1. OneAccountEach'
    BY <1>11 DEF Link, Linkable, Proceed
  <2>2. EveryAccountHasAWayIn'
    BY <1>11 DEF Link, Linkable, Proceed
  <2>3. Carries'
    BY <1>11 DEF Link, Linkable, Proceed
  <2>4. ShutApart'
    BY <1>11 DEF Link, Linkable, Proceed
  <2>5. ClosedAccountsStayShut'
    BY <1>11 DEF Link, Linkable, Proceed
  <2>6. LinkHeld'
    BY <1>11 DEF Link, Linkable, Proceed
  <2>7. IdentityStaysPut'
    BY <1>11 DEF Link, Linkable, Proceed
  <2>. QED  BY <2>1, <2>2, <2>3, <2>4, <2>5, <2>6, <2>7
<1>12. ASSUME NEW r \in Requests, LinkRefused(r) PROVE IInv'
  BY <1>12 DEF LinkRefused, Leave
<1>13. ASSUME NEW r \in Requests, Issue(r) PROVE IInv'
  BY <1>13 DEF Issue, Leave
<1>14. ASSUME NEW r \in Requests, SoftDelete(r) PROVE IInv'
  BY <1>14 DEF SoftDelete, Leave
<1>15. ASSUME NEW r \in Requests, Abort(r) PROVE IInv'
  BY <1>15 DEF Abort, Leave
<1>16. ASSUME NEW a \in Accounts, CloseTenant(a) PROVE IInv'
  BY <1>16 DEF CloseTenant
<1>17. CASE UNCHANGED vars
  BY <1>17 DEF vars
<1>. QED
  BY <1>1, <1>2, <1>3, <1>4, <1>5, <1>6, <1>7, <1>8, <1>9, <1>10, <1>11, <1>12, <1>13, <1>14, <1>15, <1>16, <1>17 DEF Next, Step
-----------------------------------------------------------------------------
(* Theorems *)

LEMMA Invariance == Spec => []IInv
BY InitIInv, InvPreserved, PTL DEF Spec

\* Every variable stays in its range.
THEOREM TypeCorrect == Spec => []TypeOK
BY Invariance, PTL DEF IInv

\* An email, and a Google identity, belong to at most one account.
THEOREM OneAccount == Spec => []OneAccountEach
BY Invariance, PTL DEF IInv

\* No account is ever without a login method, and no method without its account.
THEOREM AlwaysAWayIn == Spec => []EveryAccountHasAWayIn
BY Invariance, PTL DEF IInv

\* A request that began after its account was closed is never about to link an
\* identity to it or to issue a session of it.
THEOREM ClosedStayShut == Spec => []ClosedAccountsStayShut
BY Invariance, PTL DEF IInv

\* An identity that no other displaced has signed into one account only.
THEOREM IdentitiesStayPut == Spec => []IdentityStaysPut
BY Invariance, PTL DEF IInv
==============================================================================
