------------------------------ MODULE Accounts ------------------------------
(***************************************************************************)
(* Accounts and the ways into them: registration, Google sign-in by        *)
(* identity or by email, password login, and soft deletion                 *)
(* (auth.service.ts, users.service.ts).  A step is one database call, or   *)
(* one transaction; requests interleave between their calls and may die.   *)
(* A Google identity keeps its id but may come with another email later.   *)
(* Counting failed passwords is in LoginLockout, what becomes of a session *)
(* in RefreshTokens.  Audit entries, which never fail their caller,        *)
(* password hashing and the displayName touch nothing of this state.       *)
(* A definition that stands just above another and extends its name is a   *)
(* slip that definition must not make, for mutation runs.                  *)
(***************************************************************************)
EXTENDS Integers

CONSTANTS
    Accounts,   \* user ids, each created with a tenant of its own
    Emails,     \* normalised
    Googles,    \* Google account ids, `sub`
    Requests,
    NoAccount,
    NoEmail,
    NoGoogle

ASSUME ConstantsOK ==
    /\ NoAccount \notin Accounts
    /\ NoEmail \notin Emails
    /\ NoGoogle \notin Googles

VARIABLES
    email,        \* of the user row, NoEmail while there is none
    password,     \* accounts with a PASSWORD login method
    google,       \* providerAccountId of the GOOGLE login method
    closed,       \* users with deletedAt set
    tenantClosed, \* accounts whose tenant has deletedAt set
    at,           \* where a request stands
    mail,         \* the email it came with
    ident,        \* the Google id it came with
    who,          \* the account it works on
    \* History, read by the properties only:
    before,       \* accounts already shut when the request began
    signedInto,   \* accounts a Google identity was given sessions of
    displaced     \* identities whose link was overwritten by another's

rowVars == <<email, password, google>>
shutVars == <<closed, tenantClosed>>
reqVars == <<at, mail, ident, who, before>>
history == <<signedInto, displaced>>
vars == <<rowVars, shutVars, reqVars, history>>

Places == {"idle", "byEmail", "create", "password", "tenantOfLinked",
           "tenantOfExisting", "tenantOfLogin", "link", "issue", "remove"}

TypeOK ==
    /\ email \in [Accounts -> Emails \union {NoEmail}]
    /\ password \in SUBSET Accounts
    /\ google \in [Accounts -> Googles \union {NoGoogle}]
    /\ closed \in SUBSET Accounts
    /\ tenantClosed \in SUBSET Accounts
    /\ at \in [Requests -> Places]
    /\ mail \in [Requests -> Emails \union {NoEmail}]
    /\ ident \in [Requests -> Googles \union {NoGoogle}]
    /\ who \in [Requests -> Accounts \union {NoAccount}]
    /\ before \in [Requests -> SUBSET Accounts]
    /\ signedInto \in [Googles -> SUBSET Accounts]
    /\ displaced \in SUBSET Googles

Init ==
    /\ email = [a \in Accounts |-> NoEmail]
    /\ password = {}
    /\ google = [a \in Accounts |-> NoGoogle]
    /\ closed = {}
    /\ tenantClosed = {}
    /\ at = [r \in Requests |-> "idle"]
    /\ mail = [r \in Requests |-> NoEmail]
    /\ ident = [r \in Requests |-> NoGoogle]
    /\ who = [r \in Requests |-> NoAccount]
    /\ before = [r \in Requests |-> {}]
    /\ signedInto = [g \in Googles |-> {}]
    /\ displaced = {}

Exists(a) == email[a] # NoEmail

\* findByEmail, soft-deleted rows included.
Holders(e) == {a \in Accounts : email[a] = e}

\* The request arrives with email e and identity g, and stands at l with account a.
Arrive(r, l, e, g, a) ==
    /\ at[r] = "idle"
    /\ at' = [at EXCEPT ![r] = l]
    /\ mail' = [mail EXCEPT ![r] = e]
    /\ ident' = [ident EXCEPT ![r] = g]
    /\ who' = [who EXCEPT ![r] = a]
    /\ before' = [before EXCEPT ![r] = closed \union tenantClosed]

\* It goes on to l with account a.
Proceed(r, l, a) ==
    /\ at' = [at EXCEPT ![r] = l]
    /\ who' = [who EXCEPT ![r] = a]
    /\ UNCHANGED <<mail, ident, before>>

\* It answers, with or without a session, or dies.
Leave(r) ==
    /\ at' = [at EXCEPT ![r] = "idle"]
    /\ mail' = [mail EXCEPT ![r] = NoEmail]
    /\ ident' = [ident EXCEPT ![r] = NoGoogle]
    /\ who' = [who EXCEPT ![r] = NoAccount]
    /\ before' = [before EXCEPT ![r] = {}]

Abort(r) ==
    /\ at[r] # "idle"
    /\ Leave(r)
    /\ UNCHANGED <<rowVars, shutVars, history>>

-----------------------------------------------------------------------------
(* Ways in *)

AdmitsAnyone(a) == TRUE
Admits(a) == a \notin closed

\* register() with an email nobody holds; a taken one answers 409 at once.
Register(r, e) ==
    /\ Holders(e) = {}
    /\ Arrive(r, "create", e, NoGoogle, NoAccount)
    /\ UNCHANGED <<rowVars, shutVars, history>>

\* login() with an email that an undeleted account holds.
Login(r, e) ==
    /\ \E a \in Holders(e) : Admits(a) /\ Arrive(r, "password", e, NoGoogle, a)
    /\ UNCHANGED <<rowVars, shutVars, history>>

\* The login method is read and the password verified.
VerifyPassword(r) ==
    /\ at[r] = "password"
    /\ who[r] \in password
    /\ Proceed(r, "tenantOfLogin", who[r])
    /\ UNCHANGED <<rowVars, shutVars, history>>

RecognisedByEmail(g, e) == Holders(e)
Recognised(g, e) == {a \in Accounts : google[a] = g}

\* A verified Google profile whose identity is linked.
GoogleLinked(r, g, e) ==
    /\ \E a \in Recognised(g, e) :
          Admits(a) /\ Arrive(r, "tenantOfLinked", e, g, a)
    /\ UNCHANGED <<rowVars, shutVars, history>>

\* A verified Google profile whose identity is not.
GoogleUnlinked(r, g, e) ==
    /\ Recognised(g, e) = {}
    /\ Arrive(r, "byEmail", e, g, NoAccount)
    /\ UNCHANGED <<rowVars, shutVars, history>>

WhenNobodyHolds == "create"

\* The email decides: nobody's is registered, a deleted account's is refused.
ByEmail(r) ==
    /\ at[r] = "byEmail"
    /\ \/ Holders(mail[r]) = {} /\ Proceed(r, WhenNobodyHolds, NoAccount)
       \/ \E a \in Holders(mail[r]) : Admits(a) /\ Proceed(r, "tenantOfExisting", a)
       \/ \E a \in Holders(mail[r]) : ~Admits(a) /\ Leave(r)
    /\ UNCHANGED <<rowVars, shutVars, history>>

\* The unique indexes: email, and (provider, providerAccountId).
CreatableAsRead(r) == TRUE
Creatable(r) ==
    /\ Holders(mail[r]) = {}
    /\ \A a \in Accounts : google[a] = ident[r] => ident[r] = NoGoogle

GetsNoPassword(r) == FALSE
GetsPassword(r) == ident[r] = NoGoogle

\* The transaction: tenant, user and login method.
Create(r, a) ==
    /\ at[r] = "create"
    /\ ~Exists(a)
    /\ Creatable(r)
    /\ email' = [email EXCEPT ![a] = mail[r]]
    /\ password' = IF GetsPassword(r) THEN password \union {a} ELSE password
    /\ google' = [google EXCEPT ![a] = ident[r]]
    /\ Proceed(r, "issue", a)
    /\ UNCHANGED <<shutVars, history>>

\* A unique index refuses: P2002.
CreateRefused(r) ==
    /\ at[r] = "create"
    /\ ~Creatable(r)
    /\ Leave(r)
    /\ UNCHANGED <<rowVars, shutVars, history>>

AfterTenant(l) == IF l = "tenantOfExisting" THEN "link" ELSE "issue"

\* assertTenantActive
TenantActive(r) ==
    /\ at[r] \in {"tenantOfLinked", "tenantOfExisting", "tenantOfLogin"}
    /\ who[r] \notin tenantClosed
    /\ Proceed(r, AfterTenant(at[r]), who[r])
    /\ UNCHANGED <<rowVars, shutVars, history>>

Linkable(r) == \A a \in Accounts : google[a] = ident[r] => a = who[r]

\* The upsert by (userId, GOOGLE): whatever identity was linked gives way.
Link(r) ==
    /\ at[r] = "link"
    /\ Linkable(r)
    /\ google' = [google EXCEPT ![who[r]] = ident[r]]
    /\ displaced' = displaced \union ({google[who[r]]} \ {ident[r], NoGoogle})
    /\ Proceed(r, "issue", who[r])
    /\ UNCHANGED <<email, password, shutVars, signedInto>>

\* The identity was linked elsewhere meanwhile: P2002.
LinkRefused(r) ==
    /\ at[r] = "link"
    /\ ~Linkable(r)
    /\ Leave(r)
    /\ UNCHANGED <<rowVars, shutVars, history>>

\* tokens.issue
Issue(r) ==
    /\ at[r] = "issue"
    /\ signedInto' = [g \in Googles |-> IF g = ident[r]
                                        THEN signedInto[g] \union {who[r]}
                                        ELSE signedInto[g]]
    /\ Leave(r)
    /\ UNCHANGED <<rowVars, shutVars, displaced>>

-----------------------------------------------------------------------------
(* The caller's own account, by an access token issued earlier *)

\* getActiveById; the write that follows goes by id alone.
Own(r, a) ==
    /\ Exists(a) /\ Admits(a)
    /\ Arrive(r, "remove", NoEmail, NoGoogle, a)
    /\ UNCHANGED <<rowVars, shutVars, history>>

SoftDelete(r) ==
    /\ at[r] = "remove"
    /\ closed' = closed \union {who[r]}
    /\ Leave(r)
    /\ UNCHANGED <<rowVars, tenantClosed, history>>

\* An operator deactivates a workspace.
CloseTenant(a) ==
    /\ Exists(a)
    /\ tenantClosed' = tenantClosed \union {a}
    /\ UNCHANGED <<rowVars, closed, reqVars, history>>

-----------------------------------------------------------------------------

Step(r) ==
    \/ \E e \in Emails : Register(r, e) \/ Login(r, e)
    \/ \E g \in Googles, e \in Emails : GoogleLinked(r, g, e) \/ GoogleUnlinked(r, g, e)
    \/ \E a \in Accounts : Create(r, a) \/ Own(r, a)
    \/ VerifyPassword(r) \/ ByEmail(r) \/ CreateRefused(r) \/ TenantActive(r)
    \/ Link(r) \/ LinkRefused(r) \/ Issue(r)
    \/ SoftDelete(r) \/ Abort(r)

Next == (\E r \in Requests : Step(r)) \/ (\E a \in Accounts : CloseTenant(a))

Spec == Init /\ [][Next]_vars

-----------------------------------------------------------------------------
(* Properties *)

\* Whatever sign-ups overlap, an email and a Google identity each belong to at
\* most one account.
OneAccountEach ==
    \A a, b \in Accounts :
        a # b => /\ Exists(a) => email[a] # email[b]
                 /\ google[a] # NoGoogle => google[a] # google[b]

\* Nobody is left with an account that no login method opens, wherever a
\* registration or a link stopped ("can't leave a half-registered account
\* behind").
EveryAccountHasAWayIn ==
    \A a \in Accounts : Exists(a) <=> (a \in password \/ google[a] # NoGoogle)

\* A request that began after an account was deleted, or its workspace
\* deactivated, neither changes the account's login methods nor gets a session
\* of it, by any way in.
ClosedAccountsStayShut ==
    \A r \in Requests : at[r] \in {"link", "issue"} => who[r] \notin before[r]

\* A Google identity signs into one account for good, whatever email it comes
\* with, unless another identity's link took its place.
IdentityStaysPut ==
    \A g \in Googles \ displaced : \A a \in signedInto[g] : google[a] = g
=============================================================================
