----------------------------- MODULE LoginLockout -----------------------------
(***************************************************************************)
(* The lockout of one account: concurrent password logins, on any replica, *)
(* count failures, lock the account and lift the lock (AuthService.login,  *)
(* registerFailedLogin).  A step is one database call or the verification  *)
(* of the password; what a request knows of the account is what it read    *)
(* first.  The session itself is issued by RefreshTokens.                  *)
(* A definition that stands just above another and extends its name is a   *)
(* slip that definition must not make, for mutation runs.                  *)
(***************************************************************************)
EXTENDS Integers, FiniteSets

CONSTANTS
    Requests,       \* concurrent invocations of login for the account
    MaxAttempts,    \* LOGIN_MAX_ATTEMPTS
    LockFor,        \* LOGIN_LOCK_MINUTES, in ticks
    MaxLost,        \* bound on the locks lost to a crash
    MaxTime         \* bound on the clock

ASSUME ConstantsOK ==
    /\ IsFiniteSet(Requests)
    /\ MaxAttempts \in Nat \ {0} /\ LockFor \in Nat \ {0}
    /\ MaxLost \in Nat /\ MaxTime \in Nat

VARIABLES
    now,
    failed,         \* failedLoginAttempts
    lockedUntil,    \* 0 stands for null
    at,             \* where a request stands in login()
    dirty,          \* did the account it read have failures or a lock, even a past one?
    \* History, read by the properties only:
    guesses,        \* failures counted since the counter was last cleared
    overtaken,      \* has the account been locked since the request read it?
    lost            \* requests that died between their count and their lock

account == <<failed, lockedUntil>>
history == <<guesses, overtaken, lost>>
vars == <<now, account, at, dirty, history>>

TypeOK ==
    /\ now \in Nat
    /\ failed \in Nat
    /\ lockedUntil \in Nat
    /\ at \in [Requests -> {"idle", "verify", "count", "lock", "clear"}]
    /\ dirty \in [Requests -> BOOLEAN]
    /\ guesses \in Nat
    /\ overtaken \in [Requests -> BOOLEAN]
    /\ lost \in Nat

Init ==
    /\ now = 0
    /\ failed = 0
    /\ lockedUntil = 0
    /\ at = [r \in Requests |-> "idle"]
    /\ dirty = [r \in Requests |-> FALSE]
    /\ guesses = 0
    /\ overtaken = [r \in Requests |-> FALSE]
    /\ lost = 0

InForce == lockedUntil > now

Goto(r, l) == at' = [at EXCEPT ![r] = l]

-----------------------------------------------------------------------------

LetInAlways == TRUE
LetIn == ~InForce

\* findByEmail; a locked account answers 429, which changes nothing.
Read(r) ==
    /\ at[r] = "idle"
    /\ LetIn
    /\ Goto(r, "verify")
    /\ dirty' = [dirty EXCEPT ![r] = failed > 0 \/ lockedUntil # 0]
    /\ overtaken' = [overtaken EXCEPT ![r] = FALSE]
    /\ UNCHANGED <<now, account, guesses, lost>>

\* A wrong password, or an account without one.
Refuse(r) ==
    /\ at[r] = "verify"
    /\ Goto(r, "count")
    /\ UNCHANGED <<now, account, dirty, history>>

\* The right password: failures and lock are cleared if the request saw any.
Accept(r) ==
    /\ at[r] = "verify"
    /\ Goto(r, IF dirty[r] THEN "clear" ELSE "idle")
    /\ UNCHANGED <<now, account, dirty, history>>

LimitReachedLate(n) == n > MaxAttempts
LimitReached(n) == n >= MaxAttempts

\* The atomic increment of registerFailedLogin, and the test of what it returned.
Count(r) ==
    /\ at[r] = "count"
    /\ failed' = failed + 1
    /\ guesses' = guesses + 1
    /\ Goto(r, IF LimitReached(failed + 1) THEN "lock" ELSE "idle")
    /\ UNCHANGED <<now, lockedUntil, dirty, overtaken, lost>>

LockEnd == now + LockFor

Lock(r) ==
    /\ at[r] = "lock"
    /\ failed' = 0
    /\ lockedUntil' = LockEnd
    /\ guesses' = 0
    /\ overtaken' = [q \in Requests |-> TRUE]
    /\ Goto(r, "idle")
    /\ UNCHANGED <<now, dirty, lost>>

Clear(r) ==
    /\ at[r] = "clear"
    /\ failed' = 0
    /\ lockedUntil' = 0
    /\ guesses' = 0
    /\ Goto(r, "idle")
    /\ UNCHANGED <<now, dirty, overtaken, lost>>

\* The process dies or a database call throws.
Abort(r) ==
    /\ at[r] # "idle"
    /\ at[r] = "lock" => lost < MaxLost
    /\ lost' = IF at[r] = "lock" THEN lost + 1 ELSE lost
    /\ Goto(r, "idle")
    /\ UNCHANGED <<now, account, dirty, guesses, overtaken>>

Tick ==
    /\ now < MaxTime
    /\ now' = now + 1
    /\ UNCHANGED <<account, at, dirty, history>>

RequestStep(r) ==
    \/ Read(r) \/ Refuse(r) \/ Accept(r)
    \/ Count(r) \/ Lock(r) \/ Clear(r) \/ Abort(r)

Next == (\E r \in Requests : RequestStep(r)) \/ Tick

Spec == Init /\ [][Next]_vars

-----------------------------------------------------------------------------
(* What the lockout promises *)

\* A login that ends in a session on its next step.
Succeeds(r) == Clear(r) \/ (Accept(r) /\ ~dirty[r])

\* Every wrong password counts, however the requests overlap: an account takes
\* MaxAttempts - 1 of them, one more for each request about to lock it, and one
\* more for each that died just before it did.
GuessesAreBounded ==
    guesses < MaxAttempts + Cardinality({r \in Requests : at[r] = "lock"}) + lost

\* Under a lock in force nobody gets a session, or the lock lifted, but a login
\* that was let in before the account was locked.
NoSessionThroughLock ==
    [][\A r \in Requests : Succeeds(r) /\ InForce => overtaken[r]]_vars
=============================================================================
