---------------------------- MODULE RefreshTokens ----------------------------
(***************************************************************************)
(* Refresh tokens: issued at login, rotated on every use, all revoked when *)
(* a spent one is presented, revoked at logout and swept daily             *)
(* (token.service.ts, refresh-token-cleanup.job.ts).  A step is one        *)
(* database call; requests interleave between their calls and may die.     *)
(* Any token ever handed out may be presented at any time, again and by    *)
(* several requests at once: a client retries, a copy leaks.               *)
(* A definition that stands just above another and extends its name is a   *)
(* slip that definition must not make, for mutation runs.                  *)
(***************************************************************************)
EXTENDS Integers

CONSTANTS
    Tokens,     \* the random strings that may be drawn
    Users,
    Requests,   \* concurrent invocations of login and rotate
    NoToken,
    NoUser,
    Ttl,        \* REFRESH_TOKEN_TTL_DAYS, in ticks
    Grace,      \* how long the cleanup keeps a revoked token, in ticks
    MaxTime     \* bound on the clock

ASSUME ConstantsOK ==
    /\ NoToken \notin Tokens /\ NoUser \notin Users
    /\ Ttl \in Nat /\ Grace \in Nat /\ MaxTime \in Nat

VARIABLES
    now,
    token,      \* a row of refresh_tokens: "unused" before the insert, "gone" after the delete
    owner,      \* its userId
    expiresAt,
    revokedAt,  \* meaningful while the token is "revoked"
    deleted,    \* users soft-deleted, themselves or with their tenant
    at,         \* where a request stands
    presented,  \* the token it presented
    user,       \* the user it read
    \* History, read by the properties only:
    root,       \* the login a token descends from, named by the login's token
    caught,     \* tokens that existed when their family was revoked for reuse
    late        \* tokens minted for a user already deleted

rowVars == <<token, owner, expiresAt, revokedAt>>
reqVars == <<at, presented, user>>
history == <<root, caught, late>>
vars == <<now, rowVars, deleted, reqVars, history>>

TypeOK ==
    /\ now \in Nat
    /\ token \in [Tokens -> {"unused", "live", "revoked", "gone"}]
    /\ owner \in [Tokens -> Users \union {NoUser}]
    /\ expiresAt \in [Tokens -> Nat]
    /\ revokedAt \in [Tokens -> Nat]
    /\ deleted \in SUBSET Users
    /\ at \in [Requests -> {"idle", "find", "revokeAll", "claim", "mint"}]
    /\ presented \in [Requests -> Tokens \union {NoToken}]
    /\ user \in [Requests -> Users \union {NoUser}]
    /\ root \in [Tokens -> Tokens \union {NoToken}]
    /\ caught \in SUBSET Tokens
    /\ late \in SUBSET Tokens

Init ==
    /\ now = 0
    /\ token = [t \in Tokens |-> "unused"]
    /\ owner = [t \in Tokens |-> NoUser]
    /\ expiresAt = [t \in Tokens |-> 0]
    /\ revokedAt = [t \in Tokens |-> 0]
    /\ deleted = {}
    /\ at = [r \in Requests |-> "idle"]
    /\ presented = [r \in Requests |-> NoToken]
    /\ user = [r \in Requests |-> NoUser]
    /\ root = [t \in Tokens |-> NoToken]
    /\ caught = {}
    /\ late = {}

Exists(t) == token[t] \in {"live", "revoked"}

Goto(r, l) == at' = [at EXCEPT ![r] = l]

\* The request answers, or dies.
Leave(r) ==
    /\ Goto(r, "idle")
    /\ presented' = [presented EXCEPT ![r] = NoToken]
    /\ user' = [user EXCEPT ![r] = NoUser]

\* updateMany where revokedAt is null, over the rows of S.
RevokeLive(S) ==
    LET live == {t \in S : token[t] = "live"}
    IN  /\ token' = [t \in Tokens |-> IF t \in live THEN "revoked" ELSE token[t]]
        /\ revokedAt' = [t \in Tokens |-> IF t \in live THEN now ELSE revokedAt[t]]
        /\ UNCHANGED <<owner, expiresAt>>

-----------------------------------------------------------------------------
(* Requests *)

\* A login has read its account, undeleted at that point, and goes on to issue().
Login(r, u) ==
    /\ at[r] = "idle"
    /\ u \notin deleted
    /\ Goto(r, "mint")
    /\ user' = [user EXCEPT ![r] = u]
    /\ UNCHANGED <<now, rowVars, deleted, presented, history>>

\* A request with token t arrives.
Present(r, t) ==
    /\ at[r] = "idle"
    /\ token[t] # "unused"
    /\ Goto(r, "find")
    /\ presented' = [presented EXCEPT ![r] = t]
    /\ UNCHANGED <<now, rowVars, deleted, user, history>>

Valid(t) == Exists(t) /\ expiresAt[t] >= now

AcceptedAnyway(t) == TRUE
Accepted(t) == token[t] = "revoked" \/ owner[t] \notin deleted

\* findUnique and the checks on what it read.
Find(r) ==
    LET t == presented[r]
    IN  /\ at[r] = "find"
        /\ IF Valid(t) /\ Accepted(t)
           THEN /\ Goto(r, IF token[t] = "revoked" THEN "revokeAll" ELSE "claim")
                /\ user' = [user EXCEPT ![r] = owner[t]]
                /\ UNCHANGED presented
           ELSE Leave(r)
        /\ UNCHANGED <<now, rowVars, deleted, history>>

FamilyOfOne(r) == {presented[r]}
FamilyOf(r) == {t \in Tokens : owner[t] = user[r]}

\* revokeAllForUser, then 401.
RevokeAll(r) ==
    /\ at[r] = "revokeAll"
    /\ RevokeLive(FamilyOf(r))
    /\ Leave(r)
    /\ caught' = caught \union {t \in Tokens : owner[t] = user[r]}
    /\ UNCHANGED <<now, deleted, root, late>>

ClaimableAgain(t) == Exists(t)
Claimable(t) == token[t] = "live"

\* updateMany by id where revokedAt is null; count 0 answers 401.
Claim(r) ==
    /\ at[r] = "claim"
    /\ IF Claimable(presented[r])
       THEN /\ RevokeLive({presented[r]})
            /\ Goto(r, "mint")
            /\ UNCHANGED <<presented, user>>
       ELSE /\ Leave(r)
            /\ UNCHANGED rowVars
    /\ UNCHANGED <<now, deleted, history>>

Expiry == now + Ttl

\* issue(): a token never drawn before is stored for the user read earlier.
Mint(r, t) ==
    /\ at[r] = "mint"
    /\ token[t] = "unused"
    /\ token' = [token EXCEPT ![t] = "live"]
    /\ owner' = [owner EXCEPT ![t] = user[r]]
    /\ expiresAt' = [expiresAt EXCEPT ![t] = Expiry]
    /\ root' = [root EXCEPT ![t] = IF presented[r] = NoToken THEN t ELSE root[presented[r]]]
    /\ late' = IF user[r] \in deleted THEN late \union {t} ELSE late
    /\ Leave(r)
    /\ UNCHANGED <<now, revokedAt, deleted, caught>>

\* The process dies, or a database call throws.
Abort(r) ==
    /\ at[r] # "idle"
    /\ Leave(r)
    /\ UNCHANGED <<now, rowVars, deleted, history>>

-----------------------------------------------------------------------------
(* Logout, account deletion, the daily cleanup and time *)

Logout(t) ==
    /\ token[t] = "live"
    /\ RevokeLive({t})
    /\ UNCHANGED <<now, deleted, reqVars, history>>

SoftDelete(u) ==
    /\ u \notin deleted
    /\ deleted' = deleted \union {u}
    /\ UNCHANGED <<now, rowVars, reqVars, history>>

PurgeableAtOnce(t) ==
    Exists(t) /\ (expiresAt[t] < now \/ token[t] = "revoked")
Purgeable(t) ==
    /\ Exists(t)
    /\ \/ expiresAt[t] < now
       \/ token[t] = "revoked" /\ revokedAt[t] < now - Grace

PurgeStale ==
    LET old == {t \in Tokens : Purgeable(t)}
    IN  /\ old # {}
        /\ token' = [t \in Tokens |-> IF t \in old THEN "gone" ELSE token[t]]
        /\ UNCHANGED <<now, owner, expiresAt, revokedAt, deleted, reqVars, history>>

Tick ==
    /\ now < MaxTime
    /\ now' = now + 1
    /\ UNCHANGED <<rowVars, deleted, reqVars, history>>

RequestStep(r) ==
    \/ \E u \in Users : Login(r, u)
    \/ \E t \in Tokens : Present(r, t) \/ Mint(r, t)
    \/ Find(r) \/ RevokeAll(r) \/ Claim(r) \/ Abort(r)

Next ==
    \/ \E r \in Requests : RequestStep(r)
    \/ \E t \in Tokens : Logout(t)
    \/ \E u \in Users : SoftDelete(u)
    \/ PurgeStale
    \/ Tick

Spec == Init /\ [][Next]_vars

-----------------------------------------------------------------------------
(* What rotation promises *)

\* A rotation under way: its token is spent and its successor not stored yet.
Rotating(r) == at[r] = "mint" /\ presented[r] # NoToken

\* A session never forks: however often and by however many requests its tokens
\* are presented, a login has at most one live descendant or one about to be.
SessionNeverForks ==
    /\ \A s, t \in Tokens :
          token[s] = "live" /\ token[t] = "live" /\ root[s] = root[t] => s = t
    /\ \A r \in Requests, t \in Tokens :
          Rotating(r) /\ token[t] = "live" => root[t] # root[presented[r]]
    /\ \A q, r \in Requests :
          Rotating(q) /\ Rotating(r) /\ root[presented[q]] = root[presented[r]] => q = r

\* When a spent token is presented, every token its user had by then is dead for
\* good: none is live, and none is ever claimed for a rotation again.
CaughtFamilyIsDead ==
    [][/\ \A t \in caught : token[t] # "live"
       /\ \A r \in Requests : ~Rotating(r) /\ Rotating(r)' => presented[r] \notin caught]_vars

\* An account deleted under a login or a rotation may still be handed a token, and
\* can do nothing with it: no rotation is ever claimed with such a token.
LateTokensAreUseless ==
    \A r \in Requests : at[r] \in {"claim", "mint"} => presented[r] \notin late

\* Reuse is noticed: whatever logouts, rotations and cleanups came before, a request
\* that looks up a spent token within its grace goes on to revoke the user's tokens.
ReuseIsCaught ==
    [][\A r \in Requests :
          LET t == presented[r]
          IN  Find(r) /\ token[t] # "live" /\ now <= expiresAt[t] /\ now <= revokedAt[t] + Grace
                  => at'[r] = "revokeAll"]_vars

\* token.service.ts:48-49: "Presenting an already-revoked token means it leaked, so
\* we revoke the user's whole token family and force a re-login."
TheftForcesRelogin ==
    \A t \in Tokens : token[t] = "live" => \A s \in caught : root[s] # root[t]
=============================================================================
