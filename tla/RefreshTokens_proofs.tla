------------------------ MODULE RefreshTokens_proofs ------------------------
(***************************************************************************)
(* What RefreshTokens promises, proved for any tokens, users, requests and *)
(* durations, and with no bound on the clock but MaxTime.                  *)
(***************************************************************************)
EXTENDS RefreshTokens, TLAPS

(***************************************************************************)
(* The inductive invariant.  A token is one session's for good: its root   *)
(* is a token drawn before, so a fresh login starts a session of its own,  *)
(* and a claimed token hands the session on to exactly one successor.      *)
(***************************************************************************)

Drawn(t) == token[t] # "unused"

\* A rotation under way holds the token it was given.
PresentedInv ==
    \A r \in Requests :
        at[r] \in {"find", "revokeAll", "claim"} => presented[r] \in Tokens

TypeInv == TypeOK /\ PresentedInv

\* What else a request holds at each point.
RequestInv ==
    \A r \in Requests :
        /\ at[r] = "idle" => presented[r] = NoToken
        /\ at[r] \in {"revokeAll", "claim", "mint"} => user[r] \in Users
        /\ presented[r] \in Tokens => Drawn(presented[r])

\* A drawn token has an owner and a session.
DrawnInv ==
    \A t \in Tokens :
        IF Drawn(t) THEN owner[t] \in Users /\ root[t] \in Tokens /\ Drawn(root[t])
                    ELSE owner[t] = NoUser

CaughtInv == \A t \in caught : Drawn(t) /\ token[t] # "live"

LateInv ==
    /\ \A t \in late : Drawn(t) /\ owner[t] \in deleted
    /\ LateTokensAreUseless

\* The cleanup forgets only what nobody needs to recognise.
GoneInv ==
    \A t \in Tokens :
        token[t] = "gone" => expiresAt[t] < now \/ revokedAt[t] + Grace < now

IInv == RequestInv /\ DrawnInv /\ SessionNeverForks /\ CaughtInv /\ LateInv /\ GoneInv

-----------------------------------------------------------------------------
(* Types *)

USE ConstantsOK DEF Exists, Valid, Accepted, Claimable, Expiry, Goto

LEMMA InitTyped == Init => TypeInv
BY DEF Init, TypeInv, TypeOK, PresentedInv

\* A write that revokes some live rows keeps the types of the rows.
LEMMA RevokeLiveTyped ==
    ASSUME TypeOK, NEW S \in SUBSET Tokens, RevokeLive(S)
    PROVE  /\ token' \in [Tokens -> {"unused", "live", "revoked", "gone"}]
           /\ revokedAt' \in [Tokens -> Nat]
           /\ owner' = owner /\ expiresAt' = expiresAt
BY DEF TypeOK, RevokeLive

LEMMA TypePreserved == TypeInv /\ [Next]_vars => TypeInv'
<1> SUFFICES ASSUME TypeInv, [Next]_vars PROVE TypeInv'
  OBVIOUS
<1> USE DEF TypeInv, TypeOK, PresentedInv, rowVars, reqVars, history
<1>1. ASSUME NEW r \in Requests, NEW u \in Users, Login(r, u) PROVE TypeInv'
  BY <1>1 DEF Login
<1>2. ASSUME NEW r \in Requests, NEW t \in Tokens, Present(r, t) PROVE TypeInv'
  BY <1>2 DEF Present
<1>3. ASSUME NEW r \in Requests, NEW t \in Tokens, Mint(r, t) PROVE TypeInv'
  <2>1. now + Ttl \in Nat
    OBVIOUS
  <2>2. root' \in [Tokens -> Tokens \union {NoToken}]
    BY <1>3 DEF Mint
  <2>3. late' \in SUBSET Tokens
    BY <1>3 DEF Mint
  <2>. QED  BY <1>3, <2>1, <2>2, <2>3 DEF Mint, Leave
<1>4. ASSUME NEW r \in Requests, Find(r) PROVE TypeInv'
  <2>1. presented[r] \in Tokens /\ owner[presented[r]] \in Users \union {NoUser}
    BY <1>4 DEF Find
  <2>. QED  BY <1>4, <2>1 DEF Find, Leave
<1>5. ASSUME NEW r \in Requests, RevokeAll(r) PROVE TypeInv'
  <2>1. FamilyOf(r) \in SUBSET Tokens
    BY DEF FamilyOf
  <2>2. RevokeLive(FamilyOf(r))
    BY <1>5 DEF RevokeAll
  <2>. QED  BY <1>5, <2>1, <2>2, RevokeLiveTyped DEF RevokeAll, Leave
<1>6. ASSUME NEW r \in Requests, Claim(r) PROVE TypeInv'
  <2>1. CASE token[presented[r]] = "live"
    <3>1. {presented[r]} \in SUBSET Tokens /\ RevokeLive({presented[r]})
      BY <1>6, <2>1 DEF Claim
    <3>. QED  BY <1>6, <2>1, <3>1, RevokeLiveTyped DEF Claim
  <2>2. CASE token[presented[r]] # "live"
    BY <1>6, <2>2 DEF Claim, Leave
  <2>. QED  BY <2>1, <2>2
<1>7. ASSUME NEW r \in Requests, Abort(r) PROVE TypeInv'
  BY <1>7 DEF Abort, Leave
<1>8. ASSUME NEW t \in Tokens, Logout(t) PROVE TypeInv'
  BY <1>8 DEF Logout, RevokeLive
<1>9. ASSUME NEW u \in Users, SoftDelete(u) PROVE TypeInv'
  BY <1>9 DEF SoftDelete
<1>10. CASE PurgeStale
  BY <1>10 DEF PurgeStale
<1>11. CASE Tick
  BY <1>11 DEF Tick
<1>12. CASE UNCHANGED vars
  BY <1>12 DEF vars
<1>. QED
  BY <1>1, <1>2, <1>3, <1>4, <1>5, <1>6, <1>7, <1>8, <1>9, <1>10, <1>11, <1>12
  DEF Next, RequestStep

LEMMA AlwaysTyped == Spec => []TypeInv
<1>. QED  BY InitTyped, TypePreserved, PTL DEF Spec

\* Every variable stays in its range.
THEOREM TypeCorrect == Spec => []TypeOK
<1>1. TypeInv => TypeOK
  BY DEF TypeInv
<1>. QED  BY AlwaysTyped, <1>1, PTL

-----------------------------------------------------------------------------
(* The invariant is inductive *)

LEMMA InitIInv == Init => IInv
BY DEF Init, IInv, RequestInv, DrawnInv, SessionNeverForks, Rotating, CaughtInv,
       LateInv, LateTokensAreUseless, GoneInv, Drawn

\* What a step of a request that touches no row must leave as it was.
LEMMA NoRowWritten ==
    ASSUME IInv, UNCHANGED <<rowVars, root, caught, late>>,
           now' = now \/ now' = now + 1, deleted \subseteq deleted', TypeInv, TypeInv'
    PROVE  DrawnInv' /\ CaughtInv' /\ (\A t \in late : Drawn(t) /\ owner[t] \in deleted)' /\ GoneInv'
<1>1. DrawnInv' /\ CaughtInv'
  BY DEF IInv, rowVars, DrawnInv, CaughtInv, Drawn
<1>2. (\A t \in late : Drawn(t) /\ owner[t] \in deleted)'
  BY DEF IInv, rowVars, LateInv, Drawn
<1>3. GoneInv'
  BY DEF IInv, rowVars, GoneInv, TypeInv, TypeOK
<1>. QED  BY <1>1, <1>2, <1>3

\* A write that revokes rows never hands a session out again.
LEMMA RevokeLiveKeeps ==
    ASSUME TypeInv, IInv, NEW S \in SUBSET Tokens, RevokeLive(S),
           UNCHANGED <<root, now>>
    PROVE  /\ \A t \in Tokens : token'[t] = "live" => token[t] = "live" /\ t \notin S
           /\ \A t \in Tokens : Drawn(t)' = Drawn(t)
           /\ DrawnInv' /\ GoneInv'
<1> USE DEF TypeInv, TypeOK
<1>1. /\ \A t \in Tokens : token'[t] = "live" => token[t] = "live" /\ t \notin S
      /\ \A t \in Tokens : Drawn(t)' = Drawn(t)
  BY DEF RevokeLive, Drawn
<1>2. DrawnInv'
  BY <1>1 DEF IInv, DrawnInv, RevokeLive
<1>3. GoneInv'
  BY DEF IInv, GoneInv, RevokeLive
<1>. QED  BY <1>1, <1>2, <1>3

LEMMA IInvPreserved == TypeInv /\ TypeInv' /\ IInv /\ [Next]_vars => IInv'
<1> SUFFICES ASSUME TypeInv, TypeInv', IInv, [Next]_vars PROVE IInv'
  OBVIOUS
<1> USE DEF TypeInv, TypeOK, PresentedInv, IInv
<1>1. ASSUME NEW r \in Requests, NEW u \in Users, Login(r, u) PROVE IInv'
  <2> USE <1>1 DEF Login, rowVars, history
  <2>1. RequestInv'
    BY DEF RequestInv, Drawn
  <2>2. SessionNeverForks'
    BY DEF SessionNeverForks, Rotating, RequestInv
  <2>3. LateTokensAreUseless'
    BY DEF LateInv, LateTokensAreUseless, RequestInv
  <2>. QED  BY <2>1, <2>2, <2>3, NoRowWritten DEF LateInv
<1>2. ASSUME NEW r \in Requests, NEW t \in Tokens, Present(r, t) PROVE IInv'
  <2> USE <1>2 DEF Present, rowVars, history
  <2>1. RequestInv'
    BY DEF RequestInv, Drawn
  <2>2. SessionNeverForks'
    BY DEF SessionNeverForks, Rotating
  <2>3. LateTokensAreUseless'
    BY DEF LateInv, LateTokensAreUseless
  <2>. QED  BY <2>1, <2>2, <2>3, NoRowWritten DEF LateInv
<1>3. ASSUME NEW r \in Requests, Find(r) PROVE IInv'
  <2> USE <1>3 DEF Find, Leave, rowVars, history
  <2>1. presented[r] \in Tokens /\ Drawn(presented[r])
    BY DEF RequestInv
  <2>2. owner[presented[r]] \in Users
    BY <2>1 DEF DrawnInv
  <2>3. RequestInv'
    BY <2>1, <2>2 DEF RequestInv, Drawn
  <2>4. SessionNeverForks'
    BY DEF SessionNeverForks, Rotating
  <2>5. LateTokensAreUseless'
    BY <2>1 DEF LateInv, LateTokensAreUseless
  <2>. QED  BY <2>3, <2>4, <2>5, NoRowWritten DEF LateInv
<1>4. ASSUME NEW r \in Requests, RevokeAll(r) PROVE IInv'
  <2> USE <1>4 DEF RevokeAll, Leave
  <2>1. FamilyOf(r) \in SUBSET Tokens
    BY DEF FamilyOf
  <2>2. /\ \A t \in Tokens : token'[t] = "live" => token[t] = "live" /\ t \notin FamilyOf(r)
        /\ \A t \in Tokens : Drawn(t)' = Drawn(t)
        /\ DrawnInv' /\ GoneInv'
    BY <2>1, RevokeLiveKeeps
  <2>3. RequestInv'
    BY <2>2 DEF RequestInv
  <2>4. SessionNeverForks'
    BY <2>2 DEF SessionNeverForks, Rotating
  <2>5. CaughtInv'
    <3>1. \A t \in FamilyOf(r) : Drawn(t)
      BY DEF FamilyOf, DrawnInv, RequestInv
    <3>. QED  BY <2>2, <3>1 DEF CaughtInv, FamilyOf
  <2>6. LateInv'
    BY <2>2 DEF LateInv, LateTokensAreUseless, RevokeLive
  <2>. QED  BY <2>2, <2>3, <2>4, <2>5, <2>6
<1>5. ASSUME NEW r \in Requests, Claim(r) PROVE IInv'
  <2> USE <1>5 DEF Claim, history
  <2>1. CASE token[presented[r]] = "live"
    <3> DEFINE p == presented[r]
    <3>1. p \in Tokens /\ RevokeLive({p}) /\ at' = [at EXCEPT ![r] = "mint"]
      BY <2>1
    <3>2. /\ \A t \in Tokens : token'[t] = "live" => token[t] = "live" /\ t # p
          /\ \A t \in Tokens : Drawn(t)' = Drawn(t)
          /\ DrawnInv' /\ GoneInv'
      BY <3>1, RevokeLiveKeeps
    <3>3. RequestInv'
      BY <2>1, <3>1, <3>2 DEF RequestInv
    <3>4. SessionNeverForks'
      <4>1. \A t \in Tokens : token'[t] = "live" => root[t] # root[p]
        BY <2>1, <3>1, <3>2 DEF SessionNeverForks
      <4>2. \A q \in Requests : Rotating(q) => root[presented[q]] # root[p]
        BY <2>1, <3>1 DEF SessionNeverForks
      <4>3. \A q \in Requests : Rotating(q)' => q = r \/ Rotating(q)
        BY <2>1, <3>1 DEF Rotating
      <4>. QED  BY <2>1, <3>2, <4>1, <4>2, <4>3 DEF SessionNeverForks
    <3>5. CaughtInv'
      BY <3>2 DEF CaughtInv
    <3>6. LateInv'
      BY <2>1, <3>1, <3>2 DEF LateInv, LateTokensAreUseless, RevokeLive
    <3>. QED  BY <3>2, <3>3, <3>4, <3>5, <3>6
  <2>2. CASE token[presented[r]] # "live"
    <3> USE <2>2 DEF Leave, rowVars
    <3>1. RequestInv'
      BY DEF RequestInv, Drawn
    <3>2. SessionNeverForks'
      BY DEF SessionNeverForks, Rotating
    <3>3. LateTokensAreUseless'
      BY DEF LateInv, LateTokensAreUseless
    <3>. QED  BY <3>1, <3>2, <3>3, NoRowWritten DEF LateInv
  <2>. QED  BY <2>1, <2>2
<1>6. ASSUME NEW r \in Requests, NEW t \in Tokens, Mint(r, t) PROVE IInv'
  <2> USE <1>6 DEF Mint, Leave
  <2>1. /\ ~Drawn(t)
        /\ \A x \in Tokens : Drawn(x)' <=> Drawn(x) \/ x = t
        /\ \A x \in Tokens : x # t => root'[x] = root[x]
    BY DEF Drawn
  <2>2. user[r] \in Users
    BY DEF RequestInv
  <2>3. RequestInv'
    BY <2>1 DEF RequestInv
  <2>4. presented[r] \in Tokens => Drawn(presented[r]) /\ presented[r] # t
    BY <2>1 DEF RequestInv
  <2>5. DrawnInv'
    <3>1. owner'[t] = user[r]
      OBVIOUS
    <3>2. root'[t] \in Tokens /\ token'[root'[t]] # "unused"
      <4>1. CASE presented[r] = NoToken
        BY <4>1
      <4>2. CASE presented[r] # NoToken
        <5>1. root'[t] = root[presented[r]] /\ presented[r] \in Tokens
          BY <4>2
        <5>2. root[presented[r]] \in Tokens /\ Drawn(root[presented[r]])
          BY <5>1, <2>4 DEF DrawnInv
        <5>. QED  BY <5>1, <5>2, <2>1 DEF Drawn
      <4>. QED  BY <4>1, <4>2
    <3>3. \A x \in Tokens : x # t => owner'[x] = owner[x]
      OBVIOUS
    <3>. QED  BY <2>1, <2>2, <3>1, <3>2, <3>3 DEF DrawnInv, Drawn
  <2>6. SessionNeverForks'
    <3>1. \A x \in Tokens : token'[x] = "live" => x = t \/ (x # t /\ token[x] = "live" /\ Drawn(x))
      BY DEF Drawn
    <3>2. \A q \in Requests : Rotating(q)' =>
              /\ q # r /\ Rotating(q) /\ presented'[q] = presented[q]
              /\ presented[q] \in Tokens /\ Drawn(presented[q]) /\ presented[q] # t
      BY <2>1 DEF Rotating, RequestInv
    <3>3. \A x \in Tokens : Drawn(x) => root[x] # t
      BY <2>1 DEF DrawnInv
    <3>4. /\ \A x \in Tokens : token[x] = "live" /\ x # t => root[x] # root'[t]
          /\ \A q \in Requests : Rotating(q)' => root[presented[q]] # root'[t]
      <4>1. CASE presented[r] = NoToken
        BY <3>1, <3>2, <3>3, <4>1 DEF Drawn
      <4>2. CASE presented[r] # NoToken
        BY <3>2, <4>2 DEF SessionNeverForks, Rotating
      <4>. QED  BY <4>1, <4>2
    <3>. QED  BY <2>1, <3>1, <3>2, <3>4 DEF SessionNeverForks
  <2>7. CaughtInv'
    BY <2>1 DEF CaughtInv
  <2>8. LateInv'
    <3>1. \A x \in late' : Drawn(x)' /\ owner'[x] \in deleted'
      BY <2>1 DEF LateInv
    <3>2. \A q \in Requests : presented[q] # t
      BY <2>1 DEF RequestInv
    <3>. QED  BY <3>1, <3>2 DEF LateInv, LateTokensAreUseless
  <2>9. GoneInv'
    BY DEF GoneInv
  <2>. QED  BY <2>3, <2>5, <2>6, <2>7, <2>8, <2>9
<1>7. ASSUME NEW r \in Requests, Abort(r) PROVE IInv'
  <2> USE <1>7 DEF Abort, Leave, rowVars, history
  <2>1. RequestInv'
    BY DEF RequestInv, Drawn
  <2>2. SessionNeverForks'
    BY DEF SessionNeverForks, Rotating
  <2>3. LateTokensAreUseless'
    BY DEF LateInv, LateTokensAreUseless
  <2>. QED  BY <2>1, <2>2, <2>3, NoRowWritten DEF LateInv
<1>8. ASSUME NEW t \in Tokens, Logout(t) PROVE IInv'
  <2> USE <1>8 DEF Logout, reqVars, history
  <2>1. {t} \in SUBSET Tokens /\ RevokeLive({t})
    OBVIOUS
  <2>2. /\ \A x \in Tokens : token'[x] = "live" => token[x] = "live"
        /\ \A x \in Tokens : Drawn(x)' = Drawn(x)
        /\ DrawnInv' /\ GoneInv'
    BY <2>1, RevokeLiveKeeps
  <2>3. RequestInv'
    BY <2>2 DEF RequestInv
  <2>4. SessionNeverForks'
    BY <2>2 DEF SessionNeverForks, Rotating
  <2>5. CaughtInv'
    BY <2>2 DEF CaughtInv
  <2>6. LateInv'
    BY <2>2 DEF LateInv, LateTokensAreUseless, RevokeLive
  <2>. QED  BY <2>2, <2>3, <2>4, <2>5, <2>6
<1>9. ASSUME NEW u \in Users, SoftDelete(u) PROVE IInv'
  <2> USE <1>9 DEF SoftDelete, rowVars, reqVars, history
  <2>1. RequestInv' /\ SessionNeverForks' /\ LateTokensAreUseless'
    BY DEF RequestInv, Drawn, SessionNeverForks, Rotating, LateInv, LateTokensAreUseless
  <2>. QED  BY <2>1, NoRowWritten DEF LateInv
<1>10. CASE PurgeStale
  <2> USE <1>10 DEF PurgeStale, reqVars, history
  <2>1. \A t \in Tokens : token'[t] = token[t] \/ (token'[t] = "gone" /\ Purgeable(t))
    OBVIOUS
  <2>2. \A t \in Tokens : Drawn(t)' = Drawn(t)
    BY DEF Drawn, Purgeable
  <2>3. RequestInv' /\ DrawnInv'
    BY <2>2 DEF RequestInv, DrawnInv
  <2>4. SessionNeverForks'
    BY <2>1 DEF SessionNeverForks, Rotating
  <2>5. CaughtInv'
    BY <2>1, <2>2 DEF CaughtInv
  <2>6. LateInv'
    BY <2>2 DEF LateInv, LateTokensAreUseless
  <2>7. GoneInv'
    BY <2>1 DEF GoneInv, Purgeable
  <2>. QED  BY <2>3, <2>4, <2>5, <2>6, <2>7
<1>11. CASE Tick
  <2> USE <1>11 DEF Tick, rowVars, reqVars, history
  <2>1. RequestInv' /\ SessionNeverForks' /\ LateTokensAreUseless'
    BY DEF RequestInv, Drawn, SessionNeverForks, Rotating, LateInv, LateTokensAreUseless
  <2>. QED  BY <2>1, NoRowWritten DEF LateInv
<1>12. CASE UNCHANGED vars
  <2> USE <1>12 DEF vars, rowVars, reqVars, history
  <2>1. RequestInv' /\ SessionNeverForks' /\ LateTokensAreUseless'
    BY DEF RequestInv, Drawn, SessionNeverForks, Rotating, LateInv, LateTokensAreUseless
  <2>. QED  BY <2>1, NoRowWritten DEF LateInv
<1>. QED
  BY <1>1, <1>2, <1>3, <1>4, <1>5, <1>6, <1>7, <1>8, <1>9, <1>10, <1>11, <1>12
  DEF Next, RequestStep

\* Every request knows what it needs and every drawn token belongs to one session,
\* which at most one live token or one rotation under way carries on.
THEOREM Sessions == Spec => []IInv
<1>. QED  BY AlwaysTyped, InitIInv, IInvPreserved, PTL DEF Spec

-----------------------------------------------------------------------------
(* What clients and users rely on *)

\* A session never forks, however often and by however many requests its tokens
\* are presented (rotate).
THEOREM NoFork == Spec => []SessionNeverForks
<1>1. IInv => SessionNeverForks
  BY DEF IInv
<1>. QED  BY Sessions, <1>1, PTL

\* A token minted for a user already deleted is never claimed (rotate).
THEOREM LateTokensDie == Spec => []LateTokensAreUseless
<1>1. IInv => LateTokensAreUseless
  BY DEF IInv, LateInv
<1>. QED  BY Sessions, <1>1, PTL

\* The tokens a reuse revoked stay dead and are never claimed again
\* (revokeAllForUser and the claim of rotate).
THEOREM CaughtStayDead == Spec => CaughtFamilyIsDead
<1> DEFINE Step == /\ \A t \in caught : token[t] # "live"
                   /\ \A r \in Requests :
                         ~Rotating(r) /\ Rotating(r)' => presented[r] \notin caught
<1>1. TypeInv /\ IInv /\ [Next]_vars => [Step]_vars
  <2> SUFFICES ASSUME TypeInv, IInv, Next PROVE Step
    OBVIOUS
  <2> USE DEF TypeInv, TypeOK, PresentedInv, IInv
  <2>1. \A t \in caught : token[t] # "live"
    BY DEF CaughtInv
  <2>2. ASSUME NEW r \in Requests, ~Rotating(r), Rotating(r)' PROVE presented[r] \notin caught
    <3> SUFFICES token[presented[r]] = "live"
      BY <2>1
    <3>1. ASSUME NEW q \in Requests, RequestStep(q) PROVE token[presented[r]] = "live"
      <4> USE <2>2, <3>1 DEF Rotating, RequestInv
      <4>1. ASSUME NEW u \in Users, Login(q, u) PROVE FALSE
        BY <4>1 DEF Login
      <4>2. ASSUME NEW t \in Tokens, Present(q, t) \/ Mint(q, t) PROVE FALSE
        BY <4>2 DEF Present, Mint, Leave
      <4>3. CASE Find(q) \/ RevokeAll(q) \/ Abort(q)
        BY <4>3 DEF Find, RevokeAll, Abort, Leave
      <4>4. CASE Claim(q)
        BY <4>4 DEF Claim, Leave
      <4>. QED  BY <4>1, <4>2, <4>3, <4>4 DEF RequestStep
    <3>2. ASSUME UNCHANGED <<at, presented>> PROVE FALSE
      BY <2>2, <3>2 DEF Rotating
    <3>. QED
      BY <3>1, <3>2 DEF Next, Logout, SoftDelete, PurgeStale, Tick, reqVars
  <2>. QED  BY <2>1, <2>2
<1>. QED  BY AlwaysTyped, Sessions, <1>1, PTL DEF Spec, CaughtFamilyIsDead

\* Reuse of a spent token within its grace is caught, whatever the cleanup deleted
\* before (the checks of rotate, purgeStale).
THEOREM ReuseCaught == Spec => ReuseIsCaught
<1> DEFINE Caught(r) ==
      LET t == presented[r]
      IN  Find(r) /\ token[t] # "live" /\ now <= expiresAt[t] /\ now <= revokedAt[t] + Grace
              => at'[r] = "revokeAll"
<1>1. TypeInv /\ IInv => [\A r \in Requests : Caught(r)]_vars
  <2> SUFFICES ASSUME TypeInv, IInv, NEW r \in Requests, Find(r),
                      token[presented[r]] # "live", now <= expiresAt[presented[r]],
                      now <= revokedAt[presented[r]] + Grace
               PROVE  at'[r] = "revokeAll"
    OBVIOUS
  <2> USE DEF TypeInv, TypeOK, PresentedInv, IInv
  <2>1. presented[r] \in Tokens /\ token[presented[r]] \in {"revoked", "gone"}
    BY DEF Find, RequestInv, Drawn
  <2>2. token[presented[r]] = "revoked"
    BY <2>1 DEF GoneInv
  <2>. QED  BY <2>1, <2>2 DEF Find
<1>. QED  BY AlwaysTyped, Sessions, <1>1, PTL DEF ReuseIsCaught
=============================================================================
