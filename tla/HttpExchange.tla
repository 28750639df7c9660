----------------------------- MODULE HttpExchange -----------------------------
(***************************************************************************)
(* One HTTP request through the global parts of app.module.ts: throttler,  *)
(* the route's guard, the tenant, timeout and envelope interceptors, the   *)
(* handler and the exception filter; and the callback of the Google        *)
(* sign-in, which answers by itself.  Guards run before the interceptors;  *)
(* a handler that is cut off by the timeout runs on, unheard.              *)
(* A definition that stands just above another and extends its name is a   *)
(* slip that definition must not make, for mutation runs.                  *)
(***************************************************************************)
EXTENDS Integers, FiniteSets

CONSTANT Routes     \* the kinds of route a request may ask for

\* open and private: JSON without and behind JwtAuthGuard; empty: a 204;
\* download: a StreamableFile; probe: /health; callback: /auth/google/callback.
RouteKinds == {"open", "private", "empty", "download", "probe", "callback"}

\* What the constant is; the module that gives it a value assumes it.
RoutesOK == Routes \subseteq RouteKinds

VARIABLES
    route,
    stage,      \* arrived, guard, handler, over
    user,       \* whether request.user is set
    tenant,     \* whether the context is bound to a tenant
    listening,  \* the timeout's subscription to the handler
    answer,     \* what was sent
    reported,   \* the exception was logged and sent to Sentry
    answers     \* how often something was sent, for the properties only

vars == <<route, stage, user, tenant, listening, answer, reported, answers>>

\* HttpExceptions by status; known Prisma errors by code; Multer's by code.
HttpExceptions == [kind: {"http"}, status: {400, 401, 404, 408, 409, 413, 429, 503}]
Exceptions ==
    HttpExceptions \union
    [kind: {"P2002", "P2025", "prisma", "LIMIT_FILE_SIZE", "multer", "other"}]

Http(n) == [kind |-> "http", status |-> n]

Nothing == [status |-> 0, shape |-> "none"]
Shapes == {"none", "json", "nothing", "stream", "envelope", "error", "redirect"}

TypeOK ==
    /\ route \in Routes
    /\ stage \in {"arrived", "guard", "handler", "over"}
    /\ user \in BOOLEAN /\ tenant \in BOOLEAN /\ listening \in BOOLEAN
    /\ answer \in [status : Nat, shape : Shapes]
    /\ reported \in BOOLEAN
    /\ answers \in Nat
    /\ tenant => user

Init ==
    /\ route \in Routes
    /\ stage = "arrived"
    /\ user = FALSE /\ tenant = FALSE /\ listening = FALSE
    /\ answer = Nothing /\ reported = FALSE /\ answers = 0

HeadersSent == answer # Nothing

Send(status, shape) ==
    /\ answer' = [status |-> status, shape |-> shape]
    /\ answers' = answers + 1

-----------------------------------------------------------------------------
(* AllExceptionsFilter *)

Describe(e) ==
    CASE e.kind = "http" -> e.status
      [] e.kind = "P2002" -> 409
      [] e.kind = "P2025" -> 404
      [] e.kind = "LIMIT_FILE_SIZE" -> 413
      [] e.kind = "multer" -> 400
      [] OTHER -> 500

IsServerError(status) == status >= 500

Catch(e) ==
    /\ reported' = (reported \/ IsServerError(Describe(e)))
    /\ IF HeadersSent THEN UNCHANGED <<answer, answers>> ELSE Send(Describe(e), "error")

-----------------------------------------------------------------------------
(* Guards *)

Throttle ==
    /\ stage = "arrived"
    /\ \/ stage' = "guard" /\ UNCHANGED <<answer, answers, reported>>
       \/ route # "probe" /\ stage' = "over" /\ Catch(Http(429))
    /\ UNCHANGED <<route, user, tenant, listening>>

Guarded == {"private", "empty", "download"}

BindsTenantAlways(known) == TRUE
BindsTenant(known) == known /\ route \in Guarded

\* On to the interceptors: the tenant is bound, the timer starts.
Admit(known) ==
    /\ stage' = "handler"
    /\ user' = known
    /\ tenant' = BindsTenant(known)
    /\ listening' = TRUE
    /\ UNCHANGED <<route, answer, answers, reported>>

Reject(e) ==
    /\ stage' = "over"
    /\ Catch(e)
    /\ UNCHANGED <<route, user, tenant, listening>>

JwtAuth ==
    /\ stage = "guard" /\ route \in Guarded
    /\ Admit(TRUE) \/ Reject(Http(401))

NoGuard == stage = "guard" /\ route \in {"open", "probe"} /\ Admit(FALSE)

\* Passport's exchange with Google: a verified identity, or none, which is let
\* in all the same; without the strategy, an error.
GoogleAuth ==
    /\ stage = "guard" /\ route = "callback"
    /\ (\E known \in BOOLEAN : Admit(known)) \/ Reject([kind |-> "other"])

-----------------------------------------------------------------------------
(* Handler and interceptors *)

ListeningStill == TRUE
Listening == listening

\* What a handler may return; nothing stands for null and undefined, which no
\* handler of JSON returns as its type is declared, and which the interceptor allows.
Values(r) ==
    CASE r = "empty" -> {"nothing"}
      [] r = "download" -> {"stream"}
      [] OTHER -> {"json", "nothing"}

\* What is sent of it: JSON is wrapped, unless the route skips the envelope.
Enveloped(value) == IF value = "json" /\ route # "probe" THEN "envelope" ELSE value

HandlerReturns(value) ==
    /\ stage = "handler" /\ route # "callback"
    /\ stage' = "over" /\ listening' = FALSE
    /\ IF Listening
       THEN Send(IF route = "empty" THEN 204 ELSE 200, Enveloped(value))
       ELSE UNCHANGED <<answer, answers>>
    /\ UNCHANGED <<route, user, tenant, reported>>

HandlerThrows(e) ==
    /\ stage = "handler" /\ route # "callback"
    /\ stage' = "over" /\ listening' = FALSE
    /\ IF Listening THEN Catch(e) ELSE UNCHANGED <<answer, answers, reported>>
    /\ UNCHANGED <<route, user, tenant>>

\* googleCallback: tokens or an error, either way a redirect.  Once something
\* was sent, both attempts throw and nobody hears of it.
GoogleCallback ==
    /\ stage = "handler" /\ route = "callback"
    /\ stage' = "over" /\ listening' = FALSE
    /\ IF ~HeadersSent THEN Send(302, "redirect") ELSE UNCHANGED <<answer, answers>>
    /\ UNCHANGED <<route, user, tenant, reported>>

TimesOutOpen == stage = "handler" /\ listening /\ route \notin Guarded
TimesOut == stage = "handler" /\ listening

Timeout ==
    /\ TimesOut
    /\ listening' = FALSE
    /\ Catch(Http(408))
    /\ UNCHANGED <<route, stage, user, tenant>>

Next ==
    \/ Throttle \/ JwtAuth \/ NoGuard \/ GoogleAuth
    \/ GoogleCallback \/ Timeout
    \/ \E value \in Values(route) : HandlerReturns(value)
    \/ \E e \in Exceptions : HandlerThrows(e)

Spec == Init /\ [][Next]_vars

\* The process's own steps and its timer; neither a handler nor Google need
\* ever come back.
Fairness == WF_vars(Throttle \/ JwtAuth \/ NoGuard) /\ WF_vars(Timeout)

-----------------------------------------------------------------------------
(* Properties *)

\* Between a timeout, a handler that comes back late, and a callback that
\* answers by itself, a request is answered once, and operators hear of exactly
\* the failures the client was told of: "Expected 4xx are part of normal
\* operation; only surface 5xx".
OneAnswer == answers <= 1 /\ (reported <=> answer.status >= 500)

\* "Fails a request that takes too long to produce its response": whatever the
\* handler does, the client hears something.  The timer starts after the guards,
\* so that the one guard that waits for somebody else is outside of it.
EveryRequestIsAnswered == <>(HeadersSent \/ (route = "callback" /\ stage = "guard"))
=============================================================================
