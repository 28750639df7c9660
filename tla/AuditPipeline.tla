---------------------------- MODULE AuditPipeline ----------------------------
(***************************************************************************)
(* The life of a site audit: the request that creates it and queues its    *)
(* job (audits.service.ts), the job handler that runs it, the reaper that  *)
(* fails what got stuck and the retention sweep that deletes it            *)
(* (geo-audit.worker.ts).  A step is what one `await` on the database or   *)
(* on the queue does; between two steps of a process every other process   *)
(* may run, and a process may die.                                         *)
(*                                                                         *)
(* An audit stands for its POST request too: every request that gets past  *)
(* the cap creates one row with a fresh id.  Workers are concurrent        *)
(* invocations of handle(), not replicas: a handler that outlives its      *)
(* job's expiry keeps running while the replica fetches another job.       *)
(*                                                                         *)
(* A guard's name with a suffix (OverCapOffByOne, SettleableAnyway, ...)   *)
(* names a mistake that is easy to make there; no action uses it, it shows *)
(* which property would break.                                             *)
(***************************************************************************)
EXTENDS Integers, Sequences, FiniteSets

CONSTANTS
    Audits,         \* audits, and the requests that create them
    Tenants,
    TenantOf,       \* the tenant an audit belongs to
    Workers,        \* concurrent invocations of handle()
    Reapers,        \* concurrent invocations of reapStale()
    NoAudit,        \* what a process without an audit holds
    MaxInflight,    \* MAX_INFLIGHT_PER_TENANT
    Burst,          \* requests of a tenant the throttle lets between count and create
    Stale,          \* STALE_PROCESSING_MS, in ticks
    Retention,      \* RETENTION_MS, in ticks
    Deliveries,     \* how often the queue may hand out one job
    MaxTime         \* bound on the clock

ASSUME ConstantsOK ==
    /\ TenantOf \in [Audits -> Tenants]
    /\ NoAudit \notin Audits
    /\ MaxInflight \in Nat /\ Burst \in Nat \ {0}
    /\ Stale \in Nat /\ Retention \in Nat
    /\ Deliveries \in Nat
    /\ MaxTime \in Nat

ASSUME FinitelyManyAudits == IsFiniteSet(Audits)

VARIABLES
    now,        \* the clock every replica reads
    status,     \* SiteAudit.status; "absent" before the insert, "purged" after the delete
    createdAt,
    updatedAt,  \* @updatedAt: set by every write of the row
    request,    \* where create() stands for the audit
    jobs,       \* how often the audit's job may still be handed out
    notes,      \* the notifications created for the audit, by kind
    at,         \* where a worker stands in handle()
    audit,      \* the audit a worker's job names
    sweep,      \* where a reaper stands in reapStale()
    cutoff,     \* a reaper's cutoff
    candidates, \* the rows its findMany returned and its loop has not visited
    reaped      \* the row whose owner a reaper is about to notify

rowVars  == <<status, createdAt, updatedAt>>
workVars == <<at, audit>>
reapVars == <<sweep, cutoff, candidates, reaped>>
vars == <<now, rowVars, request, jobs, notes, workVars, reapVars>>

InFlight == {"PENDING", "PROCESSING"}
Terminal == {"COMPLETED", "FAILED"}

Statuses == {"absent", "purged"} \union InFlight \union Terminal

RowTypes ==
    /\ status \in [Audits -> Statuses]
    /\ createdAt \in [Audits -> Nat]
    /\ updatedAt \in [Audits -> Nat]

RequestTypes ==
    /\ request \in [Audits -> {"idle", "counted", "rejected", "created",
                               "sendFailed", "accepted", "errored", "aborted"}]
    /\ jobs \in [Audits -> Nat]

HandlerTypes ==
    /\ at \in [Workers -> {"idle", "claim", "load", "run", "catch",
                           "tellCompleted", "tellFailed"}]
    /\ audit \in [Workers -> Audits \union {NoAudit}]

SweepTypes ==
    /\ sweep \in [Reapers -> {"idle", "loop", "tell"}]
    /\ cutoff \in [Reapers -> Int]
    /\ candidates \in [Reapers -> SUBSET Audits]
    /\ reaped \in [Reapers -> Audits \union {NoAudit}]

TypeOK ==
    /\ now \in Nat
    /\ RowTypes /\ RequestTypes /\ HandlerTypes /\ SweepTypes
    /\ notes \in [Audits -> Seq(Terminal)]

Init ==
    /\ now = 0
    /\ status = [a \in Audits |-> "absent"]
    /\ createdAt = [a \in Audits |-> 0]
    /\ updatedAt = [a \in Audits |-> 0]
    /\ request = [a \in Audits |-> "idle"]
    /\ jobs = [a \in Audits |-> 0]
    /\ notes = [a \in Audits |-> <<>>]
    /\ at = [w \in Workers |-> "idle"]
    /\ audit = [w \in Workers |-> NoAudit]
    /\ sweep = [p \in Reapers |-> "idle"]
    /\ cutoff = [p \in Reapers |-> 0]
    /\ candidates = [p \in Reapers |-> {}]
    /\ reaped = [p \in Reapers |-> NoAudit]

Exists(a) == status[a] \in InFlight \union Terminal

\* The rows of tenant t the cap counts.
InFlightOf(t) == {a \in Audits : TenantOf[a] = t /\ status[a] \in InFlight}

\* The requests of tenant t that passed the cap and have not inserted their row.
CountedOf(t) == {a \in Audits : TenantOf[a] = t /\ request[a] = "counted"}

\* One write of the row: the new status, and @updatedAt with it.
SetStatus(a, s) ==
    /\ status' = [status EXCEPT ![a] = s]
    /\ updatedAt' = [updatedAt EXCEPT ![a] = now]
    /\ UNCHANGED createdAt

-----------------------------------------------------------------------------
(* SiteAuditsService.create *)

Respond(a, r) == request' = [request EXCEPT ![a] = r]

OverCapOffByOne(t) == Cardinality(InFlightOf(t)) > MaxInflight
OverCap(t) == Cardinality(InFlightOf(t)) >= MaxInflight

\* count() and the cap check on its result.
CountInflight(a) ==
    /\ request[a] = "idle"
    /\ Cardinality(CountedOf(TenantOf[a])) < Burst
    /\ Respond(a, IF OverCap(TenantOf[a]) THEN "rejected" ELSE "counted")
    /\ UNCHANGED <<now, rowVars, jobs, notes, workVars, reapVars>>

CreateRow(a) ==
    /\ request[a] = "counted"
    /\ status' = [status EXCEPT ![a] = "PENDING"]
    /\ createdAt' = [createdAt EXCEPT ![a] = now]
    /\ updatedAt' = [updatedAt EXCEPT ![a] = now]
    /\ Respond(a, "created")
    /\ UNCHANGED <<now, jobs, notes, workVars, reapVars>>

\* JobsService.enqueue with retryLimit 0: the job is stored and create() returns.
Enqueue(a) ==
    /\ request[a] = "created"
    /\ jobs' = [jobs EXCEPT ![a] = Deliveries]
    /\ Respond(a, "accepted")
    /\ UNCHANGED <<now, rowVars, notes, workVars, reapVars>>

\* send() throws: the insert did not happen, or it did and the answer was lost.
EnqueueThrows(a) ==
    /\ request[a] = "created"
    /\ jobs' \in {jobs, [jobs EXCEPT ![a] = Deliveries]}
    /\ Respond(a, "sendFailed")
    /\ UNCHANGED <<now, rowVars, notes, workVars, reapVars>>

\* The catch of create(): an update by id alone, whatever the status is by now.
FailOrphan(a) ==
    /\ request[a] = "sendFailed"
    /\ Exists(a)
    /\ SetStatus(a, "FAILED")
    /\ Respond(a, "errored")
    /\ UNCHANGED <<now, jobs, notes, workVars, reapVars>>

\* The API process dies, or a database call of create() throws (the update of
\* the catch also does when the row is gone): nothing more is done for the audit.
AbortRequest(a) ==
    /\ request[a] \in {"counted", "created", "sendFailed"}
    /\ Respond(a, "aborted")
    /\ UNCHANGED <<now, rowVars, jobs, notes, workVars, reapVars>>

-----------------------------------------------------------------------------
(* GeoAuditWorker.handle *)

Goto(w, l) == at' = [at EXCEPT ![w] = l]

\* handle() returns or throws, or its process dies; retryLimit 0 gives no retry.
Leave(w) ==
    /\ Goto(w, "idle")
    /\ audit' = [audit EXCEPT ![w] = NoAudit]

Deliverable(a) == jobs[a] > 0

Deliver(w, a) ==
    /\ at[w] = "idle"
    /\ Deliverable(a)
    /\ jobs' = [jobs EXCEPT ![a] = @ - 1]
    /\ Goto(w, "claim")
    /\ audit' = [audit EXCEPT ![w] = a]
    /\ UNCHANGED <<now, rowVars, request, notes, reapVars>>

ClaimableInFlight(a) == status[a] \in InFlight
SettleableAnyway(a) == Exists(a)

\* The where clauses of the handler's two guarded writes.
Claimable(a) == status[a] = "PENDING"
Settleable(a) == status[a] = "PROCESSING"

\* updateMany where the row is claimable; count 0 ends the handler.
Claim(w) ==
    /\ at[w] = "claim"
    /\ IF Claimable(audit[w])
       THEN /\ SetStatus(audit[w], "PROCESSING")
            /\ Goto(w, "load")
            /\ UNCHANGED audit
       ELSE /\ Leave(w)
            /\ UNCHANGED rowVars
    /\ UNCHANGED <<now, request, jobs, notes, reapVars>>

\* findFirst; no row (purged since the claim) ends the handler.
Load(w) ==
    /\ at[w] = "load"
    /\ IF Exists(audit[w])
       THEN Goto(w, "run") /\ UNCHANGED audit
       ELSE Leave(w)
    /\ UNCHANGED <<now, rowVars, request, jobs, notes, reapVars>>

\* updateMany where the row is settleable; the notification only when it counted.
Settle(w, s, tell) ==
    IF Settleable(audit[w])
    THEN /\ SetStatus(audit[w], s)
         /\ Goto(w, tell)
         /\ UNCHANGED audit
    ELSE /\ Leave(w)
         /\ UNCHANGED rowVars

Complete(w) ==
    /\ at[w] = "run"
    /\ Settle(w, "COMPLETED", "tellCompleted")
    /\ UNCHANGED <<now, request, jobs, notes, reapVars>>

\* The try block throws: the run failed, or the completion write did, which may
\* have been applied all the same.
RunThrows(w) ==
    /\ at[w] = "run"
    /\ Goto(w, "catch")
    /\ \/ UNCHANGED rowVars
       \/ Settleable(audit[w]) /\ SetStatus(audit[w], "COMPLETED")
    /\ UNCHANGED <<now, request, jobs, notes, audit, reapVars>>

Fail(w) ==
    /\ at[w] = "catch"
    /\ Settle(w, "FAILED", "tellFailed")
    /\ UNCHANGED <<now, request, jobs, notes, reapVars>>

\* notifyAudit: the insert, or an error that is logged and swallowed.
Notified(a, s) ==
    \/ notes' = [notes EXCEPT ![a] = Append(@, s)]
    \/ UNCHANGED notes

NotifyAudit(w) ==
    /\ \/ at[w] = "tellCompleted" /\ Notified(audit[w], "COMPLETED")
       \/ at[w] = "tellFailed" /\ Notified(audit[w], "FAILED")
    /\ Leave(w)
    /\ UNCHANGED <<now, rowVars, request, jobs, reapVars>>

\* The worker's process dies, or a database call outside the try block throws.
AbortHandler(w) ==
    /\ at[w] # "idle"
    /\ Leave(w)
    /\ UNCHANGED <<now, rowVars, request, jobs, notes, reapVars>>

-----------------------------------------------------------------------------
(* GeoAuditWorker.reapStale and purgeOld *)

IsStaleSinceCreation(a, c) == status[a] \in InFlight /\ createdAt[a] < c
IsStaleIgnoringStatus(a, c) == Exists(a) /\ updatedAt[a] < c
IsStaleProcessingOnly(a, c) == status[a] = "PROCESSING" /\ updatedAt[a] < c

\* The where clause of the sweep, in its search and again in the write of a row.
IsStale(a, c) == status[a] \in InFlight /\ updatedAt[a] < c

\* The cutoff, and the candidates older than it.  A scan with no candidate ends
\* the job and changes nothing, so the action starts with at least one.
ReapScan(p) ==
    LET c == now - Stale
        found == {a \in Audits : IsStale(a, c)}
    IN  /\ sweep[p] = "idle"
        /\ found # {}
        /\ cutoff' = [cutoff EXCEPT ![p] = c]
        /\ candidates' = [candidates EXCEPT ![p] = found]
        /\ sweep' = [sweep EXCEPT ![p] = "loop"]
        /\ UNCHANGED <<now, rowVars, request, jobs, notes, workVars, reaped>>

\* The loop goes on after a row, or the job ends after the last one.
NextCandidate(p, rest) ==
    /\ candidates' = [candidates EXCEPT ![p] = rest]
    /\ sweep' = [sweep EXCEPT ![p] = IF rest = {} THEN "idle" ELSE "loop"]
    /\ cutoff' = [cutoff EXCEPT ![p] = IF rest = {} THEN 0 ELSE @]

\* One row of the loop, in the order findMany returned: the update re-checks
\* status and age against the cutoff of the scan.
ReapRow(p, a) ==
    /\ sweep[p] = "loop"
    /\ a \in candidates[p]
    /\ IF IsStale(a, cutoff[p])
       THEN /\ SetStatus(a, "FAILED")
            /\ sweep' = [sweep EXCEPT ![p] = "tell"]
            /\ candidates' = [candidates EXCEPT ![p] = @ \ {a}]
            /\ reaped' = [reaped EXCEPT ![p] = a]
            /\ UNCHANGED cutoff
       ELSE /\ NextCandidate(p, candidates[p] \ {a})
            /\ UNCHANGED <<rowVars, reaped>>
    /\ UNCHANGED <<now, request, jobs, notes, workVars>>

ReapNotify(p) ==
    /\ sweep[p] = "tell"
    /\ Notified(reaped[p], "FAILED")
    /\ NextCandidate(p, candidates[p])
    /\ reaped' = [reaped EXCEPT ![p] = NoAudit]
    /\ UNCHANGED <<now, rowVars, request, jobs, workVars>>

\* The reaper's process dies, or its update throws out of the loop; the rows it
\* did not reach are found by a later scan.
AbortSweep(p) ==
    /\ sweep[p] # "idle"
    /\ NextCandidate(p, {})
    /\ reaped' = [reaped EXCEPT ![p] = NoAudit]
    /\ UNCHANGED <<now, rowVars, request, jobs, notes, workVars>>

\* deleteMany where createdAt is past the retention window, whatever the status.
PurgeOld ==
    LET old == {a \in Audits : Exists(a) /\ createdAt[a] < now - Retention}
    IN  /\ old # {}
        /\ status' = [a \in Audits |-> IF a \in old THEN "purged" ELSE status[a]]
        /\ UNCHANGED <<now, createdAt, updatedAt, request, jobs, notes, workVars, reapVars>>

Tick ==
    /\ now < MaxTime
    /\ now' = now + 1
    /\ UNCHANGED <<rowVars, request, jobs, notes, workVars, reapVars>>

-----------------------------------------------------------------------------

CreateStep(a) ==
    \/ CountInflight(a) \/ CreateRow(a) \/ Enqueue(a)
    \/ EnqueueThrows(a) \/ FailOrphan(a) \/ AbortRequest(a)

HandleStep(w) ==
    \/ \E a \in Audits : Deliver(w, a)
    \/ Claim(w) \/ Load(w) \/ Complete(w) \/ RunThrows(w) \/ Fail(w)
    \/ NotifyAudit(w) \/ AbortHandler(w)

ReapStep(p) ==
    \/ ReapScan(p) \/ ReapNotify(p) \/ AbortSweep(p)
    \/ \E a \in Audits : ReapRow(p, a)

Next ==
    \/ \E a \in Audits : CreateStep(a)
    \/ \E w \in Workers : HandleStep(w)
    \/ \E p \in Reapers : ReapStep(p)
    \/ PurgeOld
    \/ Tick

Spec == Init /\ [][Next]_vars

\* Time passes, and the schedule keeps starting the reaper.  A sweep may be cut
\* short again and again, but not for ever at the same row.  Nothing is assumed
\* of the requests, of the workers, of the queue or of the retention sweep.
Fairness ==
    /\ WF_vars(Tick)
    /\ \A p \in Reapers :
          /\ WF_vars(ReapScan(p))
          /\ WF_vars(ReapNotify(p))
          /\ \A a \in Audits : SF_vars(ReapRow(p, a))

FairSpec == Spec /\ Fairness

-----------------------------------------------------------------------------
(* What the pipeline promises *)

PastClaim(w) == at[w] \in {"load", "run", "catch"}

\* The user is told once: however the handlers, the reapers and the redelivery
\* of a job interleave, an audit gets at most one notification.
AtMostOneNotification == \A a \in Audits : Len(notes[a]) <= 1

\* The claim of handle(): two handlers never run the same audit at a time, be it
\* through a duplicate worker or a redelivered job.
HandledByOne ==
    \A v, w \in Workers :
        PastClaim(v) /\ PastClaim(w) /\ audit[v] = audit[w] => v = w

\* The cap of create() is soft by exactly the overlap of the requests: with at
\* most Burst of a tenant's requests between count and insert, its audits in
\* flight stay below MaxInflight + Burst (and within MaxInflight when none overlap).
SoftCap ==
    \A t \in Tenants :
        Cardinality(InFlightOf(t)) <= MaxInflight + Burst - 1

\* A POST that failed because its job could not be queued, and whose catch could
\* write the row, never leaves an audit the client sees in progress or completed,
\* whatever ran in between.
ErroredRequestLeavesFailedAudit ==
    \A a \in Audits : request[a] = "errored" => status[a] \in {"FAILED", "purged"}

\* The per-row re-check of reapStale: a row is never reaped while it is fresh,
\* even if it was stale when the sweep listed it and was claimed since.
FreshAuditsAreNotReaped ==
    [][\A a \in Audits, p \in Reapers :
          status[a] \in InFlight /\ reaped[p] # a /\ reaped'[p] = a
              => updatedAt[a] + Stale < now]_vars

\* What the user was told is what the row says until it is purged.  The catch of
\* create() is the one to break this: a job it took for unsent was run, and the row
\* that was told completed says failed.
NotificationMatchesStatus ==
    \A a \in Audits, s \in Terminal :
        (notes[a] # <<>> /\ notes[a][1] = s)
            => \/ status[a] \in {s, "purged"}
               \/ request[a] = "errored" /\ status[a] = "FAILED"

\* No audit stays in progress for ever: one whose last write is older than the
\* staleness window is claimed if it waited for a worker, and is settled or gone
\* if a worker had it, though workers and queue may have died.
Overdue(a) == updatedAt[a] + Stale < now
OverdueAuditsSettle ==
    \A a \in Audits :
        /\ status[a] = "PENDING" /\ Overdue(a) ~> status[a] # "PENDING"
        /\ status[a] = "PROCESSING" /\ Overdue(a) ~> status[a] \notin InFlight

\* The outcome a handler or a reaper is about to notify of audit a.
Owed(a) ==
    IF \E w \in Workers : audit[w] = a /\ at[w] = "tellCompleted" THEN "COMPLETED"
    ELSE IF \/ \E w \in Workers : audit[w] = a /\ at[w] = "tellFailed"
            \/ \E p \in Reapers : reaped[p] = a
         THEN "FAILED" ELSE "none"

\* The audits whose catch has failed the row and answered the client with the error.
Errored == [a \in Audits |-> request[a] = "errored"]

Lifecycle == INSTANCE AuditLifecycle WITH
    phase <- status, owed <- [a \in Audits |-> Owed(a)], told <- notes,
    erred <- Errored

\* The pipeline implements the lifecycle: statuses move forward only and settle
\* once, and the one notification is of the outcome that was settled; only the
\* catch of create() goes over a settlement, at most once, and the row then stays
\* failed though its job may have been stored and run.
ImplementsLifecycle == Lifecycle!Spec
=============================================================================
