--------------------------- MODULE ServiceLifecycle ---------------------------
(***************************************************************************)
(* The replicas of one deployment from validated settings to traffic and   *)
(* back: main.ts, the settings' validation, the module hooks of Prisma,    *)
(* JobsService and StorageService, the registrations of the workers, and   *)
(* readiness.  A failing start ends the process and the platform starts    *)
(* another.  Nest runs every onModuleInit before any                       *)
(* onApplicationBootstrap; the order within each is left open.  A signal   *)
(* is taken once the server listens: what Nest does with an earlier one is *)
(* not this code's.                                                        *)
(* A definition that stands just above another and extends its name is a   *)
(* slip that definition must not make, for mutation runs.                  *)
(***************************************************************************)
EXTENDS Integers, Sequences

CONSTANTS
    Replicas,
    Environments    \* the settings a deployment may be given

Storage == {"STORAGE_ENDPOINT", "STORAGE_BUCKET", "STORAGE_ACCESS_KEY_ID",
            "STORAGE_SECRET_ACCESS_KEY"}

\* valid: every setting is of its own type.
EnvTypes == [production: BOOLEAN, valid: BOOLEAN, allowPrivate: BOOLEAN,
             origins: BOOLEAN, storage: SUBSET Storage]

ASSUME EnvironmentsOK == Environments \subseteq EnvTypes

VARIABLES
    env,
    database,       \* whether it answers
    bucket,         \* whether the storage bucket exists
    queues,         \* in the database: the queues created
    schedules,      \* in the database: the queues with a schedule
    stage,
    initialized,    \* the services whose onModuleInit is over
    boss,           \* pg-boss
    started,        \* JobsService.started
    creating,       \* in ensureBucket, past a HeadBucket that failed
    call,           \* the calls each provider has made in its bootstrap hook
    working,        \* the queues this process works
    closed,         \* the services whose onModuleDestroy is over
    calm            \* from here on no outage, no crash, no signal

shared == <<database, bucket, queues, schedules>>
own == <<initialized, boss, started, creating, call, working, closed>>
vars == <<env, shared, stage, own, calm>>

Services == {"Prisma", "Jobs", "Storage"}
Stages == {"validating", "configuring", "initializing", "bootstrapping",
           "listening", "stopping", "down"}

ScheduleThenWorker(q) == << <<"schedule", q>>, <<"worker", q>> >>
WorkerThenSchedule(q) == << <<"worker", q>>, <<"schedule", q>> >>

\* The onApplicationBootstrap hooks, call by call.
Plan ==
    [GeoAuditWorker |-> << <<"worker", "geo.audit">> >>
                        \o WorkerThenSchedule("geo.audit.reap")
                        \o WorkerThenSchedule("geo.audit.purge"),
     RefreshTokenCleanupJob |-> WorkerThenSchedule("refresh-tokens.purge")]

Providers == DOMAIN Plan
Queues == {"geo.audit", "geo.audit.reap", "geo.audit.purge", "refresh-tokens.purge"}

TypeOK ==
    /\ env \in Environments
    /\ database \in BOOLEAN /\ bucket \in BOOLEAN
    /\ queues \subseteq Queues /\ schedules \subseteq Queues
    /\ stage \in [Replicas -> Stages]
    /\ initialized \in [Replicas -> SUBSET Services]
    /\ boss \in [Replicas -> {"new", "starting", "running", "stopping", "stopped"}]
    /\ started \in [Replicas -> BOOLEAN]
    /\ creating \in [Replicas -> BOOLEAN]
    /\ call \in [Replicas -> [Providers -> Nat]]
    /\ \A i \in Replicas, p \in Providers : call[i][p] <= Len(Plan[p])
    /\ working \in [Replicas -> SUBSET Queues]
    /\ closed \in [Replicas -> SUBSET Services]
    /\ calm \in BOOLEAN

NoCalls == [p \in Providers |-> 0]

Init ==
    /\ env \in Environments
    /\ database = TRUE /\ bucket \in BOOLEAN
    /\ queues = {} /\ schedules = {}
    /\ stage = [i \in Replicas |-> "validating"]
    /\ initialized = [i \in Replicas |-> {}]
    /\ boss = [i \in Replicas |-> "new"]
    /\ started = [i \in Replicas |-> FALSE]
    /\ creating = [i \in Replicas |-> FALSE]
    /\ call = [i \in Replicas |-> NoCalls]
    /\ working = [i \in Replicas |-> {}]
    /\ closed = [i \in Replicas |-> {}]
    /\ calm = FALSE

Enter(i, s) == stage' = [stage EXCEPT ![i] = s]

\* bootstrap() rejects, or the process ends: nothing of it is left.
Die(i) ==
    /\ Enter(i, "down")
    /\ initialized' = [initialized EXCEPT ![i] = {}]
    /\ boss' = [boss EXCEPT ![i] = "new"]
    /\ started' = [started EXCEPT ![i] = FALSE]
    /\ creating' = [creating EXCEPT ![i] = FALSE]
    /\ call' = [call EXCEPT ![i] = NoCalls]
    /\ working' = [working EXCEPT ![i] = {}]
    /\ closed' = [closed EXCEPT ![i] = {}]

-----------------------------------------------------------------------------
(* Settings *)

ValidSettings(e) == e.valid
ValidEnv(e) == e.valid /\ ~(e.production /\ e.allowPrivate)

ValidateEnv(i) ==
    /\ stage[i] = "validating"
    /\ IF ValidEnv(env) THEN Enter(i, "configuring") /\ UNCHANGED own ELSE Die(i)
    /\ UNCHANGED <<env, shared>>

OriginsGiven(e) == e.origins \/ ~e.production

ConfigureApp(i) ==
    /\ stage[i] = "configuring"
    /\ IF OriginsGiven(env) THEN Enter(i, "initializing") /\ UNCHANGED own ELSE Die(i)
    /\ UNCHANGED <<env, shared>>

\* The constructor of StorageService: whether it has a client.
StorageConfigured == env.storage = Storage

-----------------------------------------------------------------------------
(* onModuleInit *)

Initializing(i, s) == stage[i] = "initializing" /\ s \notin initialized[i]
Initialized(i, s) == initialized' = [initialized EXCEPT ![i] = @ \union {s}]

Connect(i) ==
    /\ Initializing(i, "Prisma")
    /\ IF database
       THEN /\ Initialized(i, "Prisma")
            /\ UNCHANGED <<stage, boss, started, creating, call, working, closed>>
       ELSE Die(i)
    /\ UNCHANGED <<env, shared>>

StartBoss(i) ==
    /\ Initializing(i, "Jobs") /\ boss[i] = "new"
    /\ boss' = [boss EXCEPT ![i] = "starting"]
    /\ UNCHANGED <<env, shared, stage, initialized, started, creating, call, working, closed>>

\* boss.start(): the schema is there, or it throws.
BossStarts(i) ==
    /\ stage[i] = "initializing" /\ boss[i] = "starting"
    /\ IF database
       THEN /\ boss' = [boss EXCEPT ![i] = "running"]
            /\ UNCHANGED <<stage, initialized, started, creating, call, working, closed>>
       ELSE Die(i)
    /\ UNCHANGED <<env, shared>>

JobsStarted(i) ==
    /\ Initializing(i, "Jobs") /\ boss[i] = "running"
    /\ started' = [started EXCEPT ![i] = TRUE]
    /\ Initialized(i, "Jobs")
    /\ UNCHANGED <<env, shared, stage, boss, creating, call, working, closed>>

\* Production only looks; elsewhere a bucket that is missing is made.
MayCreate == ~env.production

FoundNever == FALSE
Found == bucket

HeadBucket(i) ==
    /\ Initializing(i, "Storage") /\ ~creating[i]
    /\ IF ~StorageConfigured \/ Found
       THEN /\ Initialized(i, "Storage")
            /\ UNCHANGED <<stage, boss, started, creating, call, working, closed>>
       ELSE IF MayCreate
       THEN /\ creating' = [creating EXCEPT ![i] = TRUE]
            /\ UNCHANGED <<stage, initialized, boss, started, call, working, closed>>
       ELSE Die(i)
    /\ UNCHANGED <<env, shared>>

\* A bucket that another replica made meanwhile is refused.
CreateBucket(i) ==
    /\ stage[i] = "initializing" /\ creating[i]
    /\ IF bucket
       THEN Die(i) /\ UNCHANGED bucket
       ELSE /\ bucket' = TRUE
            /\ Initialized(i, "Storage")
            /\ creating' = [creating EXCEPT ![i] = FALSE]
            /\ UNCHANGED <<stage, boss, started, call, working, closed>>
    /\ UNCHANGED <<env, database, queues, schedules>>

Bootstrap(i) ==
    /\ stage[i] = "initializing" /\ initialized[i] = Services
    /\ Enter(i, "bootstrapping")
    /\ UNCHANGED <<env, shared, own>>

-----------------------------------------------------------------------------
(* onApplicationBootstrap *)

HookStageInit(i) == stage[i] \in {"initializing", "bootstrapping"}
HookStage(i) == stage[i] = "bootstrapping"

\* registerWorker or registerSchedule, the next of a provider's hook.
Register(i, p) ==
    /\ HookStage(i) /\ call[i][p] < Len(Plan[p])
    /\ LET c == Plan[p][call[i][p] + 1] IN
       IF ~database
       THEN Die(i) /\ UNCHANGED <<queues, schedules>>
       ELSE /\ IF c[1] = "worker"
               THEN /\ queues' = queues \union {c[2]}
                    /\ working' = [working EXCEPT ![i] = @ \union {c[2]}]
                    /\ UNCHANGED schedules
               ELSE /\ schedules' = schedules \union {c[2]}
                    /\ UNCHANGED <<queues, working>>
            /\ call' = [call EXCEPT ![i][p] = @ + 1]
            /\ UNCHANGED <<stage, initialized, boss, started, creating, closed>>
    /\ UNCHANGED <<env, database, bucket>>

\* app.listen() comes after every hook.
HooksDoneAnyway(i) == TRUE
HooksDone(i) == \A p \in Providers : call[i][p] = Len(Plan[p])

Listen(i) ==
    /\ stage[i] = "bootstrapping" /\ HooksDone(i)
    /\ Enter(i, "listening")
    /\ UNCHANGED <<env, shared, own>>

-----------------------------------------------------------------------------
(* Shutdown: the destroy hooks while the server still listens, then the end *)

Signal(i) ==
    /\ stage[i] = "listening"
    /\ Enter(i, "stopping")
    /\ UNCHANGED <<env, shared, own>>

StartedStill(i) == started[i]
StartedOnStop(i) == FALSE

StopBoss(i) ==
    /\ stage[i] = "stopping" /\ boss[i] = "running"
    /\ started' = [started EXCEPT ![i] = StartedOnStop(i)]
    /\ boss' = [boss EXCEPT ![i] = "stopping"]
    /\ UNCHANGED <<env, shared, stage, initialized, creating, call, working, closed>>

BossStopped(i) ==
    /\ stage[i] = "stopping" /\ boss[i] = "stopping"
    /\ boss' = [boss EXCEPT ![i] = "stopped"]
    /\ working' = [working EXCEPT ![i] = {}]
    /\ closed' = [closed EXCEPT ![i] = @ \union {"Jobs"}]
    /\ UNCHANGED <<env, shared, stage, initialized, started, creating, call>>

Disconnect(i) ==
    /\ stage[i] = "stopping" /\ "Prisma" \notin closed[i]
    /\ closed' = [closed EXCEPT ![i] = @ \union {"Prisma"}]
    /\ UNCHANGED <<env, shared, stage, initialized, boss, started, creating, call, working>>

Exit(i) ==
    /\ stage[i] = "stopping" /\ closed[i] = {"Prisma", "Jobs"}
    /\ Die(i)
    /\ UNCHANGED <<env, shared>>

Crash(i) ==
    /\ stage[i] # "down"
    /\ Die(i)
    /\ UNCHANGED <<env, shared>>

\* The platform starts another.
Restart(i) ==
    /\ stage[i] = "down"
    /\ Enter(i, "validating")
    /\ UNCHANGED <<env, shared, own>>

DatabaseTurns ==
    /\ database' = ~database
    /\ UNCHANGED <<env, bucket, queues, schedules, stage, own>>

Calms == database /\ calm' = TRUE /\ UNCHANGED <<env, shared, stage, own>>

\* What the process does by itself.
Step(i) ==
    \/ ValidateEnv(i) \/ ConfigureApp(i)
    \/ Connect(i) \/ StartBoss(i) \/ BossStarts(i) \/ JobsStarted(i)
    \/ HeadBucket(i) \/ CreateBucket(i) \/ Bootstrap(i)
    \/ \E p \in Providers : Register(i, p)
    \/ Listen(i)
    \/ StopBoss(i) \/ BossStopped(i) \/ Disconnect(i) \/ Exit(i)

Next ==
    \/ \E i \in Replicas : (Step(i) \/ Restart(i)) /\ UNCHANGED calm
    \/ /\ ~calm
       /\ \/ (\E i \in Replicas : Signal(i) \/ Crash(i)) /\ UNCHANGED calm
          \/ DatabaseTurns /\ UNCHANGED calm
          \/ Calms

Spec == Init /\ [][Next]_vars

\* The process keeps running its code and the platform keeps restarting it.
FairSpec == Spec /\ \A i \in Replicas : WF_vars(Step(i) /\ UNCHANGED calm) /\ WF_vars(Restart(i) /\ UNCHANGED calm)

\* GET /health/ready
PingCheck == database
IsHealthy(i) == started[i]
Ready(i) == stage[i] \in {"listening", "stopping"} /\ PingCheck /\ IsHealthy(i)

-----------------------------------------------------------------------------
(* Properties *)

\* "a stopped queue must fail readiness rather than silently never processing
\* submissions": a replica that answers ready works every queue, to the end of
\* its life.
ReadyWorksItsQueues == \A i \in Replicas : Ready(i) => boss[i] = "running" /\ working[i] = Queues

Scheduled == {q \in Queues : \E p \in Providers : \E k \in 1 .. Len(Plan[p]) :
                                Plan[p][k] = <<"schedule", q>>}

\* Whichever replica died or was refused in between, one that listens works every
\* queue, finds every sweep's schedule stored and the bucket there if all storage
\* settings are given, and in production has the fetch guard on and its origins
\* named.  Storage that is configured by half counts as none: such a replica
\* listens all the same, and answers 503 on the routes of files.
ListeningIsWhole ==
    \A i \in Replicas : stage[i] = "listening" =>
        /\ boss[i] = "running" /\ working[i] = Queues
        /\ Scheduled \subseteq schedules
        /\ StorageConfigured => bucket
        /\ env.production => ~env.allowPrivate /\ env.origins

\* "the queue/worker registration can't race the schema creation".
RegisteredAfterStart ==
    [][\A i \in Replicas :
          call'[i] # call[i] /\ stage'[i] # "down" => boss[i] = "running"]_vars

\* Schedules outlive processes: whoever dies between which calls, a schedule in
\* the database has the queue it fires onto.
FiresHaveAQueue == schedules \subseteq queues

Startable ==
    /\ ValidEnv(env) /\ OriginsGiven(env)
    /\ env.production /\ StorageConfigured => bucket

\* Replicas that fail on each other's first start, or on an outage, get there:
\* once outages, crashes and signals end, each of them serves and goes on doing so.
AllServeInTheEnd == <>calm /\ Startable => <>[](\A i \in Replicas : Ready(i))
=============================================================================
