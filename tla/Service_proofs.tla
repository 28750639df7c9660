---------------------------- MODULE Service_proofs ----------------------------
(***************************************************************************)
(* ServiceLifecycle: what a replica that listens, or answers ready, has -  *)
(* for any number of replicas and any settings.  Clients: what those who   *)
(* call a replica see - for any rows and sort orders of a list, any page   *)
(* length, any notifications and overlapping calls, any routes.            *)
(***************************************************************************)
EXTENDS ServiceLifecycle, Clients, FiniteSetTheorems, SequenceTheorems, TLAPS

-----------------------------------------------------------------------------
(* ServiceLifecycle *)

Called(i, p, c) == \E k \in 1 .. call[i][p] : Plan[p][k] = c

\* A process that has not begun, or has ended, holds nothing.
NothingYet(i) ==
    /\ initialized[i] = {} /\ boss[i] = "new" /\ ~started[i] /\ ~creating[i]
    /\ call[i] = NoCalls /\ working[i] = {} /\ closed[i] = {}

\* What a process has by the stage it is in.
StageInv(i) ==
    /\ stage[i] \in {"down", "validating", "configuring"} => NothingYet(i)
    /\ stage[i] = "initializing" =>
          /\ call[i] = NoCalls
          /\ "Jobs" \in initialized[i] => started[i]
    /\ stage[i] \in {"bootstrapping", "listening"} => initialized[i] = Services /\ started[i]
    /\ stage[i] \in {"listening", "stopping"} => \A p \in Providers : call[i][p] = Len(Plan[p])
    /\ started[i] => boss[i] = "running"

\* The settings a process runs with, and the bucket it has seen.
SettingsInv(i) ==
    /\ stage[i] \notin {"down", "validating"} => ValidEnv(env)
    /\ stage[i] \notin {"down", "validating", "configuring"} => OriginsGiven(env)
    /\ "Storage" \in initialized[i] /\ StorageConfigured => bucket

\* A registration is in the database for good, and in the process until its
\* boss stops.
RegisteredInv(i) ==
    \A p \in Providers, q \in Queues :
        /\ Called(i, p, <<"worker", q>>) =>
              q \in queues /\ (boss[i] = "running" => q \in working[i])
        /\ Called(i, p, <<"schedule", q>>) => q \in schedules

ProcessInv(i) == StageInv(i) /\ SettingsInv(i) /\ RegisteredInv(i)

IInv == TypeOK /\ FiresHaveAQueue /\ \A i \in Replicas : ProcessInv(i)

-----------------------------------------------------------------------------
(* The bootstrap hooks, call by call *)

LEMMA PlanIs ==
    Plan = [GeoAuditWorker |->
               << <<"worker", "geo.audit">>,
                  <<"worker", "geo.audit.reap">>, <<"schedule", "geo.audit.reap">>,
                  <<"worker", "geo.audit.purge">>, <<"schedule", "geo.audit.purge">> >>,
            RefreshTokenCleanupJob |->
               << <<"worker", "refresh-tokens.purge">>, <<"schedule", "refresh-tokens.purge">> >>]
BY DEF Plan, WorkerThenSchedule

\* A schedule follows the worker of its queue, and every queue has a worker.
LEMMA PlanFacts ==
    /\ \A p \in Providers : Len(Plan[p]) \in Nat
    /\ \A p \in Providers : \A k \in 1 .. Len(Plan[p]) :
          /\ Plan[p][k] = <<Plan[p][k][1], Plan[p][k][2]>>
          /\ Plan[p][k][1] \in {"worker", "schedule"} /\ Plan[p][k][2] \in Queues
          /\ Plan[p][k][1] # "worker" =>
                /\ k - 1 \in 1 .. Len(Plan[p])
                /\ Plan[p][k - 1] = <<"worker", Plan[p][k][2]>>
    /\ \A q \in Queues : \E p \in Providers : \E k \in 1 .. Len(Plan[p]) :
          Plan[p][k] = <<"worker", q>>
<1>1. Providers = {"GeoAuditWorker", "RefreshTokenCleanupJob"}
  BY PlanIs DEF Providers
<1>2. Len(Plan["GeoAuditWorker"]) = 5 /\ Len(Plan["RefreshTokenCleanupJob"]) = 2
  BY PlanIs
<1>3. \A p \in Providers : Len(Plan[p]) \in Nat
  BY <1>1, <1>2
<1>4. ASSUME NEW p \in Providers, NEW k \in 1 .. Len(Plan[p])
      PROVE  /\ Plan[p][k] = <<Plan[p][k][1], Plan[p][k][2]>>
             /\ Plan[p][k][1] \in {"worker", "schedule"} /\ Plan[p][k][2] \in Queues
             /\ Plan[p][k][1] # "worker" =>
                   /\ k - 1 \in 1 .. Len(Plan[p])
                   /\ Plan[p][k - 1] = <<"worker", Plan[p][k][2]>>
  <2>1. CASE p = "GeoAuditWorker"
    <3>1. Len(Plan[p]) = 5
      BY <1>2, <2>1
    <3>2. k \in {1, 2, 3, 4, 5}
      BY <3>1
    <3> QED
      BY <2>1, <3>1, <3>2, PlanIs DEF Queues
  <2>2. CASE p = "RefreshTokenCleanupJob"
    <3>1. Len(Plan[p]) = 2
      BY <1>2, <2>2
    <3>2. k \in {1, 2}
      BY <3>1
    <3> QED
      BY <2>2, <3>1, <3>2, PlanIs DEF Queues
  <2> QED
    BY <1>1, <2>1, <2>2
<1>5. ASSUME NEW q \in Queues
      PROVE  \E p \in Providers : \E k \in 1 .. Len(Plan[p]) : Plan[p][k] = <<"worker", q>>
  <2>1. /\ Plan["GeoAuditWorker"][1] = <<"worker", "geo.audit">>
        /\ Plan["GeoAuditWorker"][2] = <<"worker", "geo.audit.reap">>
        /\ Plan["GeoAuditWorker"][4] = <<"worker", "geo.audit.purge">>
        /\ Plan["RefreshTokenCleanupJob"][1] = <<"worker", "refresh-tokens.purge">>
    BY PlanIs
  <2> QED
    BY <1>1, <1>2, <2>1 DEF Queues
<1> QED
  BY <1>3, <1>4, <1>5

-----------------------------------------------------------------------------
(* Invariance *)

LEMMA ServicesAre == {"Prisma", "Jobs", "Storage"} \subseteq Services
BY DEF Services

\* What a process has initialized grows by one.
LEMMA Marks ==
    \A i \in Replicas : \A s \in {"Prisma", "Jobs", "Storage"} :
        TypeOK /\ Initialized(i, s) =>
            /\ initialized' \in [Replicas -> SUBSET Services]
            /\ initialized'[i] = initialized[i] \union {s}
            /\ \A j \in Replicas \ {i} : initialized'[j] = initialized[j]
BY ServicesAre DEF TypeOK, Initialized

LEMMA NoCallsFacts ==
    /\ NoCalls \in [Providers -> Nat]
    /\ \A p \in Providers : NoCalls[p] = 0 /\ NoCalls[p] <= Len(Plan[p])
BY PlanFacts DEF NoCalls

LEMMA InitIInv == Init => IInv
<1> SUFFICES ASSUME Init PROVE IInv
  OBVIOUS
<1>1. TypeOK /\ FiresHaveAQueue
  BY NoCallsFacts DEF Init, TypeOK, FiresHaveAQueue, Stages
<1>2. ASSUME NEW i \in Replicas PROVE ProcessInv(i)
  <2>1. stage[i] = "validating" /\ NothingYet(i)
    BY DEF Init, NothingYet
  <2> QED
    BY <2>1, NoCallsFacts DEF ProcessInv, StageInv, SettingsInv, RegisteredInv, NothingYet, Called
<1> QED
  BY <1>1, <1>2 DEF IInv

\* Whatever a process does, the others keep what they have, and nothing goes
\* from the database or the storage.
OthersKeep(i) ==
    /\ \A j \in Replicas \ {i} :
          /\ stage'[j] = stage[j] /\ initialized'[j] = initialized[j] /\ boss'[j] = boss[j]
          /\ started'[j] = started[j] /\ creating'[j] = creating[j] /\ call'[j] = call[j]
          /\ working'[j] = working[j] /\ closed'[j] = closed[j]
    /\ env' = env /\ queues \subseteq queues' /\ schedules \subseteq schedules'
    /\ (bucket => bucket')

LEMMA OneMoves ==
  ASSUME IInv, NEW i \in Replicas, OthersKeep(i),
         TypeOK', FiresHaveAQueue', ProcessInv(i)'
  PROVE  IInv'
<1> SUFFICES ASSUME NEW j \in Replicas \ {i} PROVE ProcessInv(j)'
  BY DEF IInv
<1>1. ProcessInv(j)
  BY DEF IInv
<1>2. StageInv(j)'
  BY <1>1 DEF ProcessInv, StageInv, OthersKeep, NothingYet
<1>3. SettingsInv(j)'
  BY <1>1 DEF ProcessInv, SettingsInv, OthersKeep, ValidEnv, OriginsGiven, StorageConfigured
<1>4. RegisteredInv(j)'
  BY <1>1 DEF ProcessInv, RegisteredInv, OthersKeep, Called
<1> QED
  BY <1>2, <1>3, <1>4 DEF ProcessInv

\* A process that ends.
LEMMA Dying ==
  ASSUME IInv, NEW i \in Replicas, Die(i), UNCHANGED <<env, shared, calm>>
  PROVE  IInv'
<1>1. TypeOK'
  BY NoCallsFacts DEF IInv, TypeOK, Die, Enter, Stages, shared
<1>2. NothingYet(i)' /\ stage'[i] = "down"
  BY DEF IInv, TypeOK, Die, Enter, NothingYet
<1>3. ProcessInv(i)'
  BY <1>2, NoCallsFacts DEF ProcessInv, StageInv, SettingsInv, RegisteredInv, NothingYet, Called
<1>4. OthersKeep(i)
  BY DEF IInv, TypeOK, Die, Enter, OthersKeep, shared
<1> QED
  BY <1>1, <1>3, <1>4, OneMoves DEF IInv, FiresHaveAQueue, shared

\* A process that goes on.
LEMMA Moving ==
  ASSUME IInv, NEW i \in Replicas, Step(i), ~Die(i), UNCHANGED calm
  PROVE  TypeOK' /\ FiresHaveAQueue' /\ OthersKeep(i) /\ ProcessInv(i)'
<1> USE DEF Enter, own, shared
<1>0. TypeOK /\ FiresHaveAQueue /\ ProcessInv(i)
  BY DEF IInv
<1>1. CASE ValidateEnv(i)
  <2>1. TypeOK' /\ FiresHaveAQueue' /\ OthersKeep(i)
    BY <1>0, <1>1 DEF ValidateEnv, TypeOK, FiresHaveAQueue, OthersKeep, Stages
  <2>2. StageInv(i)'
    BY <1>0, <1>1 DEF ValidateEnv, TypeOK, ProcessInv, StageInv, NothingYet
  <2>3. SettingsInv(i)'
    BY <1>0, <1>1 DEF ValidateEnv, TypeOK, ProcessInv, SettingsInv, StageInv, NothingYet, ValidEnv,
       OriginsGiven, StorageConfigured
  <2>4. RegisteredInv(i)'
    BY <1>0, <1>1 DEF ValidateEnv, TypeOK, ProcessInv, StageInv, NothingYet, RegisteredInv, Called
  <2> QED
    BY <2>1, <2>2, <2>3, <2>4 DEF ProcessInv
<1>2. CASE ConfigureApp(i)
  <2>1. TypeOK' /\ FiresHaveAQueue' /\ OthersKeep(i)
    BY <1>0, <1>2 DEF ConfigureApp, TypeOK, FiresHaveAQueue, OthersKeep, Stages
  <2>2. StageInv(i)'
    BY <1>0, <1>2 DEF ConfigureApp, TypeOK, ProcessInv, StageInv, NothingYet
  <2>3. SettingsInv(i)'
    BY <1>0, <1>2 DEF ConfigureApp, TypeOK, ProcessInv, SettingsInv, StageInv, NothingYet, ValidEnv,
       OriginsGiven, StorageConfigured
  <2>4. RegisteredInv(i)'
    BY <1>0, <1>2 DEF ConfigureApp, TypeOK, ProcessInv, StageInv, NothingYet, RegisteredInv, Called
  <2> QED
    BY <2>1, <2>2, <2>3, <2>4 DEF ProcessInv
<1>3. CASE Connect(i)
  <2>1. TypeOK' /\ FiresHaveAQueue' /\ OthersKeep(i)
    BY <1>0, <1>3, Marks DEF Connect, Initializing, TypeOK, FiresHaveAQueue, OthersKeep, Stages
  <2>2. StageInv(i)'
    BY <1>0, <1>3, Marks DEF Connect, Initializing, TypeOK, ProcessInv, StageInv, NothingYet
  <2>3. SettingsInv(i)'
    <3>1. initialized'[i] = initialized[i] \union {"Prisma"}
      BY <1>0, <1>3, Marks DEF Connect, Initializing
    <3>2. "Storage" \in initialized'[i] => "Storage" \in initialized[i]
      BY <3>1
    <3> QED
      BY <1>0, <1>3, <3>2 DEF Connect, Initializing, ProcessInv, SettingsInv, ValidEnv, OriginsGiven, StorageConfigured
  <2>4. RegisteredInv(i)'
    BY <1>0, <1>3 DEF Connect, Initializing, TypeOK, ProcessInv, StageInv, NothingYet, RegisteredInv, Called
  <2> QED
    BY <2>1, <2>2, <2>3, <2>4 DEF ProcessInv
<1>4. CASE StartBoss(i)
  <2>1. TypeOK' /\ FiresHaveAQueue' /\ OthersKeep(i)
    BY <1>0, <1>4 DEF StartBoss, Initializing, TypeOK, FiresHaveAQueue, OthersKeep, Stages
  <2>2. StageInv(i)'
    BY <1>0, <1>4 DEF StartBoss, Initializing, TypeOK, ProcessInv, StageInv, NothingYet
  <2>3. SettingsInv(i)'
    BY <1>0, <1>4 DEF StartBoss, Initializing, TypeOK, ProcessInv, SettingsInv, StageInv, NothingYet, ValidEnv,
       OriginsGiven, StorageConfigured
  <2>4. RegisteredInv(i)'
    BY <1>0, <1>4 DEF StartBoss, Initializing, TypeOK, ProcessInv, StageInv, NothingYet, RegisteredInv, Called
  <2> QED
    BY <2>1, <2>2, <2>3, <2>4 DEF ProcessInv
<1>5. CASE BossStarts(i)
  <2>1. TypeOK' /\ FiresHaveAQueue' /\ OthersKeep(i)
    BY <1>0, <1>5 DEF BossStarts, TypeOK, FiresHaveAQueue, OthersKeep, Stages
  <2>2. StageInv(i)'
    BY <1>0, <1>5 DEF BossStarts, TypeOK, ProcessInv, StageInv, NothingYet
  <2>3. SettingsInv(i)'
    BY <1>0, <1>5 DEF BossStarts, TypeOK, ProcessInv, SettingsInv, StageInv, NothingYet, ValidEnv,
       OriginsGiven, StorageConfigured
  <2>4. RegisteredInv(i)'
    BY <1>0, <1>5, NoCallsFacts DEF BossStarts, TypeOK, ProcessInv, StageInv, NothingYet, RegisteredInv, Called
  <2> QED
    BY <2>1, <2>2, <2>3, <2>4 DEF ProcessInv
<1>6. CASE JobsStarted(i)
  <2>1. TypeOK' /\ FiresHaveAQueue' /\ OthersKeep(i)
    BY <1>0, <1>6, Marks DEF JobsStarted, Initializing, TypeOK, FiresHaveAQueue, OthersKeep, Stages
  <2>2. StageInv(i)'
    BY <1>0, <1>6, Marks DEF JobsStarted, Initializing, TypeOK, ProcessInv, StageInv, NothingYet
  <2>3. SettingsInv(i)'
    <3>1. initialized'[i] = initialized[i] \union {"Jobs"}
      BY <1>0, <1>6, Marks DEF JobsStarted, Initializing
    <3>2. "Storage" \in initialized'[i] => "Storage" \in initialized[i]
      BY <3>1
    <3> QED
      BY <1>0, <1>6, <3>2 DEF JobsStarted, Initializing, ProcessInv, SettingsInv, ValidEnv, OriginsGiven, StorageConfigured
  <2>4. RegisteredInv(i)'
    BY <1>0, <1>6 DEF JobsStarted, Initializing, TypeOK, ProcessInv, StageInv, NothingYet, RegisteredInv, Called
  <2> QED
    BY <2>1, <2>2, <2>3, <2>4 DEF ProcessInv
<1>7. CASE HeadBucket(i)
  <2>1. TypeOK' /\ FiresHaveAQueue' /\ OthersKeep(i)
    BY <1>0, <1>7, Marks DEF HeadBucket, Initializing, Found, TypeOK, FiresHaveAQueue, OthersKeep, Stages
  <2>2. StageInv(i)'
    BY <1>0, <1>7, Marks DEF HeadBucket, Initializing, Found, TypeOK, ProcessInv, StageInv, NothingYet
  <2>3. SettingsInv(i)'
    BY <1>0, <1>7, Marks DEF HeadBucket, Initializing, Found, TypeOK, ProcessInv, SettingsInv, StageInv, NothingYet, ValidEnv,
       OriginsGiven, StorageConfigured
  <2>4. RegisteredInv(i)'
    BY <1>0, <1>7 DEF HeadBucket, Initializing, Found, TypeOK, ProcessInv, StageInv, NothingYet, RegisteredInv, Called
  <2> QED
    BY <2>1, <2>2, <2>3, <2>4 DEF ProcessInv
<1>8. CASE CreateBucket(i)
  <2>1. TypeOK' /\ FiresHaveAQueue' /\ OthersKeep(i)
    BY <1>0, <1>8, Marks DEF CreateBucket, TypeOK, FiresHaveAQueue, OthersKeep, Stages
  <2>2. StageInv(i)'
    BY <1>0, <1>8, Marks DEF CreateBucket, TypeOK, ProcessInv, StageInv, NothingYet
  <2>3. SettingsInv(i)'
    BY <1>0, <1>8, Marks DEF CreateBucket, TypeOK, ProcessInv, SettingsInv, StageInv, NothingYet, ValidEnv,
       OriginsGiven, StorageConfigured
  <2>4. RegisteredInv(i)'
    BY <1>0, <1>8 DEF CreateBucket, TypeOK, ProcessInv, StageInv, NothingYet, RegisteredInv, Called
  <2> QED
    BY <2>1, <2>2, <2>3, <2>4 DEF ProcessInv
<1>9. CASE Bootstrap(i)
  <2>1. TypeOK' /\ FiresHaveAQueue' /\ OthersKeep(i)
    BY <1>0, <1>9, ServicesAre DEF Bootstrap, TypeOK, FiresHaveAQueue, OthersKeep, Stages
  <2>2. StageInv(i)'
    BY <1>0, <1>9, ServicesAre DEF Bootstrap, TypeOK, ProcessInv, StageInv, NothingYet
  <2>3. SettingsInv(i)'
    BY <1>0, <1>9 DEF Bootstrap, TypeOK, ProcessInv, SettingsInv, StageInv, NothingYet, ValidEnv,
       OriginsGiven, StorageConfigured
  <2>4. RegisteredInv(i)'
    BY <1>0, <1>9 DEF Bootstrap, TypeOK, ProcessInv, StageInv, NothingYet, RegisteredInv, Called
  <2> QED
    BY <2>1, <2>2, <2>3, <2>4 DEF ProcessInv
<1>10. CASE Listen(i)
  <2>1. TypeOK' /\ FiresHaveAQueue' /\ OthersKeep(i)
    BY <1>0, <1>10 DEF Listen, HooksDone, TypeOK, FiresHaveAQueue, OthersKeep, Stages
  <2>2. StageInv(i)'
    BY <1>0, <1>10 DEF Listen, HooksDone, TypeOK, ProcessInv, StageInv, NothingYet
  <2>3. SettingsInv(i)'
    BY <1>0, <1>10 DEF Listen, TypeOK, ProcessInv, SettingsInv, StageInv, NothingYet, ValidEnv,
       OriginsGiven, StorageConfigured
  <2>4. RegisteredInv(i)'
    BY <1>0, <1>10 DEF Listen, TypeOK, ProcessInv, StageInv, NothingYet, RegisteredInv, Called
  <2> QED
    BY <2>1, <2>2, <2>3, <2>4 DEF ProcessInv
<1>11. CASE StopBoss(i)
  <2>1. TypeOK' /\ FiresHaveAQueue' /\ OthersKeep(i)
    BY <1>0, <1>11 DEF StopBoss, StartedOnStop, TypeOK, FiresHaveAQueue, OthersKeep, Stages
  <2>2. StageInv(i)'
    BY <1>0, <1>11 DEF StopBoss, StartedOnStop, TypeOK, ProcessInv, StageInv, NothingYet
  <2>3. SettingsInv(i)'
    BY <1>0, <1>11 DEF StopBoss, StartedOnStop, TypeOK, ProcessInv, SettingsInv, StageInv, NothingYet, ValidEnv,
       OriginsGiven, StorageConfigured
  <2>4. RegisteredInv(i)'
    BY <1>0, <1>11 DEF StopBoss, StartedOnStop, TypeOK, ProcessInv, StageInv, NothingYet, RegisteredInv, Called
  <2> QED
    BY <2>1, <2>2, <2>3, <2>4 DEF ProcessInv
<1>12. CASE BossStopped(i)
  <2>1. TypeOK' /\ FiresHaveAQueue' /\ OthersKeep(i)
    BY <1>0, <1>12, ServicesAre DEF BossStopped, TypeOK, FiresHaveAQueue, OthersKeep, Stages
  <2>2. StageInv(i)'
    BY <1>0, <1>12 DEF BossStopped, TypeOK, ProcessInv, StageInv, NothingYet
  <2>3. SettingsInv(i)'
    BY <1>0, <1>12 DEF BossStopped, TypeOK, ProcessInv, SettingsInv, StageInv, NothingYet, ValidEnv,
       OriginsGiven, StorageConfigured
  <2>4. RegisteredInv(i)'
    BY <1>0, <1>12 DEF BossStopped, TypeOK, ProcessInv, StageInv, NothingYet, RegisteredInv, Called
  <2> QED
    BY <2>1, <2>2, <2>3, <2>4 DEF ProcessInv
<1>13. CASE Disconnect(i)
  <2>1. TypeOK' /\ FiresHaveAQueue' /\ OthersKeep(i)
    BY <1>0, <1>13, ServicesAre DEF Disconnect, TypeOK, FiresHaveAQueue, OthersKeep, Stages
  <2>2. StageInv(i)'
    BY <1>0, <1>13 DEF Disconnect, TypeOK, ProcessInv, StageInv, NothingYet
  <2>3. SettingsInv(i)'
    BY <1>0, <1>13 DEF Disconnect, TypeOK, ProcessInv, SettingsInv, StageInv, NothingYet, ValidEnv,
       OriginsGiven, StorageConfigured
  <2>4. RegisteredInv(i)'
    BY <1>0, <1>13 DEF Disconnect, TypeOK, ProcessInv, StageInv, NothingYet, RegisteredInv, Called
  <2> QED
    BY <2>1, <2>2, <2>3, <2>4 DEF ProcessInv
<1>14. CASE Exit(i)
  <2>1. TypeOK' /\ FiresHaveAQueue' /\ OthersKeep(i)
    BY <1>0, <1>14 DEF Exit, TypeOK, FiresHaveAQueue, OthersKeep, Stages
  <2>2. StageInv(i)'
    BY <1>0, <1>14 DEF Exit, TypeOK, ProcessInv, StageInv, NothingYet
  <2>3. SettingsInv(i)'
    BY <1>0, <1>14 DEF Exit, TypeOK, ProcessInv, SettingsInv, StageInv, NothingYet, ValidEnv,
       OriginsGiven, StorageConfigured
  <2>4. RegisteredInv(i)'
    BY <1>0, <1>14 DEF Exit, TypeOK, ProcessInv, StageInv, NothingYet, RegisteredInv, Called
  <2> QED
    BY <2>1, <2>2, <2>3, <2>4 DEF ProcessInv
<1>15. ASSUME NEW p \in Providers, Register(i, p)
       PROVE  TypeOK' /\ FiresHaveAQueue' /\ OthersKeep(i) /\ ProcessInv(i)'
  <2> DEFINE n == call[i][p]
  <2> DEFINE c == Plan[p][n + 1]
  <2>1. n \in Nat /\ n + 1 \in 1 .. Len(Plan[p])
    BY <1>0, <1>15, PlanFacts DEF Register, TypeOK
  <2>2. /\ c = <<c[1], c[2]>> /\ c[1] \in {"worker", "schedule"} /\ c[2] \in Queues
        /\ c[1] # "worker" => Called(i, p, <<"worker", c[2]>>)
    <3>1. /\ c = <<c[1], c[2]>> /\ c[1] \in {"worker", "schedule"} /\ c[2] \in Queues
          /\ c[1] # "worker" =>
                (n + 1) - 1 \in 1 .. Len(Plan[p]) /\ Plan[p][(n + 1) - 1] = <<"worker", c[2]>>
      BY <2>1, PlanFacts
    <3>2. (n + 1) - 1 = n
      BY <2>1
    <3>3. c[1] # "worker" => n \in 1 .. n /\ Plan[p][n] = <<"worker", c[2]>>
      BY <2>1, <3>1, <3>2
    <3> QED
      BY <3>1, <3>3 DEF Called
  <2>3. /\ call' = [call EXCEPT ![i][p] = @ + 1]
        /\ stage[i] = "bootstrapping"
        /\ UNCHANGED <<env, database, bucket, stage, initialized, boss, started, creating, closed>>
        /\ c[1] = "worker" =>
              /\ queues' = queues \union {c[2]}
              /\ working' = [working EXCEPT ![i] = @ \union {c[2]}]
              /\ UNCHANGED schedules
        /\ c[1] # "worker" =>
              schedules' = schedules \union {c[2]} /\ UNCHANGED <<queues, working>>
    BY <1>15 DEF Register, HookStage
  <2>4. c[1] # "worker" => c[2] \in queues
    BY <1>0, <2>2 DEF ProcessInv, RegisteredInv
  <2> HIDE DEF c
  <2>5. /\ call' \in [Replicas -> [Providers -> Nat]]
        /\ \A j \in Replicas, q \in Providers : call'[j][q] <= Len(Plan[q])
        /\ \A j \in Replicas \ {i} : call'[j] = call[j]
        /\ call'[i][p] = n + 1 /\ \A q \in Providers \ {p} : call'[i][q] = call[i][q]
    BY <1>0, <2>1, <2>3, PlanFacts DEF TypeOK
  <2> HIDE DEF n
  <2>6. TypeOK' /\ FiresHaveAQueue' /\ OthersKeep(i)
    <3>1. /\ queues' \subseteq Queues /\ schedules' \subseteq Queues
          /\ queues \subseteq queues' /\ schedules \subseteq schedules'
      BY <1>0, <2>2, <2>3, <2>4 DEF TypeOK
    <3>2. /\ working' \in [Replicas -> SUBSET Queues]
          /\ \A j \in Replicas \ {i} : working'[j] = working[j]
      BY <1>0, <2>2, <2>3 DEF TypeOK
    <3>3. FiresHaveAQueue'
      BY <1>0, <2>2, <2>3, <2>4 DEF FiresHaveAQueue
    <3> QED
      BY <1>0, <2>3, <2>5, <3>1, <3>2, <3>3 DEF TypeOK, OthersKeep
  <2>7. StageInv(i)' /\ SettingsInv(i)'
    BY <1>0, <2>3 DEF TypeOK, ProcessInv, StageInv, SettingsInv, ValidEnv, OriginsGiven,
       StorageConfigured
  <2>8. ASSUME NEW r \in Providers, NEW q \in Queues, NEW kind \in {"worker", "schedule"},
               Called(i, r, <<kind, q>>)'
        PROVE  Called(i, r, <<kind, q>>) \/ (c[1] = kind /\ q = c[2])
    <3>1. CASE r # p
      BY <2>5, <2>8, <3>1 DEF Called
    <3>2. CASE r = p
      <4>1. PICK k \in 1 .. (n + 1) : Plan[p][k] = <<kind, q>>
        BY <2>5, <2>8, <3>2 DEF Called
      <4>2. CASE k = n + 1
        BY <2>2, <4>1, <4>2 DEF c
      <4>3. CASE k # n + 1
        BY <2>1, <3>2, <4>1, <4>3 DEF Called, n
      <4> QED
        BY <4>2, <4>3
    <3> QED
      BY <3>1, <3>2
  <2>9. RegisteredInv(i)'
    BY <1>0, <2>2, <2>3, <2>8 DEF TypeOK, ProcessInv, RegisteredInv
  <2> QED
    BY <2>6, <2>7, <2>9 DEF ProcessInv
<1> QED
  BY <1>1, <1>2, <1>3, <1>4, <1>5, <1>6, <1>7, <1>8, <1>9, <1>10, <1>11, <1>12, <1>13,
     <1>14, <1>15 DEF Step

LEMMA StepPreserves ==
  ASSUME IInv, NEW i \in Replicas, Step(i), UNCHANGED calm
  PROVE  IInv'
<1>1. CASE Die(i)
  <2>1. UNCHANGED <<env, shared>>
    <3>1. stage'[i] = "down"
      BY <1>1 DEF IInv, TypeOK, Die, Enter
    <3>2. ASSUME NEW p \in Providers, Register(i, p)
          PROVE  UNCHANGED <<env, shared>>
      BY <3>1, <3>2 DEF Register, HookStage, shared
    <3>3. CASE CreateBucket(i)
      BY <3>1, <3>3 DEF CreateBucket, shared
    <3> QED
      BY <3>2, <3>3 DEF Step, ValidateEnv, ConfigureApp, Connect, StartBoss, BossStarts, JobsStarted,
         HeadBucket, Bootstrap, Listen, StopBoss, BossStopped, Disconnect, Exit, shared
  <2> QED
    BY <1>1, <2>1, Dying
<1>2. CASE ~Die(i)
  BY <1>2, Moving, OneMoves
<1> QED
  BY <1>1, <1>2

\* Signals, restarts and the outages of the database change no part that the
\* invariant relates.
LEMMA OthersPreserve ==
  ASSUME IInv, NEW i \in Replicas,
         Restart(i) \/ Signal(i), UNCHANGED calm
  PROVE  IInv'
<1>0. TypeOK /\ FiresHaveAQueue /\ ProcessInv(i)
  BY DEF IInv
<1> USE DEF Restart, Signal, Enter, own, shared
<1>1. TypeOK' /\ FiresHaveAQueue' /\ OthersKeep(i)
  BY <1>0 DEF TypeOK, FiresHaveAQueue, OthersKeep, Stages
<1>2. StageInv(i)'
  BY <1>0 DEF TypeOK, ProcessInv, StageInv, NothingYet
<1>3. SettingsInv(i)' /\ RegisteredInv(i)'
  BY <1>0 DEF TypeOK, ProcessInv, SettingsInv, RegisteredInv, Called, ValidEnv, OriginsGiven,
     StorageConfigured
<1> QED
  BY <1>1, <1>2, <1>3, OneMoves DEF ProcessInv

LEMMA Frame ==
  ASSUME IInv, UNCHANGED <<env, bucket, queues, schedules, stage, own>>,
         database' \in BOOLEAN, calm' \in BOOLEAN
  PROVE  IInv'
BY DEF IInv, TypeOK, FiresHaveAQueue, ProcessInv, StageInv, SettingsInv, RegisteredInv, NothingYet,
   Called, ValidEnv, OriginsGiven, StorageConfigured, own

LEMMA InvPreserved == IInv /\ [Next]_vars => IInv'
<1> SUFFICES ASSUME IInv, [Next]_vars PROVE IInv'
  OBVIOUS
<1>0. database \in BOOLEAN /\ calm \in BOOLEAN
  BY DEF IInv, TypeOK
<1>1. ASSUME NEW i \in Replicas, Step(i), UNCHANGED calm PROVE IInv'
  BY <1>1, StepPreserves
<1>2. ASSUME NEW i \in Replicas, Restart(i) \/ Signal(i), UNCHANGED calm PROVE IInv'
  BY <1>2, OthersPreserve
<1>3. ASSUME NEW i \in Replicas, Crash(i), UNCHANGED calm PROVE IInv'
  BY <1>3, Dying DEF Crash, shared
<1>4. CASE DatabaseTurns /\ UNCHANGED calm
  BY <1>0, <1>4, Frame DEF DatabaseTurns
<1>5. CASE Calms
  BY <1>0, <1>5, Frame DEF Calms, shared
<1>6. CASE UNCHANGED vars
  BY <1>0, <1>6, Frame DEF vars, shared
<1> QED
  BY <1>1, <1>2, <1>3, <1>4, <1>5, <1>6 DEF Next

LEMMA Invariance == Spec => []IInv
BY InitIInv, InvPreserved, PTL DEF Spec

-----------------------------------------------------------------------------
(* The theorems *)

\* The variables of ServiceLifecycle keep their types.
THEOREM TypeCorrect == Spec => []TypeOK
<1>1. IInv => TypeOK
  BY DEF IInv
<1> QED
  BY <1>1, Invariance, PTL

\* Who has made every call of its hooks works every queue while its boss runs.
LEMMA WorksAll ==
  ASSUME IInv, NEW i \in Replicas, boss[i] = "running",
         \A p \in Providers : call[i][p] = Len(Plan[p])
  PROVE  working[i] = Queues
<1>1. ProcessInv(i) /\ working[i] \subseteq Queues
  BY DEF IInv, TypeOK
<1>2. ASSUME NEW q \in Queues PROVE q \in working[i]
  <2>1. PICK p \in Providers : \E k \in 1 .. Len(Plan[p]) : Plan[p][k] = <<"worker", q>>
    BY PlanFacts
  <2>2. Called(i, p, <<"worker", q>>)
    BY <2>1 DEF Called
  <2> QED
    BY <1>1, <2>2 DEF ProcessInv, RegisteredInv
<1> QED
  BY <1>1, <1>2

\* A replica that answers ready has a boss that runs and works every queue, to
\* the end of its life.
THEOREM ReadyMeansWorking == Spec => []ReadyWorksItsQueues
<1>1. IInv => ReadyWorksItsQueues
  <2> SUFFICES ASSUME IInv, NEW i \in Replicas, Ready(i)
               PROVE  boss[i] = "running" /\ working[i] = Queues
    BY DEF ReadyWorksItsQueues
  <2>1. ProcessInv(i)
    BY DEF IInv
  <2>2. boss[i] = "running" /\ \A p \in Providers : call[i][p] = Len(Plan[p])
    BY <2>1 DEF Ready, IsHealthy, ProcessInv, StageInv
  <2> QED
    BY <2>2, WorksAll
<1> QED
  BY <1>1, Invariance, PTL

\* A replica that listens works every queue, finds every schedule stored and, with
\* all storage settings given, its bucket, and in production has the fetch guard on
\* and its origins named.
THEOREM ListeningMeansWhole == Spec => []ListeningIsWhole
<1>1. IInv => ListeningIsWhole
  <2> SUFFICES ASSUME IInv, NEW i \in Replicas, stage[i] = "listening"
               PROVE  /\ boss[i] = "running" /\ working[i] = Queues
                      /\ Scheduled \subseteq schedules
                      /\ StorageConfigured => bucket
                      /\ env.production => ~env.allowPrivate /\ env.origins
    BY DEF ListeningIsWhole
  <2>1. ProcessInv(i)
    BY DEF IInv
  <2>2. boss[i] = "running" /\ \A p \in Providers : call[i][p] = Len(Plan[p])
    BY <2>1 DEF ProcessInv, StageInv
  <2>3. working[i] = Queues
    BY <2>2, WorksAll
  <2>4. ASSUME NEW q \in Scheduled PROVE q \in schedules
    <3>1. PICK p \in Providers : \E k \in 1 .. Len(Plan[p]) : Plan[p][k] = <<"schedule", q>>
      BY DEF Scheduled
    <3>2. Called(i, p, <<"schedule", q>>) /\ q \in Queues
      BY <2>2, <3>1 DEF Called, Scheduled
    <3> QED
      BY <2>1, <3>2 DEF ProcessInv, RegisteredInv
  <2>5. StorageConfigured => bucket
    BY <2>1, ServicesAre DEF ProcessInv, StageInv, SettingsInv
  <2>6. env.production => ~env.allowPrivate /\ env.origins
    BY <2>1 DEF ProcessInv, SettingsInv, ValidEnv, OriginsGiven
  <2> QED
    BY <2>2, <2>3, <2>4, <2>5, <2>6
<1> QED
  BY <1>1, Invariance, PTL

\* A schedule that outlives its process fires onto a queue that is there.
THEOREM SchedulesHaveQueues == Spec => []FiresHaveAQueue
<1>1. IInv => FiresHaveAQueue
  BY DEF IInv
<1> QED
  BY <1>1, Invariance, PTL

\* Nothing is registered before the boss has started.
THEOREM RegistersOnlyAfterStart == Spec => RegisteredAfterStart
<1>1. ASSUME IInv, [Next]_vars, NEW i \in Replicas, call'[i] # call[i], stage'[i] # "down"
      PROVE  boss[i] = "running"
  <2>0. TypeOK /\ ProcessInv(i)
    BY <1>1 DEF IInv
  <2>1. ASSUME NEW j \in Replicas, Die(j) PROVE FALSE
    BY <1>1, <2>0, <2>1 DEF TypeOK, Die, Enter
  <2>2. PICK j \in Replicas, p \in Providers : Register(j, p)
    BY <1>1, <2>1 DEF Next, vars, Step, ValidateEnv, ConfigureApp, Connect, StartBoss, BossStarts,
       JobsStarted, HeadBucket, CreateBucket, Bootstrap, Listen, StopBoss, BossStopped, Disconnect,
       Exit, Crash, Restart, Signal, DatabaseTurns, Calms, own
  <2>3. stage[i] = "bootstrapping"
    BY <1>1, <2>0, <2>1, <2>2 DEF Register, HookStage, TypeOK
  <2> QED
    BY <2>0, <2>3 DEF ProcessInv, StageInv
<1>2. IInv /\ [Next]_vars =>
        \A i \in Replicas : call'[i] # call[i] /\ stage'[i] # "down" => boss[i] = "running"
  BY <1>1
<1> QED
  BY <1>2, Invariance, PTL DEF Spec, RegisteredAfterStart

-----------------------------------------------------------------------------
(* HttpExchange *)

\* What is sent goes with what was counted and reported; who is still listened to
\* has sent nothing, and nothing is sent before the guards.
ExchangeInv ==
    /\ Exchange!TypeOK
    /\ OneAnswer
    /\ answers = 0 <=> ~Exchange!HeadersSent
    /\ listening => phase = "handler" /\ ~Exchange!HeadersSent
    /\ phase \in {"arrived", "guard"} => ~Exchange!HeadersSent

LEMMA Described ==
    \A e \in Exchange!Exceptions :
        Exchange!Describe(e) \in Nat /\ Exchange!Describe(e) >= 400
BY DEF Exchange!Exceptions, Exchange!HttpExceptions, Exchange!Describe

LEMMA Thrown ==
    /\ \A n \in {401, 408, 429} : Exchange!Http(n) \in Exchange!Exceptions
    /\ [kind |-> "other"] \in Exchange!Exceptions
BY DEF Exchange!Exceptions, Exchange!HttpExceptions, Exchange!Http

\* An exception that reaches the filter first is the answer.
LEMMA Caught ==
  ASSUME ExchangeInv, ~Exchange!HeadersSent, NEW e \in Exchange!Exceptions, Exchange!Catch(e),
         UNCHANGED route
  PROVE  /\ answer' \in [status : Nat, shape : Exchange!Shapes]
         /\ answers' = 1 /\ reported' \in BOOLEAN
         /\ Exchange!HeadersSent'
         /\ OneAnswer'
<1> DEFINE n == Exchange!Describe(e)
<1>1. n \in Nat /\ n >= 400
  BY Described
<1>2. /\ answer' = [status |-> n, shape |-> "error"] /\ answers' = answers + 1
      /\ reported' = (reported \/ n >= 500)
  BY DEF Exchange!Catch, Exchange!Send, Exchange!IsServerError
<1>3. answer = [status |-> 0, shape |-> "none"] /\ answers = 0 /\ ~reported
  BY DEF ExchangeInv, OneAnswer, Exchange!OneAnswer, Exchange!HeadersSent, Exchange!Nothing,
     Exchange!TypeOK
<1> DEFINE big == n >= 500
<1> HIDE DEF n
<1>4. answer'.status = n /\ answer'.shape = "error" /\ Exchange!HeadersSent'
  BY <1>1, <1>2 DEF Exchange!HeadersSent, Exchange!Nothing
<1>5. answer' \in [status : Nat, shape : Exchange!Shapes]
  BY <1>1, <1>2 DEF Exchange!Shapes
<1>6. answers' = 1
  BY <1>2, <1>3
<1>7. reported' \in BOOLEAN /\ (reported' <=> answer'.status >= 500)
  <2>1. answer'.status >= 500 <=> big
    BY <1>4
  <2>2. reported' = (reported \/ big)
    BY <1>2
  <2> HIDE DEF big
  <2>3. reported' \in BOOLEAN /\ (reported' <=> big)
    BY <1>3, <2>2, Zenon
  <2> QED
    BY <2>1, <2>3, Zenon
<1>8. OneAnswer'
  BY <1>6, <1>7 DEF OneAnswer, Exchange!OneAnswer
<1> QED
  BY <1>4, <1>5, <1>6, <1>7, <1>8

LEMMA ExchangeStarts ==
  ASSUME Exchange!Init \/ ExchangeOver
  PROVE  ExchangeInv
<1> USE DEF Exchange!Init, ExchangeOver, Exchange!HeadersSent, Exchange!Nothing
<1>1. route \in Routes /\ (Exchange!HeadersSent => route = "open" /\ phase = "over" /\ answer.status = 200)
  BY ClientsOK
<1>2. answers <= 1 /\ (answers = 0 <=> ~Exchange!HeadersSent)
  OBVIOUS
<1>3. ~reported /\ ~(answer.status >= 500)
  OBVIOUS
<1>4. OneAnswer
  BY <1>2, <1>3 DEF OneAnswer, Exchange!OneAnswer
<1>6. Exchange!TypeOK
  <2>1. answer \in [status : Nat, shape : Exchange!Shapes] /\ answers \in Nat
    BY DEF Exchange!Shapes
  <2>2. /\ phase \in {"arrived", "guard", "handler", "over"}
        /\ user = FALSE /\ tenant = FALSE /\ listening = FALSE /\ reported = FALSE
    OBVIOUS
  <2> HIDE DEF Exchange!Init, ExchangeOver, Exchange!Nothing
  <2>3. user \in BOOLEAN /\ tenant \in BOOLEAN /\ listening \in BOOLEAN /\ reported \in BOOLEAN
    BY <2>2
  <2> QED
    BY <1>1, <2>1, <2>2, <2>3, Zenon DEF Exchange!TypeOK
<1> QED
  BY <1>1, <1>2, <1>4, <1>6 DEF ExchangeInv

\* A step that unsubscribes, with what it sends or without.
LEMMA Unsubscribed ==
  ASSUME ExchangeInv, UNCHANGED <<route, user, tenant>>, listening' = FALSE,
         phase' \in {"handler", "over"},
         answer' \in [status : Nat, shape : Exchange!Shapes],
         answers' \in Nat, reported' \in BOOLEAN,
         answers' = 0 <=> ~Exchange!HeadersSent',
         OneAnswer'
  PROVE  ExchangeInv'
<1>1. /\ route \in Routes /\ user \in BOOLEAN /\ tenant \in BOOLEAN /\ (tenant => user)
  BY DEF ExchangeInv, Exchange!TypeOK
<1>2. route' \in Routes /\ user' \in BOOLEAN /\ tenant' \in BOOLEAN /\ (tenant' => user')
  BY <1>1, Zenon
<1>3. listening' \in BOOLEAN
  OBVIOUS
<1>4. Exchange!TypeOK'
  BY <1>2, <1>3, Zenon DEF Exchange!TypeOK
<1>5. /\ listening' => phase' = "handler" /\ ~Exchange!HeadersSent'
      /\ phase' \notin {"arrived", "guard"}
  OBVIOUS
<1> QED
  BY <1>4, <1>5, Zenon DEF ExchangeInv

LEMMA SilentLast ==
  ASSUME ExchangeInv, UNCHANGED <<route, user, tenant, answer, answers, reported>>,
         listening' = FALSE, phase' = "over"
  PROVE  ExchangeInv'
<1>1. /\ answer' \in [status : Nat, shape : Exchange!Shapes]
      /\ answers' \in Nat /\ reported' \in BOOLEAN
  BY Zenon DEF ExchangeInv, Exchange!TypeOK
<1>2. answers' = 0 <=> ~Exchange!HeadersSent'
  BY Zenon DEF ExchangeInv, Exchange!HeadersSent
<1>3. OneAnswer'
  BY Zenon DEF ExchangeInv, OneAnswer, Exchange!OneAnswer
<1> QED
  BY <1>1, <1>2, <1>3, Unsubscribed

\* The first thing that is sent, and no failure.
LEMMA SentWell ==
  ASSUME ExchangeInv, ~Exchange!HeadersSent, UNCHANGED <<route, user, tenant, reported>>,
         listening' = FALSE, phase' = "over", answers' = answers + 1,
         answer' \in [status : Nat, shape : Exchange!Shapes], answer'.status \in {200, 204, 302}
  PROVE  ExchangeInv'
<1>1. answers = 0 /\ answer = [status |-> 0, shape |-> "none"]
  BY DEF ExchangeInv, Exchange!HeadersSent, Exchange!Nothing
<1>2. answers' = 1 /\ Exchange!HeadersSent'
  BY <1>1 DEF Exchange!HeadersSent, Exchange!Nothing
<1>3. reported = FALSE
  <2>1. ~(answer.status >= 500)
    BY <1>1
  <2> QED
    BY <2>1, Zenon DEF ExchangeInv, OneAnswer, Exchange!OneAnswer, Exchange!TypeOK
<1>4. ~(answer'.status >= 500)
  OBVIOUS
<1>5. reported' = FALSE
  BY <1>3
<1>6. OneAnswer'
  BY <1>2, <1>4, <1>5 DEF OneAnswer, Exchange!OneAnswer
<1>7. answers' \in Nat /\ (answers' = 0 <=> ~Exchange!HeadersSent')
  BY <1>2
<1>8. reported' \in BOOLEAN
  BY <1>5, Zenon
<1> QED
  BY <1>6, <1>7, <1>8, Unsubscribed, Zenon

LEMMA ExchangePreserved == ExchangeInv /\ [Exchange!Next]_exchange => ExchangeInv'
<1> SUFFICES ASSUME ExchangeInv, [Exchange!Next]_exchange PROVE ExchangeInv'
  OBVIOUS
<1>0. CASE UNCHANGED exchange
  BY <1>0 DEF ExchangeInv, Exchange!TypeOK, exchange, OneAnswer, Exchange!OneAnswer, Exchange!HeadersSent
<1>1. CASE Exchange!Throttle
  <2>1. CASE phase' = "guard" /\ UNCHANGED <<answer, answers, reported>>
    BY <1>1, <2>1 DEF ExchangeInv, Exchange!TypeOK, Exchange!Throttle, OneAnswer, Exchange!OneAnswer, Exchange!HeadersSent
  <2>2. CASE phase' = "over" /\ Exchange!Catch(Exchange!Http(429))
    BY <1>1, <2>2, Caught, Thrown DEF ExchangeInv, Exchange!TypeOK, Exchange!Throttle
  <2> QED
    BY <1>1, <2>1, <2>2 DEF Exchange!Throttle
<1>2. ASSUME NEW known \in BOOLEAN, phase = "guard", Exchange!Admit(known) PROVE ExchangeInv'
  BY <1>2 DEF ExchangeInv, Exchange!TypeOK, Exchange!Admit, Exchange!BindsTenant, OneAnswer, Exchange!OneAnswer,
     Exchange!HeadersSent
<1>3. ASSUME NEW e \in Exchange!Exceptions, phase = "guard", Exchange!Reject(e) PROVE ExchangeInv'
  BY <1>3, Caught DEF ExchangeInv, Exchange!TypeOK, Exchange!Reject
<1>4. CASE Exchange!JwtAuth \/ Exchange!NoGuard \/ Exchange!GoogleAuth
  BY <1>2, <1>3, <1>4, Thrown DEF Exchange!JwtAuth, Exchange!NoGuard, Exchange!GoogleAuth
<1>5. CASE Exchange!Timeout
  <2>1. Exchange!Catch(Exchange!Http(408)) /\ ~Exchange!HeadersSent
    BY <1>5 DEF ExchangeInv, Exchange!Timeout, Exchange!TimesOut
  <2>2. UNCHANGED <<route, phase, user, tenant>> /\ listening' = FALSE /\ phase = "handler"
    BY <1>5 DEF ExchangeInv, Exchange!Timeout, Exchange!TimesOut
  <2>3. QED
    <3> DEFINE e == Exchange!Http(408)
    <3>1. e \in Exchange!Exceptions
      BY Thrown
    <3> HIDE DEF e
    <3>2. /\ answer' \in [status : Nat, shape : Exchange!Shapes]
          /\ answers' = 1 /\ reported' \in BOOLEAN /\ Exchange!HeadersSent'
          /\ OneAnswer'
      BY <2>1, <2>2, <3>1, Caught DEF e
    <3>3. answers' \in Nat /\ (answers' = 0 <=> ~Exchange!HeadersSent')
      BY <3>2
    <3> QED
      BY <2>2, <3>2, <3>3, Unsubscribed
<1>6. ASSUME NEW e \in Exchange!Exceptions, Exchange!HandlerThrows(e) PROVE ExchangeInv'
  <2>1. UNCHANGED <<route, user, tenant>> /\ listening' = FALSE /\ phase' = "over"
    BY <1>6 DEF Exchange!HandlerThrows
  <2>2. CASE listening
    <3>1. Exchange!Catch(e) /\ ~Exchange!HeadersSent
      BY <1>6, <2>2 DEF ExchangeInv, Exchange!HandlerThrows, Exchange!Listening
    <3>2. /\ answer' \in [status : Nat, shape : Exchange!Shapes]
          /\ answers' = 1 /\ reported' \in BOOLEAN /\ Exchange!HeadersSent'
          /\ OneAnswer'
      BY <2>1, <3>1, Caught
    <3>3. answers' \in Nat /\ (answers' = 0 <=> ~Exchange!HeadersSent')
      BY <3>2
    <3> QED
      BY <2>1, <3>2, <3>3, Unsubscribed
  <2>3. CASE ~listening
    BY <1>6, <2>1, <2>3, SilentLast DEF Exchange!HandlerThrows, Exchange!Listening
  <2> QED
    BY <2>2, <2>3
<1>7. ASSUME NEW value \in Exchange!Values(route), Exchange!HandlerReturns(value) PROVE ExchangeInv'
  <2>1. UNCHANGED <<route, user, tenant, reported>> /\ listening' = FALSE /\ phase' = "over"
    BY <1>7 DEF Exchange!HandlerReturns
  <2>2. CASE listening
    <3>1. ~Exchange!HeadersSent /\ answers' = answers + 1
      BY <1>7, <2>2 DEF ExchangeInv, Exchange!HandlerReturns, Exchange!Listening, Exchange!Send
    <3>2. answer' = [status |-> IF route = "empty" THEN 204 ELSE 200, shape |-> Exchange!Enveloped(value)]
      BY <1>7, <2>2 DEF ExchangeInv, Exchange!HandlerReturns, Exchange!Listening, Exchange!Send
    <3>3. Exchange!Enveloped(value) \in Exchange!Shapes
      BY DEF Exchange!Enveloped, Exchange!Values, Exchange!Shapes
    <3>4. answer' \in [status : Nat, shape : Exchange!Shapes] /\ answer'.status \in {200, 204}
      BY <3>2, <3>3
    <3> QED
      BY <2>1, <3>1, <3>4, SentWell
  <2>3. CASE ~listening
    BY <1>7, <2>1, <2>3, SilentLast DEF Exchange!HandlerReturns, Exchange!Listening
  <2> QED
    BY <2>2, <2>3
<1>8. CASE Exchange!GoogleCallback
  <2>1. UNCHANGED <<route, user, tenant, reported>> /\ listening' = FALSE /\ phase' = "over"
    BY <1>8 DEF Exchange!GoogleCallback
  <2>2. CASE ~Exchange!HeadersSent
    <3>1. answer' = [status |-> 302, shape |-> "redirect"] /\ answers' = answers + 1
      BY <1>8, <2>2 DEF Exchange!GoogleCallback, Exchange!Send
    <3>2. answer' \in [status : Nat, shape : Exchange!Shapes] /\ answer'.status = 302
      BY <3>1 DEF Exchange!Shapes
    <3> QED
      BY <2>1, <2>2, <3>1, <3>2, SentWell
  <2>3. CASE Exchange!HeadersSent
    BY <1>8, <2>1, <2>3, SilentLast DEF Exchange!GoogleCallback
  <2> QED
    BY <2>2, <2>3
<1> QED
  BY <1>0, <1>1, <1>4, <1>5, <1>6, <1>7, <1>8 DEF Exchange!Next

LEMMA ExchangeAlways == ClientsSpec => []ExchangeInv
<1>1. ClientsInit => ExchangeInv
  BY ExchangeStarts DEF ClientsInit
<1>2. ExchangeInv /\ [ClientsNext]_all => ExchangeInv'
  <2> SUFFICES ASSUME [ClientsNext]_all PROVE [Exchange!Next]_exchange
    BY ExchangePreserved
  <2> QED
    BY DEF ClientsNext, all
<1> QED
  BY <1>1, <1>2, PTL DEF ClientsSpec

\* A request is answered once, and exactly the failures are reported.
THEOREM AnsweredOnce == ClientsSpec => []OneAnswer
<1>1. ExchangeInv => OneAnswer
  BY DEF ExchangeInv
<1> QED
  BY <1>1, ExchangeAlways, PTL

-----------------------------------------------------------------------------
(* Notifications *)

\* Only what was raised is read; a request of a user knows the time of its
\* notification, or none yet.
ReadingInv ==
    /\ Reading!TypeOK
    /\ CountedOnce
    /\ \A n \in Notes : to[n] = NoUser => readAt[n] = 0
    /\ \A r \in Requests : reading[r] # "idle" =>
          /\ who[r] \in Users /\ note[r] \in Notes
          /\ shown[r] # 0 => shown[r] = readAt[note[r]]

ReadBy(u) == {n \in Notes : to[n] = u /\ readAt[n] # 0}

LEMMA SameCount == \A S : Reading!Cardinality(S) = Cardinality(S)
BY Zenon DEF Reading!Cardinality, Cardinality

LEMMA Tables ==
    /\ IsFiniteSet(Notes) /\ NoNote \notin Notes /\ NoUser \notin Users
    /\ MaxTime \in Nat \ {0}
BY ClientsOK, Zenon DEF Reading!ConstantsOK, Reading!IsFiniteSet, IsFiniteSet

LEMMA ReadCounts ==
    \A u : /\ ReadBy(u) \subseteq Notes /\ IsFiniteSet(ReadBy(u))
           /\ Cardinality(ReadBy(u)) \in Nat
BY Tables, FS_Subset, FS_CardinalityType DEF ReadBy

LEMMA CountedIs == CountedOnce <=> \A u \in Users : counted[u] = Cardinality(ReadBy(u))
BY SameCount DEF CountedOnce, Reading!CountedOnce, ReadBy

\* Stamping the unread ones of S, all of u.
LEMMA Flipped ==
  ASSUME ReadingInv, NEW u \in Users, NEW S \in SUBSET Reading!Unread(u), Reading!Flip(S, u),
         UNCHANGED <<to, now>>
  PROVE  /\ readAt' \in [Notes -> 0 .. now'] /\ counted' \in [Users -> Nat]
         /\ CountedOnce'
         /\ \A n \in Notes : to'[n] = NoUser => readAt'[n] = 0
         /\ \A n \in Notes : readAt[n] # 0 => readAt'[n] = readAt[n]
<1>0. /\ now \in 1 .. MaxTime /\ readAt \in [Notes -> 0 .. now] /\ counted \in [Users -> Nat]
      /\ MaxTime \in Nat
  BY Tables DEF ReadingInv, Reading!TypeOK
<1>1. /\ S \subseteq Notes /\ \A n \in S : to[n] = u /\ readAt[n] = 0
      /\ readAt' = [n \in Notes |-> IF n \in S THEN now ELSE readAt[n]]
      /\ counted' = [counted EXCEPT ![u] = @ + Cardinality(S)]
  BY SameCount DEF Reading!Unread, Reading!Flip, Reading!Stamp
<1>2. IsFiniteSet(S) /\ Cardinality(S) \in Nat
  BY <1>1, Tables, FS_Subset, FS_CardinalityType
<1>3. readAt' \in [Notes -> 0 .. now']
  BY <1>0, <1>1
<1>4. counted' \in [Users -> Nat]
  BY <1>0, <1>1, <1>2
<1>5. \A n \in Notes : to'[n] = NoUser => readAt'[n] = 0
  BY <1>1, Tables DEF ReadingInv
<1>6. \A n \in Notes : readAt[n] # 0 => readAt'[n] = readAt[n]
  BY <1>1
<1>7. ASSUME NEW v \in Users PROVE counted'[v] = Cardinality(ReadBy(v)')
  <2>0. counted[v] = Cardinality(ReadBy(v))
    BY CountedIs DEF ReadingInv
  <2>1. CASE v = u
    <3>1. ReadBy(u)' = ReadBy(u) \union S /\ ReadBy(u) \intersect S = {}
      BY <1>0, <1>1 DEF ReadBy
    <3>2. Cardinality(ReadBy(u)') = Cardinality(ReadBy(u)) + Cardinality(S) - Cardinality({})
      BY <3>1, <1>2, ReadCounts, FS_Union
    <3>3. Cardinality({}) = 0
      BY FS_EmptySet
    <3>4. counted'[u] = counted[u] + Cardinality(S)
      BY <1>0, <1>1
    <3> QED
      BY <2>0, <2>1, <3>2, <3>3, <3>4, <1>2, ReadCounts
  <2>2. CASE v # u
    <3>1. ReadBy(v)' = ReadBy(v)
      BY <1>0, <1>1, <2>2 DEF ReadBy
    <3>2. counted'[v] = counted[v]
      BY <1>0, <1>1, <2>2
    <3> QED
      BY <2>0, <3>1, <3>2
  <2> QED
    BY <2>1, <2>2
<1>8. CountedOnce'
  BY <1>7, SameCount DEF CountedOnce, Reading!CountedOnce, ReadBy
<1> QED
  BY <1>3, <1>4, <1>5, <1>6, <1>8

LEMMA ReadingStarts == Reading!Init => ReadingInv
<1> SUFFICES ASSUME Reading!Init PROVE ReadingInv
  OBVIOUS
<1> USE DEF Reading!Init
<1>1. \A u \in Users : ReadBy(u) = {}
  BY DEF ReadBy
<1>2. CountedOnce
  BY <1>1, FS_EmptySet, CountedIs
<1>3. Reading!TypeOK
  BY Tables DEF Reading!TypeOK
<1> QED
  BY <1>2, <1>3 DEF ReadingInv

ReadOnce ==
    /\ \A n \in Notes : readAt[n] # 0 => readAt'[n] = readAt[n]
    /\ \A r \in Requests : (reading'[r] = "answer" /\ shown'[r] # 0) => shown'[r] = readAt'[note'[r]]

\* What a request knows.
Knows(r) ==
    reading[r] # "idle" =>
        /\ who[r] \in Users /\ note[r] \in Notes
        /\ shown[r] # 0 => shown[r] = readAt[note[r]]

\* A step that leaves the rows and the counts alone.
LEMMA RowsKept ==
  ASSUME ReadingInv, UNCHANGED <<to, readAt, counted>>,
         now' \in now .. MaxTime,
         reading' \in [Requests -> {"idle", "flip", "reread", "answer"}],
         who' \in [Requests -> Users \union {NoUser}],
         note' \in [Requests -> Notes \union {NoNote}],
         shown' \in [Requests -> 0 .. MaxTime],
         \A r \in Requests : Knows(r)'
  PROVE  ReadingInv' /\ ReadOnce
<1>1. Reading!TypeOK'
  BY DEF ReadingInv, Reading!TypeOK
<1>2. CountedOnce'
  BY Zenon DEF ReadingInv, CountedOnce, Reading!CountedOnce
<1>3. \A n \in Notes : to'[n] = NoUser => readAt'[n] = 0
  BY DEF ReadingInv
<1>4. ReadOnce
  BY DEF Knows, ReadOnce
<1> QED
  BY <1>1, <1>2, <1>3, <1>4 DEF ReadingInv, Knows

\* A step that marks rows read and leaves those who ask alone, but for where they are.
LEMMA RequestsKept ==
  ASSUME ReadingInv, NEW u \in Users, NEW S \in SUBSET Reading!Unread(u), Reading!Flip(S, u),
         UNCHANGED <<to, now, who, note, shown>>,
         reading' \in [Requests -> {"idle", "flip", "reread", "answer"}],
         \A r \in Requests : reading[r] = "idle" => reading'[r] = "idle"
  PROVE  ReadingInv' /\ ReadOnce
<1>1. /\ readAt' \in [Notes -> 0 .. now'] /\ counted' \in [Users -> Nat]
      /\ CountedOnce'
      /\ \A n \in Notes : to'[n] = NoUser => readAt'[n] = 0
      /\ \A n \in Notes : readAt[n] # 0 => readAt'[n] = readAt[n]
  BY Flipped
<1>2. Reading!TypeOK'
  BY <1>1 DEF ReadingInv, Reading!TypeOK
<1>3. \A r \in Requests : Knows(r)'
  BY <1>1 DEF ReadingInv, Knows
<1> QED
  BY <1>1, <1>2, <1>3 DEF ReadingInv, Knows, ReadOnce

LEMMA ReadingPreserved == ReadingInv /\ [Reading!Next]_notifications => ReadingInv' /\ ReadOnce
<1> SUFFICES ASSUME ReadingInv, [Reading!Next]_notifications PROVE ReadingInv' /\ ReadOnce
  OBVIOUS
<1>0. /\ now \in 1 .. MaxTime /\ MaxTime \in Nat
      /\ reading \in [Requests -> {"idle", "flip", "reread", "answer"}]
      /\ who \in [Requests -> Users \union {NoUser}]
      /\ note \in [Requests -> Notes \union {NoNote}]
      /\ shown \in [Requests -> 0 .. MaxTime]
      /\ readAt \in [Notes -> 0 .. MaxTime]
      /\ \A r \in Requests : Knows(r)
  BY Tables DEF ReadingInv, Reading!TypeOK, Knows
<1>1. CASE UNCHANGED notifications
  BY <1>0, <1>1, RowsKept DEF notifications, Knows
<1>2. ASSUME NEW n \in Notes, NEW u \in Users, Reading!Notify(n, u) PROVE ReadingInv' /\ ReadOnce
  <2>1. /\ to[n] = NoUser /\ readAt[n] = 0 /\ to' = [to EXCEPT ![n] = u]
        /\ UNCHANGED <<now, readAt, reading, who, note, shown, counted>>
    BY <1>2 DEF Reading!Notify, Reading!reqVars, ReadingInv
  <2>2. \A v \in Users : ReadBy(v)' = ReadBy(v)
    BY <2>1, Tables DEF ReadBy, ReadingInv, Reading!TypeOK
  <2>3. CountedOnce'
    <3>1. \A v \in Users : counted[v] = Cardinality(ReadBy(v))
      BY CountedIs DEF ReadingInv
    <3>2. \A v \in Users : counted'[v] = Cardinality(ReadBy(v)')
      BY <2>1, <2>2, <3>1
    <3> QED
      BY <3>2, SameCount DEF CountedOnce, Reading!CountedOnce, ReadBy
  <2>4. Reading!TypeOK'
    BY <2>1 DEF ReadingInv, Reading!TypeOK
  <2>5. \A m \in Notes : to'[m] = NoUser => readAt'[m] = 0
    BY <2>1 DEF ReadingInv, Reading!TypeOK
  <2>6. \A r \in Requests : Knows(r)'
    BY <1>0, <2>1 DEF Knows
  <2> QED
    BY <2>1, <2>3, <2>4, <2>5, <2>6 DEF ReadingInv, Knows, ReadOnce
<1>3. ASSUME NEW u \in Users, Reading!MarkAllRead(u) PROVE ReadingInv' /\ ReadOnce
  BY <1>0, <1>3, RequestsKept DEF Reading!MarkAllRead, Reading!reqVars
<1>4. ASSUME NEW r \in Requests, NEW u \in Users, NEW n \in Notes, Reading!Find(r, u, n)
      PROVE  ReadingInv' /\ ReadOnce
  <2>1. /\ reading' = [reading EXCEPT ![r] = "flip"] /\ who' = [who EXCEPT ![r] = u]
        /\ note' = [note EXCEPT ![r] = n] /\ shown' = [shown EXCEPT ![r] = readAt[n]]
        /\ UNCHANGED <<now, to, readAt, counted>>
    BY <1>4 DEF Reading!Find, Reading!Goto
  <2>2. \A q \in Requests : Knows(q)'
    BY <1>0, <2>1 DEF Knows
  <2> QED
    BY <1>0, <2>1, <2>2, RowsKept
<1>5. ASSUME NEW r \in Requests, Reading!FlipOne(r) PROVE ReadingInv' /\ ReadOnce
  <2>1. /\ reading[r] = "flip" /\ who[r] \in Users
        /\ Reading!Flippable(r) \in SUBSET Reading!Unread(who[r])
        /\ Reading!Flip(Reading!Flippable(r), who[r])
        /\ UNCHANGED <<to, now, who, note, shown>>
    BY <1>0, <1>5 DEF Reading!FlipOne, Reading!Flippable, Reading!Readable, Reading!Unread, Knows
  <2>2. \E l \in {"answer", "reread"} : reading' = [reading EXCEPT ![r] = l]
    BY <1>5 DEF Reading!FlipOne, Reading!Goto
  <2>3. /\ reading' \in [Requests -> {"idle", "flip", "reread", "answer"}]
        /\ \A q \in Requests : reading[q] = "idle" => reading'[q] = "idle"
    BY <1>0, <2>1, <2>2
  <2> QED
    BY <2>1, <2>3, RequestsKept
<1>6. ASSUME NEW r \in Requests, Reading!Reread(r) PROVE ReadingInv' /\ ReadOnce
  <2>1. /\ reading[r] = "reread" /\ reading' = [reading EXCEPT ![r] = "answer"]
        /\ shown' = [shown EXCEPT ![r] = readAt[note[r]]]
        /\ UNCHANGED <<now, to, readAt, who, note, counted>>
    BY <1>6 DEF Reading!Reread, Reading!Goto, Reading!Shows
  <2>2. \A q \in Requests : Knows(q)'
    BY <1>0, <2>1 DEF Knows
  <2>3. shown' \in [Requests -> 0 .. MaxTime]
    BY <1>0, <2>1 DEF Knows
  <2> QED
    BY <1>0, <2>1, <2>2, <2>3, RowsKept
<1>7. ASSUME NEW r \in Requests, Reading!Leave(r) PROVE ReadingInv' /\ ReadOnce
  <2>1. /\ reading' = [reading EXCEPT ![r] = "idle"] /\ who' = [who EXCEPT ![r] = NoUser]
        /\ note' = [note EXCEPT ![r] = NoNote] /\ shown' = [shown EXCEPT ![r] = 0]
        /\ UNCHANGED <<now, to, readAt, counted>>
    BY <1>7 DEF Reading!Leave, Reading!Goto
  <2>2. \A q \in Requests : Knows(q)'
    BY <1>0, <2>1 DEF Knows
  <2> QED
    BY <1>0, <2>1, <2>2, RowsKept
<1>8. CASE Reading!Tick
  BY <1>0, <1>8, RowsKept DEF Reading!Tick, Reading!reqVars, Knows
<1> QED
  BY <1>1, <1>2, <1>3, <1>4, <1>5, <1>6, <1>7, <1>8 DEF Reading!Next

LEMMA ReadingAlways == ClientsSpec => []ReadingInv /\ [][ReadOnce]_notifications
<1>1. ClientsInit => ReadingInv
  BY ReadingStarts DEF ClientsInit
<1>2. [ClientsNext]_all => [Reading!Next]_notifications
  BY DEF ClientsNext, all
<1>3. ReadingInv /\ [Reading!Next]_notifications => ReadingInv' /\ ReadOnce
  BY ReadingPreserved
<1> QED
  BY <1>1, <1>2, <1>3, PTL DEF ClientsSpec

\* Overlapping calls count a notification as read once between them.
THEOREM NoteCountedOnce == ClientsSpec => []CountedOnce
<1>1. ReadingInv => CountedOnce
  BY DEF ReadingInv
<1> QED
  BY <1>1, ReadingAlways, PTL

\* The time a notification was first read stays, and is the one that is shown.
THEOREM FirstTimeStays == ClientsSpec => FirstReadStays
<1>1. ReadOnce =>
      /\ \A n \in Notes : readAt[n] # 0 => readAt'[n] = readAt[n]
      /\ \A r \in Requests :
           (reading'[r] = "answer" /\ shown'[r] # 0) => shown'[r] = readAt'[note'[r]]
  BY DEF ReadOnce
<1>2. UNCHANGED notifications => UNCHANGED Reading!vars
  BY DEF notifications, Reading!vars, Reading!reqVars
<1> QED
  BY <1>1, <1>2, ReadingAlways, PTL DEF FirstReadStays, Reading!FirstReadStays

-----------------------------------------------------------------------------
(* Pagination *)

\* Whether a comes before b in the order asked for.
Ahead(a, b) == Paging!Before(order, a, b)

LEMMA SameSize == \A S : Paging!Cardinality(S) = Cardinality(S)
BY Zenon DEF Paging!Cardinality, Cardinality

LEMMA TheTable ==
    /\ MaxRow \in Nat /\ Limit \in Nat \ {0}
    /\ Column \in [DOMAIN Column -> [1 .. MaxRow -> Int]]
    /\ Allowed \subseteq DOMAIN Column \union {"status"}
BY ClientsOK DEF Paging!ConstantsOK, Paging!Rows

LEMMA TheRows == Paging!Rows = 1 .. MaxRow
BY DEF Paging!Rows

Rank(n) == Paging!Value(order.field, n)

LEMMA Ranked == Paging!TypeOK => \A n \in 1 .. MaxRow : Rank(n) \in Int
BY TheTable, TheRows DEF Paging!TypeOK, Rank, Paging!Value

LEMMA AheadIs ==
    \A a, b : Ahead(a, b) <=> \/ IF order.desc THEN Rank(a) > Rank(b) ELSE Rank(a) < Rank(b)
                              \/ Rank(a) = Rank(b) /\ a > b
BY DEF Ahead, Rank, Paging!Before, Paging!BeforeByField

\* The orderBy leaves no ties.
LEMMA StrictOrder ==
  ASSUME Paging!TypeOK
  PROVE  /\ \A a, b \in 1 .. MaxRow : a # b => Ahead(a, b) \/ Ahead(b, a)
         /\ \A a, b \in 1 .. MaxRow : Ahead(a, b) => ~Ahead(b, a)
         /\ \A a, b, c \in 1 .. MaxRow : Ahead(a, b) /\ Ahead(b, c) => Ahead(a, c)
<1>1. \A n \in 1 .. MaxRow : Rank(n) \in Int
  BY Ranked
<1>2. \A a, b \in 1 .. MaxRow : a # b => Ahead(a, b) \/ Ahead(b, a)
  BY <1>1, TheTable, AheadIs
<1>3. \A a, b \in 1 .. MaxRow : Ahead(a, b) => ~Ahead(b, a)
  BY <1>1, TheTable, AheadIs
<1>4. \A a, b, c \in 1 .. MaxRow : Ahead(a, b) /\ Ahead(b, c) => Ahead(a, c)
  BY <1>1, TheTable, AheadIs
<1> QED
  BY <1>2, <1>3, <1>4

\* s is the rows of S by the orderBy.
Sorted(s, S) ==
    /\ s \in [1 .. Cardinality(S) -> S]
    /\ \A i, j \in 1 .. Cardinality(S) : i < j => s[i] # s[j] /\ ~Ahead(s[j], s[i])

\* Any set of rows can be listed in order: a row's place is how many are ahead.
LEMMA CanBeListed ==
  ASSUME Paging!TypeOK, NEW S \in SUBSET (1 .. MaxRow)
  PROVE  /\ IsFiniteSet(S) /\ Cardinality(S) \in Nat
         /\ \E s : Sorted(s, S)
<1>0. \A T \in SUBSET S : IsFiniteSet(T) /\ Cardinality(T) \in Nat
  <2>1. IsFiniteSet(1 .. MaxRow)
    BY TheTable, FS_Interval
  <2>2. IsFiniteSet(S)
    BY <2>1, FS_Subset
  <2>3. \A T \in SUBSET S : IsFiniteSet(T)
    BY <2>2, FS_Subset
  <2> QED
    BY <2>3, FS_CardinalityType
<1> DEFINE n == Cardinality(S)
           First(x) == {y \in S : Ahead(y, x)}
           place == [x \in S |-> 1 + Cardinality(First(x))]
<1>1. n \in Nat /\ IsFiniteSet(S) /\ \A x : IsFiniteSet(First(x)) /\ Cardinality(First(x)) \in Nat
  BY <1>0
<1>2. ASSUME NEW x \in S PROVE place[x] \in 1 .. n
  <2>1. x \notin First(x)
    BY StrictOrder
  <2>2. Cardinality(S \ {x}) = n - 1
    BY <1>1, FS_RemoveElement
  <2>3. Cardinality(First(x)) <= n - 1
    BY <1>0, <2>1, <2>2, FS_Subset
  <2> QED
    BY <1>1, <2>3
<1>3. ASSUME NEW x \in S, NEW y \in S, Ahead(x, y) PROVE place[x] < place[y]
  <2>1. First(x) \union {x} \subseteq First(y) /\ x \notin First(x)
    BY <1>3, StrictOrder
  <2>2. Cardinality(First(x) \union {x}) = Cardinality(First(x)) + 1
    BY <1>1, <2>1, FS_AddElement
  <2>3. Cardinality(First(x) \union {x}) <= Cardinality(First(y))
    BY <1>1, <2>1, FS_Subset
  <2> QED
    BY <1>1, <2>2, <2>3
<1>4. place \in Injection(S, 1 .. n)
  <2>1. place \in [S -> 1 .. n]
    BY <1>2
  <2> HIDE DEF place
  <2>2. \A x, y \in S : place[x] = place[y] => x = y
    <3> SUFFICES ASSUME NEW x \in S, NEW y \in S, x # y PROVE place[x] # place[y]
      OBVIOUS
    <3>1. Ahead(x, y) \/ Ahead(y, x)
      BY StrictOrder
    <3>2. place[x] < place[y] \/ place[y] < place[x]
      BY <1>3, <3>1
    <3> QED
      BY <2>1, <3>2
  <2> QED
    BY <2>1, <2>2 DEF Injection, IsInjective
<1>5. place \in Surjection(S, 1 .. n)
  <2>1. IsFiniteSet(1 .. n) /\ Cardinality(1 .. n) = n
    BY <1>1, FS_Interval
  <2> HIDE DEF place
  <2> QED
    BY <1>4, <2>1, FS_Injection
<1> DEFINE s == [i \in 1 .. n |-> CHOOSE x \in S : place[x] = i]
<1> HIDE DEF place
<1>6. \A i \in 1 .. n : \E x \in S : place[x] = i
  BY <1>5 DEF Surjection
<1>7. \A i \in 1 .. n : s[i] \in S /\ place[s[i]] = i
  BY <1>6
<1>8. ASSUME NEW i \in 1 .. n, NEW j \in 1 .. n, i < j PROVE s[i] # s[j] /\ ~Ahead(s[j], s[i])
  <2>1. /\ place[s[i]] = i /\ place[s[j]] = j /\ s[i] \in S /\ s[j] \in S
    BY <1>7
  <2> HIDE DEF s
  <2>2. ~(j < i)
    BY <1>8
  <2> QED
    BY <1>3, <1>8, <2>1, <2>2
<1>9. s \in [1 .. n -> S]
  BY <1>7
<1> HIDE DEF s
<1>10. Sorted(s, S)
  BY <1>8, <1>9 DEF Sorted
<1> QED
  BY <1>1, <1>10

\* So the listing that is chosen is one.
LEMMA IsListed ==
  ASSUME Paging!TypeOK, NEW S \in SUBSET (1 .. MaxRow)
  PROVE  Sorted(Paging!InOrder(S), S)
<1>1. PICK t : Sorted(t, S)
  BY CanBeListed
<1> DEFINE Good(s) == \A i, j \in DOMAIN s : i < j => s[i] # s[j] /\ ~Paging!Before(order, s[j], s[i])
<1>2. t \in [1 .. Cardinality(S) -> S] /\ Good(t)
  BY <1>1 DEF Sorted, Ahead
<1>3. Paging!InOrder(S) = CHOOSE s \in [1 .. Cardinality(S) -> S] : Good(s)
  BY SameSize DEF Paging!InOrder
<1> DEFINE u == CHOOSE s \in [1 .. Cardinality(S) -> S] : Good(s)
<1>4. u \in [1 .. Cardinality(S) -> S] /\ Good(u)
  <2> HIDE DEF Good
  <2> QED
    BY <1>2, Zenon
<1> HIDE DEF u
<1>5. Sorted(u, S)
  BY <1>4 DEF Sorted, Ahead
<1> QED
  BY <1>3, <1>5 DEF u

\* A listing has every row of its set, once, and puts a before b exactly when a
\* is ahead.
LEMMA Listing ==
  ASSUME Paging!TypeOK, NEW S \in SUBSET (1 .. MaxRow), NEW s, Sorted(s, S)
  PROVE  /\ Cardinality(S) \in Nat
         /\ \A x \in S : \E i \in 1 .. Cardinality(S) : s[i] = x
         /\ \A i, j \in 1 .. Cardinality(S) : i < j <=> Ahead(s[i], s[j])
<1> DEFINE n == Cardinality(S)
<1>1. n \in Nat /\ IsFiniteSet(S) /\ IsFiniteSet(1 .. n) /\ Cardinality(1 .. n) = n
  <2>1. n \in Nat /\ IsFiniteSet(S)
    BY CanBeListed
  <2> QED
    BY <2>1, FS_Interval
<1>2. \A i, j \in 1 .. n : i < j => s[i] # s[j] /\ ~Ahead(s[j], s[i])
  BY DEF Sorted
<1>3. \A i \in 1 .. n : s[i] \in S /\ s[i] \in 1 .. MaxRow
  BY DEF Sorted
<1>4. \A i, j \in 1 .. n : s[i] = s[j] => i = j
  BY <1>1, <1>2
<1>5. s \in Injection(1 .. n, S)
  BY <1>4 DEF Sorted, Injection, IsInjective
<1>6. s \in Surjection(1 .. n, S)
  BY <1>1, <1>5, FS_Injection
<1>7. \A x \in S : \E i \in 1 .. n : s[i] = x
  BY <1>6 DEF Surjection
<1>8. ASSUME NEW i \in 1 .. n, NEW j \in 1 .. n PROVE i < j <=> Ahead(s[i], s[j])
  <2>1. s[i] \in 1 .. MaxRow /\ s[j] \in 1 .. MaxRow
    BY <1>3
  <2>2. CASE i < j
    BY <1>2, <2>1, <2>2, StrictOrder
  <2>3. CASE i = j
    BY <1>1, <2>1, <2>3, StrictOrder
  <2>4. CASE j < i
    BY <1>1, <1>2, <2>1, <2>4, StrictOrder
  <2> QED
    BY <1>1, <2>2, <2>3, <2>4
<1> QED
  BY <1>1, <1>7, <1>8

\* The rows that a page after c has still to show.
Rest(c) == {n \in Paging!Matching : c = 0 \/ Ahead(c, n)}

LEMMA Matched ==
  ASSUME Paging!TypeOK PROVE Paging!Matching \subseteq Paging!Present /\ Paging!Present \subseteq 1 .. MaxRow
BY TheTable, TheRows DEF Paging!TypeOK, Paging!Matching, Paging!Present

\* What findMany finds is the rest, in order.
LEMMA FoundRest ==
  ASSUME Paging!TypeOK, NEW c \in {0} \union Paging!Matching
  PROVE  LET f == Paging!Found(c)
         IN  /\ f \in Seq(1 .. MaxRow)
             /\ \A x : x \in Rest(c) <=> \E i \in 1 .. Len(f) : f[i] = x
             /\ \A i, j \in 1 .. Len(f) : i < j <=> Ahead(f[i], f[j])
<1> DEFINE from == IF c = 0 THEN Paging!Matching ELSE {n \in Paging!Matching : ~Ahead(n, c)}
           s == Paging!InOrder(from)
           n == Cardinality(from)
           k == IF c = 0 THEN 0 ELSE 1
<1>1. from \in SUBSET (1 .. MaxRow)
  BY Matched
<1>2. Paging!Found(c) = SubSeq(s, 1 + k, Len(s))
  BY Matched DEF Paging!Found, Paging!NoCursor, Paging!Skip, Ahead
<1> HIDE DEF from
<1>3. Sorted(s, from)
  BY <1>1, IsListed
<1> HIDE DEF s
<1>4. n \in Nat /\ s \in [1 .. n -> from]
  BY <1>1, <1>3, Listing DEF Sorted
<1>5. s \in Seq(1 .. MaxRow) /\ Len(s) = n
  <2>1. s \in [1 .. n -> 1 .. MaxRow]
    BY <1>1, <1>4
  <2>2. s \in Seq(1 .. MaxRow)
    BY <1>4, <2>1, SeqDef
  <2>3. DOMAIN s = 1 .. Len(s) /\ Len(s) \in Nat /\ DOMAIN s = 1 .. n
    BY <2>1, <2>2, LenProperties
  <2>4. Len(s) = n
    BY <1>4, <2>3
  <2> QED
    BY <2>2, <2>4
<1>6. c # 0 => n >= 1 /\ s[1] = c
  <2> SUFFICES ASSUME c # 0 PROVE n >= 1 /\ s[1] = c
    OBVIOUS
  <2>1. c \in from
    BY Matched, StrictOrder DEF from
  <2>2. PICK i \in 1 .. n : s[i] = c
    BY <1>1, <1>3, <2>1, Listing
  <2>3. CASE i = 1
    BY <1>4, <2>2, <2>3
  <2>4. CASE 1 < i
    <3>1. 1 \in 1 .. n
      BY <1>4
    <3>2. Ahead(s[1], s[i])
      BY <1>1, <1>3, <2>4, <3>1, Listing
    <3>3. ~Ahead(s[1], c)
      BY <1>4, <3>1 DEF from
    <3> QED
      BY <2>2, <3>2, <3>3
  <2> QED
    BY <1>4, <2>3, <2>4
<1> DEFINE f == SubSeq(s, 1 + k, n)
<1>7. /\ f \in Seq(1 .. MaxRow) /\ Len(f) = n - k
      /\ \A i \in 1 .. n - k : f[i] = s[i + k]
  <2>2. k \in {0, 1} /\ k <= n
    BY <1>4, <1>6
  <2> HIDE DEF k
  <2>1. \A i \in 1 + k .. n : s[i] \in 1 .. MaxRow
    <3>1. \A i \in 1 .. n : s[i] \in 1 .. MaxRow
      BY <1>1, <1>4
    <3> QED
      BY <1>4, <2>2, <3>1
  <2>3. /\ f \in Seq(1 .. MaxRow) /\ Len(f) = IF 1 + k <= n THEN n - (1 + k) + 1 ELSE 0
        /\ \A i \in 1 .. n - (1 + k) + 1 : f[i] = s[(1 + k) + i - 1]
    BY <1>4, <2>1, <2>2, SubSeqProperties
  <2> HIDE DEF f
  <2> QED
    BY <1>4, <2>2, <2>3
<1> HIDE DEF f
<1>8. \A i, j \in 1 .. Len(f) : i < j <=> Ahead(f[i], f[j])
  <2>1. ASSUME NEW i \in 1 .. Len(f), NEW j \in 1 .. Len(f) PROVE i < j <=> Ahead(f[i], f[j])
    <3>1. i + k \in 1 .. n /\ j + k \in 1 .. n /\ f[i] = s[i + k] /\ f[j] = s[j + k]
      BY <1>4, <1>6, <1>7
    <3>2. i + k < j + k <=> Ahead(s[i + k], s[j + k])
      BY <1>1, <1>3, <3>1, Listing
    <3> QED
      BY <1>4, <1>7, <3>1, <3>2
  <2> QED
    BY <2>1
<1>9. ASSUME NEW x \in Rest(c) PROVE \E i \in 1 .. Len(f) : f[i] = x
  <2>1. x \in from /\ x # c /\ x \in 1 .. MaxRow
    BY Matched, StrictOrder DEF Rest, from
  <2>2. PICK i \in 1 .. n : s[i] = x
    BY <1>1, <1>3, <2>1, Listing
  <2>3. i - k \in 1 .. Len(f) /\ f[i - k] = s[i]
    BY <1>4, <1>6, <1>7, <2>1, <2>2
  <2> QED
    BY <2>2, <2>3
<1>10. ASSUME NEW i \in 1 .. Len(f) PROVE f[i] \in Rest(c)
  <2>0. i + k \in 1 .. n /\ f[i] = s[i + k]
    BY <1>4, <1>6, <1>7
  <2>1. i + k \in 1 .. n /\ f[i] = s[i + k] /\ f[i] \in from
    <3> HIDE DEF k
    <3> QED
      BY <1>4, <2>0
  <2>2. CASE c = 0
    BY <2>1, <2>2 DEF Rest, from
  <2>3. CASE c # 0
    <3>1. 1 < i + k /\ 1 \in 1 .. n /\ s[1] = c
      BY <1>4, <1>6, <1>7, <2>3
    <3>2. Ahead(s[1], s[i + k])
      BY <1>1, <1>3, <2>1, <3>1, Listing
    <3> QED
      BY <2>1, <2>3, <3>1, <3>2 DEF Rest, from
  <2> QED
    BY <2>2, <2>3
<1>11. Paging!Found(c) = f
  BY <1>2, <1>5 DEF f
<1> QED
  BY <1>7, <1>8, <1>9, <1>10, <1>11

\* A page shows what comes next of the rest, and says whether that was all.
LEMMA PageIs ==
  ASSUME Paging!TypeOK, NEW c \in {0} \union Paging!Matching
  PROVE  LET page == Paging!Page(c)
             items == page.items
         IN  /\ items \in Seq(1 .. MaxRow) /\ page.hasMore \in BOOLEAN
             /\ \A i, j \in 1 .. Len(items) : items[i] = items[j] => i = j
             /\ \A i \in 1 .. Len(items) : items[i] \in Rest(c)
             /\ ~page.hasMore => \A x \in Rest(c) : \E i \in 1 .. Len(items) : items[i] = x
             /\ page.hasMore =>
                   /\ Len(items) >= 1
                   /\ \A x \in Rest(c) : (\E i \in 1 .. Len(items) : items[i] = x)
                                          <=> ~Ahead(items[Len(items)], x)
<1> DEFINE f == Paging!Found(c)
           m == Len(f)
           a == IF Limit + 1 <= m THEN Limit + 1 ELSE m
           rows == SubSeq(f, 1, a)
           b == IF Limit <= a THEN Limit ELSE a
           items == SubSeq(rows, 1, b)
<1>1. /\ f \in Seq(1 .. MaxRow)
      /\ \A x : x \in Rest(c) <=> \E i \in 1 .. m : f[i] = x
      /\ \A i, j \in 1 .. m : i < j <=> Ahead(f[i], f[j])
  BY FoundRest
<1> HIDE DEF f
<1>2. m \in Nat /\ f \in [1 .. m -> 1 .. MaxRow] /\ Limit \in Nat \ {0}
  BY <1>1, LenProperties, TheTable
<1> HIDE DEF m
<1>3. a \in Nat /\ a <= m
  BY <1>2
<1>4. /\ rows \in Seq(1 .. MaxRow) /\ Len(rows) = a
      /\ \A i \in 1 .. a : rows[i] = f[i]
  <2> HIDE DEF a
  <2>1. \A i \in 1 .. a : f[i] \in 1 .. MaxRow
    BY <1>2, <1>3
  <2>2. /\ rows \in Seq(1 .. MaxRow) /\ Len(rows) = IF 1 <= a THEN a - 1 + 1 ELSE 0
        /\ \A i \in 1 .. a - 1 + 1 : rows[i] = f[1 + i - 1]
    BY <1>3, <2>1, SubSeqProperties
  <2> HIDE DEF rows
  <2> QED
    BY <1>3, <2>2
<1> HIDE DEF rows
<1>5. b \in Nat /\ b <= a /\ (a > Limit <=> m > Limit) /\ (a > Limit => b = Limit)
      /\ (~(a > Limit) => b = m)
  BY <1>2
<1>6. /\ items \in Seq(1 .. MaxRow) /\ Len(items) = b
      /\ \A i \in 1 .. b : items[i] = f[i]
  <2> HIDE DEF a, b
  <2>1. \A i \in 1 .. b : rows[i] \in 1 .. MaxRow /\ rows[i] = f[i]
    BY <1>2, <1>3, <1>4, <1>5
  <2>2. /\ items \in Seq(1 .. MaxRow) /\ Len(items) = IF 1 <= b THEN b - 1 + 1 ELSE 0
        /\ \A i \in 1 .. b - 1 + 1 : items[i] = rows[1 + i - 1]
    BY <1>5, <2>1, SubSeqProperties
  <2> HIDE DEF items
  <2> QED
    BY <1>5, <2>1, <2>2
<1>7. Paging!Page(c) = [items |-> items, hasMore |-> a > Limit]
  BY <1>4 DEF Paging!Page, Paging!FirstOf, Paging!Take, rows, f, m
<1> HIDE DEF items, a, b
<1>8. \A i, j \in 1 .. Len(items) : items[i] = items[j] => i = j
  <2>1. ASSUME NEW i \in 1 .. b, NEW j \in 1 .. b, f[i] = f[j] PROVE i = j
    <3>1. i \in 1 .. m /\ j \in 1 .. m
      BY <1>2, <1>3, <1>5
    <3>2. f[i] \in 1 .. MaxRow
      BY <1>2, <3>1
    <3>3. ~Ahead(f[i], f[j]) /\ ~Ahead(f[j], f[i])
      BY <2>1, <3>2, StrictOrder
    <3>4. ~(i < j) /\ ~(j < i)
      BY <1>1, <3>1, <3>3
    <3> QED
      BY <3>1, <3>4, <1>2
  <2> QED
    BY <1>6, <2>1
<1>9. \A i \in 1 .. Len(items) : items[i] \in Rest(c)
  <2>1. \A i \in 1 .. b : i \in 1 .. m
    BY <1>2, <1>3, <1>5
  <2> QED
    BY <1>1, <1>6, <2>1
<1>10. ~(a > Limit) => \A x \in Rest(c) : \E i \in 1 .. Len(items) : items[i] = x
  BY <1>1, <1>5, <1>6
<1>11. ASSUME a > Limit PROVE Len(items) >= 1
  BY <1>2, <1>5, <1>6, <1>11
<1>12. ASSUME a > Limit, NEW x \in Rest(c)
       PROVE  (\E i \in 1 .. Len(items) : items[i] = x) <=> ~Ahead(items[Len(items)], x)
  <2>1. b \in 1 .. m /\ Len(items) = b /\ items[b] = f[b]
    BY <1>2, <1>3, <1>5, <1>6, <1>12
  <2>2. PICK j \in 1 .. m : f[j] = x
    BY <1>1
  <2>3. b < j <=> Ahead(f[b], x)
    BY <1>1, <2>1, <2>2
  <2>4. CASE j \in 1 .. b
    BY <1>2, <1>6, <2>1, <2>2, <2>3, <2>4
  <2>5. CASE b < j
    <3>1. ASSUME NEW i \in 1 .. b PROVE f[i] # x
      <4>1. i \in 1 .. m /\ i < j
        BY <1>2, <2>1, <2>2, <2>5
      <4>2. Ahead(f[i], f[j]) /\ f[j] \in 1 .. MaxRow
        BY <1>1, <1>2, <2>2, <4>1
      <4> QED
        BY <2>2, <4>2, StrictOrder
    <3> QED
      BY <1>6, <2>1, <2>3, <2>5, <3>1
  <2> QED
    BY <2>1, <2>2, <2>4, <2>5, <1>2
<1> DEFINE more == a > Limit
<1>13. more \in BOOLEAN
  OBVIOUS
<1> HIDE DEF more
<1>14. Paging!Page(c).items = items /\ Paging!Page(c).hasMore = more
  BY <1>7 DEF more
<1> QED
  BY <1>6, <1>8, <1>9, <1>10, <1>11, <1>12, <1>13, <1>14 DEF more

Times(n) == {i \in 1 .. Len(got) : got[i] = n}

\* What was shown of the rows that stay where they were: each at most once; with a
\* cursor that stays, those up to it; at the end, all.
ScanInv ==
    /\ Paging!TypeOK
    /\ stable \subseteq Paging!Matching
    /\ scanning = "idle" => got = <<>> /\ cursor = 0
    /\ scanning = "scan" /\ cursor = 0 => got = <<>>
    /\ ~disturbed =>
        /\ \A n \in stable : \A i, j \in Times(n) : i = j
        /\ scanning = "scan" /\ cursor \in stable =>
              \A n \in stable : Times(n) # {} <=> ~Ahead(cursor, n)
        /\ scanning = "end" => \A n \in stable : Times(n) # {}

LEMMA GotIs == Paging!TypeOK => got \in Seq(1 .. MaxRow) /\ Len(got) \in Nat /\ DOMAIN got = 1 .. Len(got)
BY TheRows, LenProperties DEF Paging!TypeOK

LEMMA ScanStarts == Paging!Init => ScanInv
<1> SUFFICES ASSUME Paging!Init PROVE ScanInv
  OBVIOUS
<1>1. Paging!TypeOK
  <2>1. /\ made \in 0 .. MaxRow /\ gone = {} /\ read = {} /\ stable = {}
        /\ status \in [Paging!Rows -> {0, 1}] /\ scanning = "idle"
        /\ cursor \in Paging!Rows \union {Paging!NoCursor}
    BY DEF Paging!Init
  <2>2. order \in Sorts \union {Paging!Fallback} /\ order.field \in Allowed
    BY ClientsOK DEF Paging!Init, Paging!Fallback, Paging!ConstantsOK
  <2>3. unreadOnly \in BOOLEAN /\ disturbed \in BOOLEAN
    BY Zenon DEF Paging!Init
  <2>4. got \in Seq(Paging!Rows)
    BY DEF Paging!Init
  <2> QED
    BY <2>1, <2>2, <2>3, <2>4, Zenon DEF Paging!TypeOK
<1>2. stable = {} /\ scanning = "idle" /\ got = <<>> /\ cursor = 0
  BY DEF Paging!Init, Paging!NoCursor
<1> QED
  BY <1>1, <1>2 DEF ScanInv

\* A step of others that leaves the scan alone: what it touches is no longer stable.
LEMMA ScanKept ==
  ASSUME ScanInv, Paging!TypeOK', UNCHANGED <<order, got, scanning, cursor, disturbed>>,
         stable' \subseteq stable, stable' \subseteq Paging!Matching',
         \A n \in stable' : Rank(n)' = Rank(n)
  PROVE  ScanInv'
<1>1. \A n : Times(n)' = Times(n)
  BY DEF Times
<1>2. \A a, b \in stable' : Ahead(a, b)' <=> Ahead(a, b)
  BY DEF Ahead, Rank, Paging!Before, Paging!BeforeByField
<1>3. ASSUME ~disturbed' PROVE /\ \A n \in stable' : \A i, j \in Times(n)' : i = j
                               /\ scanning' = "end" => \A n \in stable' : Times(n)' # {}
  BY <1>1, <1>3 DEF ScanInv
<1>4. ASSUME ~disturbed', scanning' = "scan", cursor' \in stable', NEW n \in stable'
      PROVE  Times(n)' # {} <=> ~Ahead(cursor, n)'
  BY <1>1, <1>2, <1>4 DEF ScanInv
<1>5. /\ scanning' = "idle" => got' = <<>> /\ cursor' = 0
      /\ scanning' = "scan" /\ cursor' = 0 => got' = <<>>
  BY DEF ScanInv
<1> QED
  BY <1>3, <1>4, <1>5 DEF ScanInv

LEMMA PageTyped ==
  ASSUME Paging!TypeOK, NEW c \in 0 .. MaxRow
  PROVE  LET page == Paging!Page(c)
         IN  /\ page.items \in Seq(1 .. MaxRow)
             /\ page.hasMore \in BOOLEAN
             /\ page.hasMore => Len(page.items) >= 1
<1> DEFINE from == IF c = 0 THEN Paging!Matching
                   ELSE IF c \in Paging!Present THEN {n \in Paging!Matching : ~Ahead(n, c)}
                   ELSE {}
           s == Paging!InOrder(from)
           f == SubSeq(s, 1 + Paging!Skip(c), Len(s))
<1>1. from \in SUBSET (1 .. MaxRow) /\ Paging!Found(c) = f
  BY Matched DEF Paging!Found, Paging!NoCursor, Ahead
<1> HIDE DEF from
<1>2. s \in Seq(1 .. MaxRow)
  <2>1. Sorted(s, from) /\ Cardinality(from) \in Nat
    BY <1>1, IsListed, CanBeListed
  <2>2. s \in [1 .. Cardinality(from) -> 1 .. MaxRow]
    BY <1>1, <2>1 DEF Sorted
  <2> QED
    BY <2>1, <2>2, SeqDef
<1> HIDE DEF s
<1>3. f \in Seq(1 .. MaxRow)
  <2>1. Len(s) \in Nat /\ \A i \in 1 .. Len(s) : s[i] \in 1 .. MaxRow
    BY <1>2, LenProperties
  <2> DEFINE m == 1 + Paging!Skip(c)
  <2>2. m \in Int /\ m >= 1
    BY DEF Paging!Skip
  <2> HIDE DEF m
  <2>3. \A i \in m .. Len(s) : s[i] \in 1 .. MaxRow
    BY <2>1, <2>2
  <2>4. SubSeq(s, m, Len(s)) \in Seq(1 .. MaxRow)
    BY <2>1, <2>2, <2>3, SubSeqProperties
  <2> QED
    BY <2>4 DEF m
<1> HIDE DEF f
<1> DEFINE rows == SubSeq(f, 1, IF Limit + 1 <= Len(f) THEN Limit + 1 ELSE Len(f))
           items == SubSeq(rows, 1, IF Limit <= Len(rows) THEN Limit ELSE Len(rows))
           more == Len(rows) > Limit
<1>4. Paging!Page(c) = [items |-> items, hasMore |-> more]
  BY <1>1 DEF Paging!Page, Paging!FirstOf, Paging!Take
<1>5. rows \in Seq(1 .. MaxRow)
  BY <1>3, TheTable
<1> HIDE DEF rows
<1>6. items \in Seq(1 .. MaxRow) /\ (more => Len(items) >= 1)
  BY <1>5, TheTable
<1>7. more \in BOOLEAN
  OBVIOUS
<1> HIDE DEF items, more
<1>8. Paging!Page(c).items = items /\ Paging!Page(c).hasMore = more
  BY <1>4
<1> QED
  BY <1>6, <1>7, <1>8

LEMMA FetchPreserves == ScanInv /\ Paging!Fetch => ScanInv'
<1> SUFFICES ASSUME ScanInv, Paging!Fetch PROVE ScanInv'
  OBVIOUS
<1> DEFINE page == Paging!Page(cursor)
           items == page.items
           more == page.hasMore
<1>0. Paging!TypeOK /\ cursor \in 0 .. MaxRow
  BY TheTable, TheRows DEF ScanInv, Paging!TypeOK, Paging!NoCursor
<1>1. /\ scanning = "scan" /\ got' = got \o items
      /\ cursor' = IF more THEN items[Len(items)] ELSE 0
      /\ scanning' = IF more THEN "scan" ELSE "end"
      /\ disturbed' = (disturbed \/ (cursor # 0 /\ cursor \notin stable))
      /\ UNCHANGED <<made, gone, read, status, order, unreadOnly, stable>>
  BY DEF Paging!Fetch, Paging!tableVars, Paging!NoCursor
<1>2. items \in Seq(1 .. MaxRow) /\ more \in BOOLEAN /\ (more => Len(items) >= 1)
  BY <1>0, PageTyped
<1> HIDE DEF page
<1>3. Len(items) \in Nat /\ \A i \in 1 .. Len(items) : items[i] \in 1 .. MaxRow
  BY <1>2, LenProperties
<1>4. cursor' \in 0 .. MaxRow /\ (more => cursor' \in 1 .. MaxRow)
  BY <1>1, <1>2, <1>3, TheTable
<1>5. /\ got' \in Seq(1 .. MaxRow) /\ Len(got') = Len(got) + Len(items) /\ Len(got) \in Nat
      /\ \A i \in 1 .. Len(got') : got'[i] = IF i <= Len(got) THEN got[i] ELSE items[i - Len(got)]
  BY <1>0, <1>1, <1>2, GotIs, ConcatProperties
<1>6. Paging!TypeOK'
  <2>1. disturbed' \in BOOLEAN
    BY <1>0, <1>1 DEF Paging!TypeOK
  <2>2. cursor' \in Paging!Rows \union {Paging!NoCursor} /\ got' \in Seq(Paging!Rows)
    BY <1>4, <1>5, TheTable, TheRows DEF Paging!NoCursor
  <2>3. scanning' \in {"idle", "scan", "end"}
    BY <1>1
  <2>4. /\ made' \in 0 .. MaxRow
        /\ gone' \in SUBSET Paging!Rows /\ read' \in SUBSET Paging!Rows
        /\ status' \in [Paging!Rows -> {0, 1}]
        /\ order' \in Sorts \union {Paging!Fallback} /\ order'.field \in Allowed
        /\ unreadOnly' \in BOOLEAN /\ stable' \in SUBSET Paging!Rows
    BY <1>0, <1>1 DEF Paging!TypeOK, Paging!Fallback
  <2> QED
    BY <2>1, <2>2, <2>3, <2>4 DEF Paging!TypeOK, Paging!Fallback
<1>7. stable' \subseteq Paging!Matching'
  BY <1>1 DEF ScanInv, Paging!Matching, Paging!Present
<1>8. \A a, b : Ahead(a, b)' <=> Ahead(a, b)
  BY <1>1 DEF Ahead, Paging!Before, Paging!BeforeByField, Paging!Value
<1>9. ASSUME ~disturbed'
      PROVE  /\ \A n \in stable : \A i, j \in Times(n)' : i = j
             /\ scanning' = "scan" /\ cursor' \in stable =>
                   \A n \in stable : Times(n)' # {} <=> ~Ahead(cursor', n)
             /\ scanning' = "end" => \A n \in stable : Times(n)' # {}
  <2>1. ~disturbed /\ (cursor = 0 \/ cursor \in stable)
    BY <1>1, <1>9
  <2>2. cursor \in {0} \union Paging!Matching
    BY <2>1 DEF ScanInv
  <2>3. /\ \A i, j \in 1 .. Len(items) : items[i] = items[j] => i = j
        /\ \A i \in 1 .. Len(items) : items[i] \in Rest(cursor)
        /\ ~more => \A x \in Rest(cursor) : \E i \in 1 .. Len(items) : items[i] = x
        /\ more => \A x \in Rest(cursor) : (\E i \in 1 .. Len(items) : items[i] = x)
                                              <=> ~Ahead(items[Len(items)], x)
    BY <1>0, <2>2, PageIs DEF page
  <2> DEFINE Shown(n) == \E i \in 1 .. Len(items) : items[i] = n
  <2>4. ASSUME NEW n \in stable
        PROVE  /\ Times(n) # {} <=> n \notin Rest(cursor)
               /\ \A i, j \in Times(n) : i = j
    <3>1. \A i, j \in Times(n) : i = j
      BY <2>1 DEF ScanInv
    <3>2. CASE cursor = 0
      <4>1. got = <<>>
        BY <1>1, <3>2 DEF ScanInv
      <4>2. Times(n) = {}
        BY <4>1 DEF Times
      <4> QED
        BY <3>1, <3>2, <4>2 DEF ScanInv, Rest
    <3>3. CASE cursor # 0
      BY <1>1, <2>1, <3>1, <3>3 DEF ScanInv, Rest
    <3> QED
      BY <3>2, <3>3
  <2>5. ASSUME NEW n \in stable PROVE Times(n)' # {} <=> Times(n) # {} \/ Shown(n)
    <3>1. ASSUME NEW i \in Times(n) PROVE i \in Times(n)'
      BY <1>5, <3>1 DEF Times
    <3>2. ASSUME NEW i \in 1 .. Len(items), items[i] = n PROVE i + Len(got) \in Times(n)'
      BY <1>3, <1>5, <3>2 DEF Times
    <3>3. ASSUME NEW i \in Times(n)' PROVE i \in Times(n) \/ Shown(n)
      <4>1. CASE i <= Len(got)
        BY <1>5, <3>3, <4>1 DEF Times
      <4>2. CASE i > Len(got)
        <5>1. i - Len(got) \in 1 .. Len(items) /\ items[i - Len(got)] = n
          BY <1>3, <1>5, <3>3, <4>2 DEF Times
        <5> QED
          BY <5>1
      <4> QED
        BY <1>5, <3>3, <4>1, <4>2 DEF Times
    <3> QED
      BY <3>1, <3>2, <3>3
  <2>6. ASSUME NEW n \in stable, NEW i \in Times(n)', NEW j \in Times(n)' PROVE i = j
    <3>1. /\ i \in 1 .. Len(got') /\ j \in 1 .. Len(got') /\ got'[i] = n /\ got'[j] = n
      BY DEF Times
    <3>2. ASSUME NEW k \in 1 .. Len(got'), got'[k] = n
          PROVE  \/ k \in Times(n) /\ n \notin Rest(cursor)
                 \/ k - Len(got) \in 1 .. Len(items) /\ items[k - Len(got)] = n /\ n \in Rest(cursor)
      <4>1. CASE k <= Len(got)
        BY <1>5, <2>4, <3>2, <4>1 DEF Times
      <4>2. CASE k > Len(got)
        <5>1. k - Len(got) \in 1 .. Len(items) /\ items[k - Len(got)] = n
          BY <1>3, <1>5, <3>2, <4>2
        <5> QED
          BY <2>3, <5>1
      <4> QED
        BY <1>5, <4>1, <4>2
    <3>3. CASE n \notin Rest(cursor)
      BY <2>4, <3>1, <3>2, <3>3
    <3>4. CASE n \in Rest(cursor)
      <4>1. i - Len(got) = j - Len(got)
        BY <2>3, <3>1, <3>2, <3>4
      <4> QED
        BY <1>5, <3>1, <4>1
    <3> QED
      BY <3>3, <3>4
  <2>7. ASSUME ~more, NEW n \in stable PROVE Times(n)' # {}
    BY <2>3, <2>4, <2>5, <2>7
  <2>8. ASSUME more, cursor' \in stable, NEW n \in stable
        PROVE  Times(n)' # {} <=> ~Ahead(cursor', n)
    <3>1. cursor' = items[Len(items)] /\ cursor' \in Rest(cursor)
      BY <1>1, <1>2, <1>3, <2>3, <2>8
    <3>2. CASE n \in Rest(cursor)
      BY <2>3, <2>4, <2>5, <2>8, <3>1, <3>2
    <3>3. CASE n \notin Rest(cursor)
      <4>1. n \in 1 .. MaxRow /\ n \in Paging!Matching
        BY <1>0, Matched DEF ScanInv
      <4>2. cursor # 0 /\ ~Ahead(cursor, n) /\ Ahead(cursor, cursor') /\ cursor \in 1 .. MaxRow
        BY <1>0, <3>1, <3>3, <4>1 DEF Rest
      <4>3. ~Ahead(cursor', n)
        BY <1>0, <1>4, <2>8, <4>1, <4>2, StrictOrder
      <4> QED
        BY <2>4, <2>5, <3>3, <4>3
    <3> QED
      BY <3>2, <3>3
  <2> QED
    BY <1>1, <2>6, <2>7, <2>8
<1>10. ASSUME ~disturbed', scanning' = "scan", cursor' \in stable, NEW n \in stable
       PROVE  Times(n)' # {} <=> ~Ahead(cursor, n)'
  <2>1. Ahead(cursor, n)' <=> Ahead(cursor', n)
    BY <1>1 DEF Ahead, Paging!Before, Paging!BeforeByField, Paging!Value
  <2> QED
    BY <1>9, <1>10, <2>1
<1>11. scanning' # "idle" /\ (scanning' = "scan" => cursor' # 0)
  BY <1>1, <1>2, <1>4
<1> QED
  BY <1>1, <1>6, <1>7, <1>9, <1>10, <1>11 DEF ScanInv

\* A row that changes is no longer stable.
LEMMA RowsChange ==
  ASSUME ScanInv, NEW n \in 1 .. MaxRow, UNCHANGED <<order, unreadOnly, got, scanning, cursor, disturbed>>,
         stable' = stable \ {n}, made' \in made .. MaxRow,
         gone' \in {gone, gone \union {n}}, read' \in {read, read \union {n}},
         status' \in {status, [status EXCEPT ![n] = 1]}
  PROVE  ScanInv'
<1>1. /\ made \in 0 .. MaxRow /\ gone \in SUBSET Paging!Rows /\ read \in SUBSET Paging!Rows
      /\ status \in [Paging!Rows -> {0, 1}] /\ stable \in SUBSET (1 .. MaxRow)
      /\ order \in Sorts \union {Paging!Fallback} /\ order.field \in Allowed
  BY TheRows DEF ScanInv, Paging!TypeOK
<1>2. Paging!TypeOK'
  <2>1. /\ made' \in 0 .. MaxRow /\ gone' \in SUBSET Paging!Rows /\ read' \in SUBSET Paging!Rows
        /\ stable' \in SUBSET Paging!Rows
    BY <1>1, TheTable, TheRows
  <2>2. status' \in [Paging!Rows -> {0, 1}]
    BY <1>1, TheRows
  <2>3. /\ order' \in Sorts \union {Paging!Fallback} /\ order'.field \in Allowed
        /\ unreadOnly' \in BOOLEAN /\ cursor' \in Paging!Rows \union {Paging!NoCursor}
        /\ got' \in Seq(Paging!Rows) /\ scanning' \in {"idle", "scan", "end"} /\ disturbed' \in BOOLEAN
    BY Zenon DEF ScanInv, Paging!TypeOK, Paging!NoCursor, Paging!Rows
  <2> QED
    BY <2>1, <2>2, <2>3, Zenon DEF Paging!TypeOK
<1>3. stable' \subseteq Paging!Matching'
  BY <1>1, TheTable DEF ScanInv, Paging!Matching, Paging!Present
<1>4. \A m \in stable' : Rank(m)' = Rank(m)
  <2>1. \A m \in stable' : status'[m] = status[m]
    BY <1>1, TheRows
  <2> QED
    BY <2>1 DEF Rank, Paging!Value
<1> QED
  BY <1>2, <1>3, <1>4, ScanKept

LEMMA ScanPreserved == ScanInv /\ [Paging!Next]_scan => ScanInv'
<1> SUFFICES ASSUME ScanInv, [Paging!Next]_scan PROVE ScanInv'
  OBVIOUS
<1>0. /\ made \in 0 .. MaxRow /\ gone \in SUBSET (1 .. MaxRow) /\ read \in SUBSET (1 .. MaxRow)
      /\ stable \in SUBSET (1 .. MaxRow) /\ MaxRow \in Nat
  BY TheTable, TheRows DEF ScanInv, Paging!TypeOK
<1> USE DEF Paging!tableVars, Paging!scanVars
<1>1. CASE UNCHANGED scan
  <2>1. /\ UNCHANGED <<made, gone, read, status, order, unreadOnly, cursor, got, scanning, stable, disturbed>>
        /\ Paging!TypeOK /\ stable \subseteq Paging!Matching
    BY <1>1 DEF scan, ScanInv
  <2>2. Paging!TypeOK'
    BY <2>1, Zenon DEF Paging!TypeOK, Paging!Fallback, Paging!Rows, Paging!NoCursor
  <2>3. stable' \subseteq Paging!Matching'
    BY <2>1 DEF Paging!Matching, Paging!Present
  <2>4. \A n : Rank(n)' = Rank(n)
    BY <2>1 DEF Rank, Paging!Value
  <2> QED
    BY <2>1, <2>2, <2>3, <2>4, ScanKept
<1>2. ASSUME NEW s \in Sorts, NEW u \in BOOLEAN, Paging!Begin(s, u) PROVE ScanInv'
  <2>1. /\ scanning = "idle" /\ order' = Paging!parseSort(s) /\ unreadOnly' = u /\ scanning' = "scan"
        /\ stable' = (IF u THEN Paging!Present \ read ELSE Paging!Present)
        /\ UNCHANGED <<made, gone, read, status, cursor, got, disturbed>>
    BY <1>2 DEF Paging!Begin
  <2>2. order' \in Sorts \union {Paging!Fallback} /\ order'.field \in Allowed
    BY <2>1, ClientsOK DEF Paging!parseSort, Paging!Fallback, Paging!ConstantsOK
  <2>3. stable' = Paging!Matching' /\ stable' \subseteq 1 .. MaxRow
    BY <1>0, <2>1 DEF Paging!Matching, Paging!Present
  <2>4. Paging!TypeOK'
    <3>1. /\ made' \in 0 .. MaxRow
          /\ gone' \in SUBSET Paging!Rows /\ read' \in SUBSET Paging!Rows
          /\ status' \in [Paging!Rows -> {0, 1}]
          /\ unreadOnly' \in BOOLEAN /\ cursor' \in Paging!Rows \union {Paging!NoCursor}
          /\ got' \in Seq(Paging!Rows) /\ scanning' \in {"idle", "scan", "end"}
          /\ disturbed' \in BOOLEAN
      BY <2>1, Zenon DEF ScanInv, Paging!TypeOK, Paging!Rows, Paging!NoCursor
    <3> QED
      BY <2>2, <2>3, <3>1, TheRows, Zenon DEF Paging!TypeOK, Paging!Fallback
  <2>5. got' = <<>> /\ cursor' = 0 /\ cursor' \notin stable' /\ scanning' = "scan"
    BY <2>1, <2>3 DEF ScanInv
  <2>6. \A n : Times(n)' = {}
    BY <2>5 DEF Times
  <2> QED
    BY <2>3, <2>4, <2>5, <2>6 DEF ScanInv
<1>3. CASE Paging!Fetch
  BY <1>3, FetchPreserves
<1>4. CASE Paging!Insert
  <2>1. /\ made' \in made .. MaxRow
        /\ UNCHANGED <<gone, read, status, order, unreadOnly, cursor, got, scanning, stable, disturbed>>
    BY <1>0, <1>4 DEF Paging!Insert
  <2>2. Paging!TypeOK'
    <3>1. made' \in 0 .. MaxRow
      BY <1>0, <2>1
    <3> QED
      BY <2>1, <3>1, Zenon DEF ScanInv, Paging!TypeOK, Paging!Fallback, Paging!Rows, Paging!NoCursor
  <2>3. stable' \subseteq Paging!Matching'
    BY <1>0, <2>1 DEF ScanInv, Paging!Matching, Paging!Present
  <2>4. \A n : Rank(n)' = Rank(n)
    BY <2>1 DEF Rank, Paging!Value
  <2> QED
    BY <2>1, <2>2, <2>3, <2>4, ScanKept
<1>5. ASSUME NEW n \in Paging!Rows, Paging!Delete(n) \/ Paging!Read(n) \/ Paging!ChangeStatus(n)
      PROVE  ScanInv'
  <2>1. /\ n \in 1 .. MaxRow /\ stable' = stable \ {n}
        /\ UNCHANGED <<order, unreadOnly, cursor, got, scanning, disturbed>>
    BY <1>5, TheRows DEF Paging!Delete, Paging!Read, Paging!ChangeStatus, Paging!Unstable
  <2>2. /\ made' \in made .. MaxRow
        /\ gone' \in {gone, gone \union {n}} /\ read' \in {read, read \union {n}}
        /\ status' \in {status, [status EXCEPT ![n] = 1]}
    BY <1>0, <1>5 DEF Paging!Delete, Paging!Read, Paging!ChangeStatus
  <2> QED
    BY <2>1, <2>2, RowsChange
<1> QED
  BY <1>1, <1>2, <1>3, <1>4, <1>5 DEF Paging!Next

LEMMA ScanAlways == ClientsSpec => []ScanInv
<1>1. ClientsInit => ScanInv
  BY ScanStarts DEF ClientsInit, ScanRests
<1>2. ScanInv /\ [ClientsNext]_all => ScanInv'
  <2> SUFFICES ASSUME [ClientsNext]_all PROVE [Paging!Next]_scan
    BY ScanPreserved
  <2> QED
    BY DEF ClientsNext, all
<1> QED
  BY <1>1, <1>2, PTL DEF ClientsSpec

\* A scan whose cursors stay where they were shows each row that stays, once.
THEOREM ScanShowsOnce == ClientsSpec => []EveryRowOnce
<1>1. ScanInv => EveryRowOnce
  <2> SUFFICES ASSUME ScanInv PROVE EveryRowOnce
    OBVIOUS
  <2>1. \A n : Paging!Times(n) = Times(n)
    BY GotIs DEF ScanInv, Paging!Times, Times
  <2> QED
    BY <2>1 DEF ScanInv, EveryRowOnce, Paging!EveryRowOnce
<1> QED
  BY <1>1, ScanAlways, PTL

\* The types of what clients see.
THEOREM ClientTypes == ClientsSpec => []TypesOK
<1>1. ScanInv => Paging!TypeOK
  BY DEF ScanInv
<1>2. ReadingInv => Reading!TypeOK
  BY DEF ReadingInv
<1>3. ExchangeInv => Exchange!TypeOK
  BY DEF ExchangeInv
<1> QED
  BY <1>1, <1>2, <1>3, ScanAlways, ReadingAlways, ExchangeAlways, PTL DEF TypesOK
=============================================================================
