-------------------------------- MODULE Files --------------------------------
(***************************************************************************)
(* Uploaded files: the bytes are an object in S3-compatible storage, the   *)
(* row that leads to it is in the database (files.service.ts,              *)
(* storage.service.ts).  No transaction spans the two, so what a request   *)
(* leaves behind when a store refuses it, or it dies, depends on the order *)
(* of its calls.  A step is one call to one store.                         *)
(* A definition that stands just above another and extends its name is a   *)
(* slip that definition must not make, for mutation runs.                  *)
(***************************************************************************)
EXTENDS Integers

CONSTANTS
    FileIds,    \* one per upload, for the row and for the random object key
    Tenants,
    Requests,
    NoFile,
    NoTenant

ASSUME ConstantsOK == NoFile \notin FileIds /\ NoTenant \notin Tenants

VARIABLES
    object,      \* "none", "stored" or "deleted"
    row,         \* the same, for the row
    owner,       \* tenantId of the row
    at,          \* where a request stands
    file,        \* the file it works on
    tenant,      \* the tenant of its caller
    \* History, read by the properties only:
    interrupted, \* files a request left between its two calls
    sent         \* files whose content a tenant was sent

reqVars == <<at, file, tenant>>
history == <<interrupted, sent>>
vars == <<object, row, owner, reqVars, history>>

TypeOK ==
    /\ object \in [FileIds -> {"none", "stored", "deleted"}]
    /\ row \in [FileIds -> {"none", "stored", "deleted"}]
    /\ owner \in [FileIds -> Tenants \union {NoTenant}]
    /\ \A f \in FileIds : row[f] # "none" => owner[f] # NoTenant
    /\ at \in [Requests -> {"idle", "put", "insert", "get", "deleteRow", "deleteObject"}]
    /\ file \in [Requests -> FileIds \union {NoFile}]
    /\ tenant \in [Requests -> Tenants \union {NoTenant}]
    /\ interrupted \in SUBSET FileIds
    /\ sent \in [Tenants -> SUBSET FileIds]

Init ==
    /\ object = [f \in FileIds |-> "none"]
    /\ row = [f \in FileIds |-> "none"]
    /\ owner = [f \in FileIds |-> NoTenant]
    /\ at = [r \in Requests |-> "idle"]
    /\ file = [r \in Requests |-> NoFile]
    /\ tenant = [r \in Requests |-> NoTenant]
    /\ interrupted = {}
    /\ sent = [t \in Tenants |-> {}]

Goto(r, l) == at' = [at EXCEPT ![r] = l]

Arrive(r, l, f, t) ==
    /\ at[r] = "idle"
    /\ Goto(r, l)
    /\ file' = [file EXCEPT ![r] = f]
    /\ tenant' = [tenant EXCEPT ![r] = t]

Leave(r) ==
    /\ Goto(r, "idle")
    /\ file' = [file EXCEPT ![r] = NoFile]
    /\ tenant' = [tenant EXCEPT ![r] = NoTenant]

\* A step of r that goes on to l, or ends at "idle".
Then(r, l) == IF l = "idle" THEN Leave(r) ELSE Goto(r, l) /\ UNCHANGED <<file, tenant>>

\* The calls of upload() and of remove(), in order.
UploadCalls == <<"put", "insert">>
RemovalCallsSwapped == <<"deleteObject", "deleteRow">>
RemovalCallsRowOnly == <<"deleteRow", "idle">>
RemovalCalls == <<"deleteRow", "deleteObject">>

After(l) ==
    CASE l = UploadCalls[1] -> UploadCalls[2]
      [] l = RemovalCalls[1] -> RemovalCalls[2]
      [] OTHER -> "idle"

VisibleToAll(f, t) == row[f] = "stored"

\* The tenant-scoped client sees the rows of the caller's tenant only.
Visible(f, t) == row[f] = "stored" /\ owner[f] = t

-----------------------------------------------------------------------------

\* upload() draws a new key.
Upload(r, f, t) ==
    /\ object[f] = "none" /\ row[f] = "none"
    /\ \A q \in Requests : file[q] # f
    /\ Arrive(r, UploadCalls[1], f, t)
    /\ UNCHANGED <<object, row, owner, history>>

Put(r) ==
    /\ at[r] = "put"
    /\ object' = [object EXCEPT ![file[r]] = "stored"]
    /\ Then(r, After("put"))
    /\ UNCHANGED <<row, owner, history>>

OwnerOf(r) == tenant[r]

Insert(r) ==
    /\ at[r] = "insert"
    /\ row' = [row EXCEPT ![file[r]] = "stored"]
    /\ owner' = [owner EXCEPT ![file[r]] = OwnerOf(r)]
    /\ Then(r, After("insert"))
    /\ UNCHANGED <<object, history>>

\* getOwned(), of download() and of remove(); no row of the tenant's is a 404.
Find(r, f, t) ==
    /\ Visible(f, t)
    /\ \E l \in {"get", RemovalCalls[1]} : Arrive(r, l, f, t)
    /\ UNCHANGED <<object, row, owner, history>>

\* The object opens as a stream; NoSuchKey answers 404.
Get(r) ==
    /\ at[r] = "get"
    /\ sent' = IF object[file[r]] = "stored"
               THEN [sent EXCEPT ![tenant[r]] = @ \union {file[r]}]
               ELSE sent
    /\ Leave(r)
    /\ UNCHANGED <<object, row, owner, interrupted>>

\* A second removal finds the row gone: P2025, a 404, and goes no further.
DeleteRow(r) ==
    /\ at[r] = "deleteRow"
    /\ IF Visible(file[r], tenant[r])
       THEN /\ row' = [row EXCEPT ![file[r]] = "deleted"]
            /\ Then(r, After("deleteRow"))
       ELSE Leave(r) /\ UNCHANGED row
    /\ UNCHANGED <<object, owner, history>>

\* Deleting a key that is not there is no error.
DeleteObject(r) ==
    /\ at[r] = "deleteObject"
    /\ object' = [object EXCEPT ![file[r]] = "deleted"]
    /\ Then(r, After("deleteObject"))
    /\ UNCHANGED <<row, owner, history>>

-----------------------------------------------------------------------------
(* Failures *)

\* The call at hand fails unapplied - the store refuses or is not configured -
\* or the process dies before it.
Fail(r) ==
    /\ at[r] # "idle"
    /\ interrupted' = IF at[r] = "get" THEN interrupted ELSE interrupted \union {file[r]}
    /\ Leave(r)
    /\ UNCHANGED <<object, row, owner, sent>>

\* The call is applied, but its answer is lost: the request ends all the same.
LoseAnswer(r) ==
    /\ \/ /\ at[r] = "put" /\ object' = [object EXCEPT ![file[r]] = "stored"]
          /\ UNCHANGED <<row, owner>>
       \/ /\ at[r] = "insert" /\ row' = [row EXCEPT ![file[r]] = "stored"]
          /\ owner' = [owner EXCEPT ![file[r]] = OwnerOf(r)]
          /\ UNCHANGED object
       \/ /\ at[r] = "deleteRow" /\ Visible(file[r], tenant[r])
          /\ row' = [row EXCEPT ![file[r]] = "deleted"]
          /\ UNCHANGED <<object, owner>>
    /\ interrupted' = interrupted \union {file[r]}
    /\ Leave(r)
    /\ UNCHANGED sent

-----------------------------------------------------------------------------

Proceed(r) == Put(r) \/ Insert(r) \/ Get(r) \/ DeleteRow(r) \/ DeleteObject(r)

Request(r) == \E f \in FileIds, t \in Tenants : Upload(r, f, t) \/ Find(r, f, t)

Next == \E r \in Requests : Request(r) \/ Proceed(r) \/ Fail(r) \/ LoseAnswer(r)

Spec == Init /\ [][Next]_vars

\* A handler that waits for a call goes on when it returns.
FairSpec == Spec /\ \A r \in Requests : WF_vars(Proceed(r))

-----------------------------------------------------------------------------
(* Properties *)

\* Whatever fails, and wherever, a row leads to its bytes: never "a row pointing
\* at a missing object (which would 500 on the next download)".
RowHasObject == \A f \in FileIds : row[f] = "stored" => object[f] = "stored"

\* An object without a row is one a request is about to give a row or to delete,
\* or one such a request was interrupted at: overlapping removals leave none.
OrphansComeFromFailures ==
    \A f \in FileIds :
        (object[f] = "stored" /\ row[f] # "stored")
            => \/ f \in interrupted
               \/ \E r \in Requests : file[r] = f /\ at[r] \in {"insert", "deleteObject"}

\* A removed file's bytes go, unless its removal was interrupted.
RemovedObjectsGo ==
    \A f \in FileIds :
        row[f] = "deleted" ~> (object[f] = "deleted" \/ f \in interrupted)

\* A file is available when its row leads to its bytes.
Status(f) ==
    CASE row[f] = "stored" /\ object[f] = "stored" -> "available"
      [] row[f] = "deleted" -> "removed"
      [] OTHER -> "absent"

Stored == INSTANCE StoredFile WITH
    status <- [f \in FileIds |-> Status(f)], holder <- owner, received <- sent

\* With two stores and every failure in between, clients see files that come
\* whole, go for good, and reach their own tenant only.
ImplementsStoredFile == Stored!Spec
=============================================================================
