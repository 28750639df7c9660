----------------------------- MODULE TenantScope -----------------------------
(***************************************************************************)
(* The tenant-scoped client: a Prisma extension that rewrites every query  *)
(* on a tenant-owned model by the tenant of the async context, which an    *)
(* interceptor binds for a request and TenantContext.run for a job         *)
(* (tenant-scope.extension.ts, tenant-context*.ts).  Requests and jobs     *)
(* interleave on one event loop, each in its own context.  Queries are     *)
(* arbitrary: any operation, any where, any explicit tenantId.             *)
(* What the database does with the rewritten query is Prisma's part.       *)
(* A definition that stands just above another and extends its name is a   *)
(* slip that definition must not make, for mutation runs.                  *)
(***************************************************************************)
EXTENDS Integers

CONSTANTS
    Rows,       \* ids of rows of one tenant-owned model
    Tenants,
    Callers,    \* requests and jobs in progress
    Operations, \* the operations callers use
    NoTenant,   \* undefined
    Absent      \* what a query says nothing of

\* The operations of a Prisma model client.
ReadOperations ==
    {"findFirst", "findFirstOrThrow", "findMany", "count", "aggregate", "groupBy",
     "findUnique", "findUniqueOrThrow"}
UpdateOperations == {"update", "updateMany", "updateManyAndReturn"}
DeleteOperations == {"delete", "deleteMany"}
CreateOperations == {"create", "createMany", "createManyAndReturn"}

ASSUME ConstantsOK ==
    /\ NoTenant \notin Tenants /\ Absent \notin Tenants
    /\ Operations \subseteq ReadOperations \union UpdateOperations \union DeleteOperations
                              \union CreateOperations \union {"upsert"}

VARIABLES
    tenantOf,   \* of a row, NoTenant while there is none
    context,    \* the async context's tenant, NoTenant when unbound
    caller,     \* whom a request or job acts for: its token's, or its row's, tenant
    \* History, read by the properties only:
    by,         \* for whom the last query ran
    reached     \* tenants whose rows it returned, changed or made

vars == <<tenantOf, context, caller, by, reached>>

TypeOK ==
    /\ tenantOf \in [Rows -> Tenants \union {NoTenant}]
    /\ context \in [Callers -> Tenants \union {NoTenant}]
    /\ caller \in [Callers -> Tenants \union {NoTenant}]
    /\ by \in Tenants \union {NoTenant}
    /\ reached \in SUBSET Tenants

Init ==
    /\ tenantOf = [i \in Rows |-> NoTenant]
    /\ context = [p \in Callers |-> NoTenant]
    /\ caller = [p \in Callers |-> NoTenant]
    /\ by = NoTenant
    /\ reached = {}

\* A query's arguments: the rows its where names, the tenantId in the where, in
\* the data of a write, and in the update branch of an upsert.
Args == [rows : SUBSET Rows, where : Tenants \union {Absent},
         data : Tenants \union {Absent}, update : Tenants \union {Absent}]

-----------------------------------------------------------------------------
(* The extension *)

WHERE_OPERATIONS ==
    {"findFirst", "findFirstOrThrow", "findMany", "count", "aggregate", "groupBy",
     "update", "updateMany", "delete", "deleteMany"}

UNSCOPABLE_OPERATIONS == {"findUnique", "findUniqueOrThrow"}

\* The operations scopeArgs knows.
Listed == WHERE_OPERATIONS \union UNSCOPABLE_OPERATIONS \union {"create", "createMany", "upsert"}

Matches(tenantId, t) == tenantId \in {Absent, t}

\* assertTenantMatches, where scopeArgs calls it.
MayWrite(op, args, t) ==
    /\ op \in {"update", "updateMany", "create", "createMany", "upsert"}
          => Matches(args.data, t)
    /\ op = "upsert" => Matches(args.update, t)

ScopeReadsOnly(op, args, t) ==
    IF op \in ReadOperations THEN [args EXCEPT !.where = t] ELSE args
ScopeArgs(op, args, t) ==
    CASE op \in WHERE_OPERATIONS -> [args EXCEPT !.where = t]
      [] op \in {"create", "createMany"} -> [args EXCEPT !.data = t]
      [] op = "upsert" -> [args EXCEPT !.where = t, !.data = t]
      [] OTHER -> args

\* Whether the extension lets the query through: a tenant in context, an
\* operation it can scope, no foreign tenantId in what is written.
Passes(op, args, t) ==
    /\ t # NoTenant
    /\ op \notin UNSCOPABLE_OPERATIONS
    /\ MayWrite(op, args, t)

-----------------------------------------------------------------------------
(* The database, given the arguments that pass *)

Existing == {i \in Rows : tenantOf[i] # NoTenant}

Selected(args) ==
    {i \in args.rows \intersect Existing : args.where \in {Absent, tenantOf[i]}}

\* Rows of S go to tenant t, or stay where they are.
Assign(S, t) ==
    tenantOf' = [i \in Rows |-> IF i \in S /\ t # Absent THEN t ELSE tenantOf[i]]

TenantsOf(S) == {tenantOf[i] : i \in S}

Reads(op, args) ==
    /\ op \in ReadOperations
    /\ reached' = TenantsOf(Selected(args))
    /\ UNCHANGED tenantOf

Updates(op, args) ==
    /\ op \in UpdateOperations
    /\ Assign(Selected(args), args.data)
    /\ reached' = TenantsOf(Selected(args))
                    \union (IF Selected(args) = {} THEN {} ELSE {args.data} \ {Absent})

Deletes(op, args) ==
    /\ op \in DeleteOperations
    /\ Assign(Selected(args), NoTenant)
    /\ reached' = TenantsOf(Selected(args))

\* The ids are new, and tenantId is a required column.
Creates(op, args) ==
    /\ op \in CreateOperations
    /\ args.rows \intersect Existing = {} /\ args.data # Absent
    /\ Assign(args.rows, args.data)
    /\ reached' = IF args.rows = {} THEN {} ELSE {args.data}

\* A row its where does not match is made, unless its id is taken.
Upserts(op, args) ==
    /\ op = "upsert"
    /\ \/ /\ Selected(args) # {}
          /\ Assign(Selected(args), args.update)
          /\ reached' = TenantsOf(Selected(args)) \union ({args.update} \ {Absent})
       \/ /\ args.rows # {} /\ args.rows \intersect Existing = {} /\ args.data # Absent
          /\ Assign(args.rows, args.data)
          /\ reached' = {args.data}

-----------------------------------------------------------------------------

Binding(p, t) == [context EXCEPT ![p] = t]

\* A request with a token of tenant t reaches the interceptor, or a job enters
\* TenantContext.run; an unauthenticated request, and a sweep between two rows,
\* stay unbound.
Enter(p, t) ==
    /\ caller[p] = NoTenant
    /\ caller' = [caller EXCEPT ![p] = t]
    /\ context' = Binding(p, t)
    /\ UNCHANGED <<tenantOf, by, reached>>

\* The request ends, or run() returns.
Exit(p) ==
    /\ caller[p] # NoTenant
    /\ caller' = [caller EXCEPT ![p] = NoTenant]
    /\ context' = [context EXCEPT ![p] = NoTenant]
    /\ UNCHANGED <<tenantOf, by, reached>>

Query(p, op, args) ==
    /\ Passes(op, args, context[p])
    /\ LET scoped == ScopeArgs(op, args, context[p])
       IN  Reads(op, scoped) \/ Updates(op, scoped) \/ Deletes(op, scoped)
             \/ Creates(op, scoped) \/ Upserts(op, scoped)
    /\ by' = caller[p]
    /\ UNCHANGED <<context, caller>>

Next == \E p \in Callers :
    \/ \E t \in Tenants : Enter(p, t)
    \/ Exit(p)
    \/ \E op \in Operations, args \in Args : Query(p, op, args)

Spec == Init /\ [][Next]_vars

-----------------------------------------------------------------------------
(* Properties *)

\* "one tenant can never see or modify another's data" (security.md:79): a query
\* reaches rows of nobody but whom its caller acts for, whatever it asks for and
\* whoever else is in progress; outside a context it reaches nothing.
Isolation == reached \subseteq {by}
=============================================================================
