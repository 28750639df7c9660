-------------------------- MODULE TenantScope_proofs --------------------------
(***************************************************************************)
(* TenantScope: while callers use only the operations the extension names, *)
(* no query reaches another tenant's rows - for any number of rows,        *)
(* tenants and callers in progress.                                        *)
(***************************************************************************)
EXTENDS TenantScope, TLAPS

-----------------------------------------------------------------------------
(* What a query that passes reaches *)

\* Whatever passes is constrained to the tenant t of its context: rows are
\* selected among t's, and what is written stays with t.
LEMMA Scoped ==
  ASSUME NEW t \in Tenants \union {NoTenant}, NEW op \in Listed, NEW args \in Args,
         Passes(op, args, t)
  PROVE  LET scoped == ScopeArgs(op, args, t)
         IN  /\ t \in Tenants
             /\ op \notin CreateOperations => scoped.where = t
             /\ op \in CreateOperations \union {"upsert"} => scoped.data = t
             /\ op \in UpdateOperations => scoped.data \in {Absent, t}
             /\ op = "upsert" => scoped.update \in {Absent, t}
             /\ scoped.rows = args.rows
<1> USE ConstantsOK DEF Passes, ScopeArgs, MayWrite, Matches, Args, Listed,
      WHERE_OPERATIONS, UNSCOPABLE_OPERATIONS, CreateOperations, UpdateOperations
<1>1. CASE op \in WHERE_OPERATIONS
  BY <1>1
<1>2. CASE op \in {"create", "createMany"}
  BY <1>2
<1>3. CASE op = "upsert"
  BY <1>3
<1>. QED  BY <1>1, <1>2, <1>3

LEMMA SelectedOwn ==
  ASSUME NEW t \in Tenants, NEW args, args.where = t
  PROVE  TenantsOf(Selected(args)) \subseteq {t}
BY ConstantsOK DEF TenantsOf, Selected

LEMMA ReachesOwn ==
  ASSUME Operations \subseteq Listed, TypeOK,
         NEW p \in Callers, NEW op \in Operations, NEW args \in Args, Query(p, op, args)
  PROVE  reached' \subseteq {context[p]} /\ context[p] \in Tenants
<1> DEFINE t == context[p]
           scoped == ScopeArgs(op, args, t)
<1>1. /\ t \in Tenants
      /\ op \notin CreateOperations => scoped.where = t
      /\ op \in CreateOperations \union {"upsert"} => scoped.data = t
      /\ op \in UpdateOperations => scoped.data \in {Absent, t}
      /\ op = "upsert" => scoped.update \in {Absent, t}
  BY Scoped DEF Query, TypeOK
<1>2. op \notin CreateOperations => TenantsOf(Selected(scoped)) \subseteq {t}
  BY <1>1, SelectedOwn
<1> HIDE DEF scoped
<1>3. CASE Reads(op, scoped)
  BY <1>1, <1>2, <1>3 DEF Reads, ReadOperations, CreateOperations
<1>4. CASE Updates(op, scoped)
  BY <1>1, <1>2, <1>4 DEF Updates, UpdateOperations, CreateOperations
<1>5. CASE Deletes(op, scoped)
  BY <1>1, <1>2, <1>5 DEF Deletes, DeleteOperations, CreateOperations
<1>6. CASE Creates(op, scoped)
  BY <1>1, <1>6 DEF Creates
<1>7. CASE Upserts(op, scoped)
  BY <1>1, <1>2, <1>7 DEF Upserts, CreateOperations
<1>. QED
  BY <1>1, <1>3, <1>4, <1>5, <1>6, <1>7 DEF Query, scoped

-----------------------------------------------------------------------------
(* The inductive invariant: every context is bound to whom its caller acts for *)

Bound == \A p \in Callers : context[p] = caller[p]

IInv == Isolation /\ Bound

LEMMA RowsTyped ==
  ASSUME TypeOK, NEW S, NEW t \in Tenants \union {NoTenant, Absent}, Assign(S, t)
  PROVE  tenantOf' \in [Rows -> Tenants \union {NoTenant}]
BY DEF Assign, TypeOK

LEMMA TypePreserved ==
  ASSUME Operations \subseteq Listed
  PROVE  TypeOK /\ [Next]_vars => TypeOK'
<1> SUFFICES ASSUME TypeOK, [Next]_vars PROVE TypeOK'
  OBVIOUS
<1>1. ASSUME NEW p \in Callers, NEW t \in Tenants, Enter(p, t) PROVE TypeOK'
  BY <1>1 DEF Enter, Binding, TypeOK
<1>2. ASSUME NEW p \in Callers, Exit(p) PROVE TypeOK'
  BY <1>2 DEF Exit, TypeOK
<1>3. ASSUME NEW p \in Callers, NEW op \in Operations, NEW args \in Args, Query(p, op, args)
      PROVE  TypeOK'
  <2> DEFINE scoped == ScopeArgs(op, args, context[p])
  <2>1. reached' \in SUBSET Tenants
    BY <1>3, ReachesOwn
  <2>2. scoped.data \in Tenants \union {Absent} /\ scoped.update \in Tenants \union {Absent}
    BY <1>3, Scoped DEF ScopeArgs, Args, TypeOK, Query, Passes
  <2>3. tenantOf' \in [Rows -> Tenants \union {NoTenant}]
    <3> HIDE DEF scoped
    <3>1. CASE Reads(op, scoped)
      BY <3>1 DEF Reads, TypeOK
    <3>2. CASE Updates(op, scoped) \/ Creates(op, scoped) \/ Deletes(op, scoped)
      BY <2>2, <3>2, RowsTyped DEF Updates, Creates, Deletes
    <3>3. CASE Upserts(op, scoped)
      BY <2>2, <3>3, RowsTyped DEF Upserts
    <3>. QED  BY <1>3, <3>1, <3>2, <3>3 DEF Query, scoped
  <2>. QED  BY <1>3, <2>1, <2>3 DEF Query, TypeOK
<1>4. CASE UNCHANGED vars
  BY <1>4 DEF vars, TypeOK
<1>. QED  BY <1>1, <1>2, <1>3, <1>4 DEF Next

LEMMA InvPreserved ==
  ASSUME Operations \subseteq Listed
  PROVE  TypeOK /\ IInv /\ [Next]_vars => IInv'
<1> SUFFICES ASSUME TypeOK, IInv, [Next]_vars PROVE IInv'
  OBVIOUS
<1> USE DEF IInv, Isolation, Bound
<1>1. ASSUME NEW p \in Callers, NEW t \in Tenants, Enter(p, t) PROVE IInv'
  BY <1>1 DEF Enter, Binding, TypeOK
<1>2. ASSUME NEW p \in Callers, Exit(p) PROVE IInv'
  BY <1>2 DEF Exit, TypeOK
<1>3. ASSUME NEW p \in Callers, NEW op \in Operations, NEW args \in Args, Query(p, op, args)
      PROVE  IInv'
  BY <1>3, ReachesOwn DEF Query
<1>4. CASE UNCHANGED vars
  BY <1>4 DEF vars
<1>. QED  BY <1>1, <1>2, <1>3, <1>4 DEF Next

-----------------------------------------------------------------------------
(* Theorems *)

\* Every variable stays in its range.
THEOREM TypeCorrect ==
  ASSUME Operations \subseteq Listed
  PROVE  Spec => []TypeOK
<1>1. Init => TypeOK
  BY DEF Init, TypeOK
<1>. QED  BY <1>1, TypePreserved, PTL DEF Spec

\* No query reaches a row of another tenant than its caller's, while callers keep
\* to the operations the extension names.
THEOREM TenantsAreIsolated ==
  ASSUME Operations \subseteq Listed
  PROVE  Spec => []Isolation
<1>1. Init => IInv
  BY DEF Init, IInv, Isolation, Bound
<1>2. IInv => Isolation
  BY DEF IInv
<1>. QED  BY <1>1, <1>2, InvPreserved, TypeCorrect, PTL DEF Spec
=============================================================================
