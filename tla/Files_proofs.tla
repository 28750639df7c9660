---------------------------- MODULE Files_proofs ----------------------------
(***************************************************************************)
(* Files: a row leads to its bytes, an object without a row comes from a   *)
(* failure, and the two stores together implement StoredFile - for any     *)
(* number of files, tenants and requests.                                  *)
(***************************************************************************)
EXTENDS Files, TLAPS

-----------------------------------------------------------------------------
(* The inductive invariant *)

\* A file with a row has an owner, and its bytes go after its row.
StoresApart ==
    \A f \in FileIds :
        /\ row[f] # "none" => owner[f] \in Tenants
        /\ object[f] = "deleted" => row[f] = "deleted"
        /\ object[f] = "none" => row[f] = "none"

\* What each request knows of its file.
Knows ==
    \A r \in Requests : at[r] # "idle" =>
        /\ file[r] \in FileIds /\ tenant[r] \in Tenants
        /\ at[r] = "put" => object[file[r]] = "none" /\ row[file[r]] = "none"
        /\ at[r] = "insert" => object[file[r]] = "stored" /\ row[file[r]] = "none"
        /\ at[r] \in {"get", "deleteRow"}
              => row[file[r]] # "none" /\ owner[file[r]] = tenant[r]
        /\ at[r] = "deleteObject" => row[file[r]] = "deleted"

\* A key is drawn by one upload.
OneUpload ==
    \A r, q \in Requests :
        (at[r] \in {"put", "insert"} /\ at[q] \in {"put", "insert"} /\ file[r] = file[q])
            => r = q

IInv == /\ TypeOK
        /\ RowHasObject
        /\ OrphansComeFromFailures
        /\ StoresApart
        /\ Knows
        /\ OneUpload

LEMMA InitIInv == Init => IInv
BY ConstantsOK DEF Init, IInv, TypeOK, RowHasObject, OrphansComeFromFailures,
    StoresApart, Knows, OneUpload

\* Where After leads.
LEMMA Order ==
    /\ UploadCalls[1] = "put" /\ RemovalCalls[1] = "deleteRow"
    /\ After("put") = "insert" /\ After("insert") = "idle"
    /\ After("deleteRow") = "deleteObject" /\ After("deleteObject") = "idle"
BY DEF After, UploadCalls, RemovalCalls

LEMMA InvPreserved == IInv /\ [Next]_vars => IInv'
<1> SUFFICES ASSUME IInv, [Next]_vars PROVE IInv'
  OBVIOUS
<1> USE ConstantsOK, Order DEF IInv, TypeOK, RowHasObject, OrphansComeFromFailures,
      StoresApart, Knows, OneUpload, reqVars, history, Visible, OwnerOf, Then, Goto, Leave
<1>1. ASSUME NEW r \in Requests, NEW f \in FileIds, NEW t \in Tenants, Upload(r, f, t) PROVE IInv'
  BY <1>1 DEF Upload, Arrive
<1>2. ASSUME NEW r \in Requests, NEW f \in FileIds, NEW t \in Tenants, Find(r, f, t) PROVE IInv'
  BY <1>2 DEF Find, Arrive
<1>3. ASSUME NEW r \in Requests, Put(r) PROVE IInv'
  BY <1>3 DEF Put
<1>4. ASSUME NEW r \in Requests, Insert(r) PROVE IInv'
  BY <1>4 DEF Insert
<1>5. ASSUME NEW r \in Requests, Get(r) PROVE IInv'
  BY <1>5 DEF Get
<1>6. ASSUME NEW r \in Requests, DeleteRow(r) PROVE IInv'
  BY <1>6 DEF DeleteRow
<1>7. ASSUME NEW r \in Requests, DeleteObject(r) PROVE IInv'
  BY <1>7 DEF DeleteObject
<1>8. ASSUME NEW r \in Requests, Fail(r) PROVE IInv'
  BY <1>8 DEF Fail
<1>9. ASSUME NEW r \in Requests, LoseAnswer(r) PROVE IInv'
  BY <1>9 DEF LoseAnswer
<1>10. CASE UNCHANGED vars
  BY <1>10 DEF vars
<1>. QED
  BY <1>1, <1>2, <1>3, <1>4, <1>5, <1>6, <1>7, <1>8, <1>9, <1>10 DEF Next, Request, Proceed

-----------------------------------------------------------------------------
(* The refinement *)

LEMMA InitRefines == Init => Stored!Init
BY DEF Init, Stored!Init, Status

LEMMA StepRefines == IInv /\ [Next]_vars => [Stored!Next]_(Stored!vars)
<1> SUFFICES ASSUME IInv, [Next]_vars PROVE [Stored!Next]_(Stored!vars)
  OBVIOUS
<1> USE ConstantsOK, Order DEF IInv, TypeOK, RowHasObject, StoresApart, Knows,
      reqVars, history, Visible, OwnerOf, Then, Goto, Leave
<1>s. ASSUME UNCHANGED <<owner, sent>>, \A f \in FileIds : Status(f)' = Status(f)
      PROVE  UNCHANGED Stored!vars
  BY <1>s DEF Stored!vars
<1>1. ASSUME NEW r \in Requests, NEW f \in FileIds, NEW t \in Tenants,
             Upload(r, f, t) \/ Find(r, f, t)
      PROVE  UNCHANGED Stored!vars
  BY <1>1, <1>s DEF Upload, Find, Arrive, Status
<1>2. ASSUME NEW r \in Requests, Put(r) PROVE UNCHANGED Stored!vars
  <2>1. \A f \in FileIds : Status(f)' = Status(f)
    BY <1>2 DEF Put, Status
  <2>. QED  BY <1>2, <1>s, <2>1 DEF Put
<1>3. ASSUME NEW r \in Requests, row' = [row EXCEPT ![file[r]] = "stored"],
             owner' = [owner EXCEPT ![file[r]] = tenant[r]],
             at[r] = "insert", UNCHANGED <<object, sent>>
      PROVE  Stored!Next
  <2>1. Stored!Add(tenant[r], file[r])
    BY <1>3 DEF Stored!Add, Status
  <2>. QED  BY <1>3, <2>1 DEF Stored!Next
<1>4. ASSUME NEW r \in Requests, Get(r) PROVE [Stored!Next]_(Stored!vars)
  <2>1. CASE object[file[r]] = "stored"
    <3>1. Stored!Send(tenant[r], file[r])
      BY <1>4, <2>1 DEF Get, Stored!Send, Status
    <3>. QED  BY <1>4, <3>1 DEF Get, Stored!Next
  <2>2. CASE object[file[r]] # "stored"
    BY <1>4, <2>2, <1>s DEF Get, Status
  <2>. QED  BY <2>1, <2>2
<1>5. ASSUME NEW r \in Requests, at[r] = "deleteRow", Visible(file[r], tenant[r]),
             row' = [row EXCEPT ![file[r]] = "deleted"], UNCHANGED <<object, owner, sent>>
      PROVE  Stored!Next
  <2>1. Stored!Remove(tenant[r], file[r])
    BY <1>5 DEF Stored!Remove, Status
  <2>. QED  BY <1>5, <2>1 DEF Stored!Next
<1>6. ASSUME NEW r \in Requests, DeleteRow(r) PROVE [Stored!Next]_(Stored!vars)
  <2>1. CASE Visible(file[r], tenant[r])
    BY <1>5, <1>6, <2>1 DEF DeleteRow
  <2>2. CASE ~Visible(file[r], tenant[r])
    BY <1>6, <2>2, <1>s DEF DeleteRow, Status
  <2>. QED  BY <2>1, <2>2
<1>7. ASSUME NEW r \in Requests, DeleteObject(r) PROVE UNCHANGED Stored!vars
  <2>1. \A f \in FileIds : Status(f)' = Status(f)
    BY <1>7 DEF DeleteObject, Status
  <2>. QED  BY <1>7, <1>s, <2>1 DEF DeleteObject
<1>8. ASSUME NEW r \in Requests, Fail(r) PROVE UNCHANGED Stored!vars
  BY <1>8, <1>s DEF Fail, Status
<1>9. ASSUME NEW r \in Requests, LoseAnswer(r) PROVE [Stored!Next]_(Stored!vars)
  <2>1. CASE at[r] = "put"
    <3>1. \A f \in FileIds : Status(f)' = Status(f)
      BY <1>9, <2>1 DEF LoseAnswer, Status
    <3>. QED  BY <1>9, <1>s, <2>1, <3>1 DEF LoseAnswer
  <2>2. CASE at[r] = "insert"
    BY <1>3, <1>9, <2>2 DEF LoseAnswer
  <2>3. CASE at[r] = "deleteRow"
    BY <1>5, <1>9, <2>3 DEF LoseAnswer
  <2>. QED  BY <1>9, <2>1, <2>2, <2>3 DEF LoseAnswer
<1>10. CASE UNCHANGED vars
  BY <1>10, <1>s DEF vars, Status
<1>11. ASSUME NEW r \in Requests, Insert(r) PROVE Stored!Next
  BY <1>3, <1>11 DEF Insert
<1>. QED
  BY <1>1, <1>2, <1>4, <1>6, <1>7, <1>8, <1>9, <1>10, <1>11 DEF Next, Request, Proceed

-----------------------------------------------------------------------------
(* Theorems *)

LEMMA Invariance == Spec => []IInv
BY InitIInv, InvPreserved, PTL DEF Spec

\* Every variable stays in its range.
THEOREM TypeCorrect == Spec => []TypeOK
BY Invariance, PTL DEF IInv

\* Whatever fails between the two stores, a row leads to its bytes.
THEOREM RowsLeadToBytes == Spec => []RowHasObject
BY Invariance, PTL DEF IInv

\* An object without a row is about to have one or to go, or its request failed.
THEOREM OrphansExplained == Spec => []OrphansComeFromFailures
BY Invariance, PTL DEF IInv

\* The two stores and their failures are the files clients were promised.
THEOREM Implementation == Spec => ImplementsStoredFile
BY Invariance, InitRefines, StepRefines, PTL DEF Spec, Stored!Spec, ImplementsStoredFile
==============================================================================
