----------------------------- MODULE StoredFile -----------------------------
(***************************************************************************)
(* What the files API promises: a file becomes available whole, is removed *)
(* for good, and only its own tenant ever receives its content.  That its  *)
(* row is in the database and its bytes in an object store, which fail     *)
(* apart, is Files.                                                        *)
(***************************************************************************)
CONSTANTS FileIds, Tenants, NoTenant

VARIABLES
    status,     \* of a file
    holder,     \* its tenant
    received    \* the files whose content a tenant was sent

vars == <<status, holder, received>>

Init ==
    /\ status = [f \in FileIds |-> "absent"]
    /\ holder = [f \in FileIds |-> NoTenant]
    /\ received = [t \in Tenants |-> {}]

Add(t, f) ==
    /\ status[f] = "absent"
    /\ status' = [status EXCEPT ![f] = "available"]
    /\ holder' = [holder EXCEPT ![f] = t]
    /\ UNCHANGED received

\* A download that began in time may end after the removal.
Send(t, f) ==
    /\ status[f] # "absent"
    /\ holder[f] = t
    /\ received' = [received EXCEPT ![t] = @ \union {f}]
    /\ UNCHANGED <<status, holder>>

Remove(t, f) ==
    /\ status[f] = "available"
    /\ holder[f] = t
    /\ status' = [status EXCEPT ![f] = "removed"]
    /\ UNCHANGED <<holder, received>>

Next == \E t \in Tenants, f \in FileIds : Add(t, f) \/ Send(t, f) \/ Remove(t, f)

Spec == Init /\ [][Next]_vars
=============================================================================
