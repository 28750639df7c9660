---------------------------- MODULE AuditLifecycle ----------------------------
(***************************************************************************)
(* What the audit pipeline promises about one row of site_audits and the   *)
(* user waiting for it, with no word of jobs, workers or sweeps: the       *)
(* status moves forward only, is settled once, and whoever settles it owes *)
(* the user at most one notification, of that very outcome.  The debt may  *)
(* be dropped (a process dies, the insert fails), never paid twice.        *)
(*                                                                         *)
(* One thing may go over a settlement: the request that created the audit  *)
(* may answer its client with an error.  It does so once, the row fails    *)
(* for good, and a notification of the outcome before stands or may still  *)
(* come.                                                                   *)
(***************************************************************************)
EXTENDS Sequences

CONSTANT Audits

VARIABLES
    phase,  \* the status of the row; "absent" before, "purged" after
    owed,   \* the outcome somebody is about to tell the user, or "none"
    told,   \* the notifications of the audit
    erred   \* did its request answer with an error?

vars == <<phase, owed, told, erred>>

Outcomes == {"COMPLETED", "FAILED"}

Init ==
    /\ phase = [a \in Audits |-> "absent"]
    /\ owed = [a \in Audits |-> "none"]
    /\ told = [a \in Audits |-> <<>>]
    /\ erred = [a \in Audits |-> FALSE]

Move(a, from, to) ==
    /\ phase[a] = from
    /\ phase' = [phase EXCEPT ![a] = to]
    /\ UNCHANGED <<told, erred>>

Submit(a) == Move(a, "absent", "PENDING") /\ UNCHANGED owed

Start(a) == Move(a, "PENDING", "PROCESSING") /\ UNCHANGED owed

\* The one settlement, by somebody who will tell the user or by nobody.
Settle(a, from, o) ==
    /\ Move(a, from, o)
    /\ owed' \in {owed, [owed EXCEPT ![a] = o]}

Tell(a) ==
    /\ owed[a] # "none"
    /\ told[a] = <<>>
    /\ told' = [told EXCEPT ![a] = <<owed[a]>>]
    /\ owed' = [owed EXCEPT ![a] = "none"]
    /\ UNCHANGED <<phase, erred>>

Drop(a) ==
    /\ owed' = [owed EXCEPT ![a] = "none"]
    /\ UNCHANGED <<phase, told, erred>>

\* The request errs and fails its row, settled or not, told or not.
Err(a) ==
    /\ ~erred[a] /\ phase[a] \notin {"absent", "purged"}
    /\ erred' = [erred EXCEPT ![a] = TRUE]
    /\ phase' = [phase EXCEPT ![a] = "FAILED"]
    /\ UNCHANGED <<owed, told>>

\* The retention sweep takes any rows that exist, and leaves a debt standing.
Purge(S) ==
    /\ \A a \in S : phase[a] \notin {"absent", "purged"}
    /\ phase' = [a \in Audits |-> IF a \in S THEN "purged" ELSE phase[a]]
    /\ UNCHANGED <<owed, told, erred>>

Next ==
    \/ \E a \in Audits :
          \/ Submit(a) \/ Start(a) \/ Tell(a) \/ Drop(a) \/ Err(a)
          \/ Settle(a, "PENDING", "FAILED")
          \/ \E o \in Outcomes : Settle(a, "PROCESSING", o)
    \/ \E S \in SUBSET Audits : Purge(S)

Spec == Init /\ [][Next]_vars
=============================================================================
