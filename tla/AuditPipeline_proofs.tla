------------------------- MODULE AuditPipeline_proofs -------------------------
(***************************************************************************)
(* What AuditPipeline promises, proved for any audits, tenants, handlers,  *)
(* reapers, deliveries and durations, and with no bound on the clock but   *)
(* MaxTime. The first part types the state, the second shows IInv          *)
(* inductive, the third that notifications agree with the rows,            *)
(* the fourth how far a tenant may exceed its cap, and the last that the   *)
(* pipeline implements AuditLifecycle.                                     *)
(***************************************************************************)
EXTENDS AuditPipeline, FiniteSetTheorems, TLAPS

(***************************************************************************)
(* The inductive invariant.  An audit has one owner among the handlers from *)
(* the claim on, and whoever settled it holds the only right to notify,     *)
(* which is why nobody can have notified before.                            *)
(***************************************************************************)

Owns(w) == at[w] \notin {"idle", "claim"}
Tells(w) == at[w] \in {"tellCompleted", "tellFailed"}
Settled == Terminal \union {"purged"}

\* A process holds an audit exactly while it needs one.
HoldersInv ==
    /\ \A w \in Workers : at[w] = "idle" <=> audit[w] = NoAudit
    /\ \A p \in Reapers : sweep[p] = "tell" <=> reaped[p] # NoAudit

\* The row exists from the insert of its request on.
RequestInv ==
    \A a \in Audits :
        /\ request[a] \in {"idle", "counted", "rejected"} => status[a] = "absent"
        /\ request[a] \in {"created", "sendFailed", "accepted", "errored"} => status[a] # "absent"
        /\ request[a] = "errored" => status[a] \in {"FAILED", "purged"}

OwnerInv ==
    /\ \A w \in Workers : Owns(w) => status[audit[w]] \notin {"absent", "PENDING"}
    /\ \A v, w \in Workers : Owns(v) /\ Owns(w) /\ audit[v] = audit[w] => v = w

NotesInv ==
    \A a \in Audits :
        /\ notes[a] \in {<<>>, <<"COMPLETED">>, <<"FAILED">>}
        /\ notes[a] # <<>> => status[a] \in Settled

HandlerTellsInv ==
    \A w \in Workers : Tells(w) => status[audit[w]] \in Settled /\ notes[audit[w]] = <<>>

ReaperTellsInv ==
    \A p \in Reapers :
        sweep[p] = "tell" => status[reaped[p]] \in Settled /\ notes[reaped[p]] = <<>>

SoleTellerInv ==
    /\ \A p, q \in Reapers : sweep[p] = "tell" /\ reaped[p] = reaped[q] => p = q
    /\ \A w \in Workers, p \in Reapers : Tells(w) /\ sweep[p] = "tell" => audit[w] # reaped[p]

\* A sweep's cutoff is never later than its staleness window.
CutoffInv == \A p \in Reapers : sweep[p] # "idle" => cutoff[p] <= now - Stale

IInv ==
    /\ HoldersInv /\ RequestInv /\ OwnerInv
    /\ NotesInv /\ HandlerTellsInv /\ ReaperTellsInv /\ SoleTellerInv
    /\ CutoffInv

\* An outcome that is told, or about to be, is what the row says; only a request
\* that answered with an error may have failed the row since.
Says(a, o) ==
    \/ status[a] \in {o, "purged"}
    \/ request[a] = "errored" /\ status[a] = "FAILED"

OutcomeInv ==
    /\ \A w \in Workers :
        /\ at[w] = "tellCompleted" => Says(audit[w], "COMPLETED")
        /\ at[w] = "tellFailed" => Says(audit[w], "FAILED")
    /\ \A p \in Reapers : sweep[p] = "tell" => Says(reaped[p], "FAILED")
    /\ \A a \in Audits :
        /\ notes[a] = <<"COMPLETED">> => Says(a, "COMPLETED")
        /\ notes[a] = <<"FAILED">> => Says(a, "FAILED")

-----------------------------------------------------------------------------

(* One write of a row keeps the rows typed. *)
LEMMA SetStatusTypes ==
  ASSUME now \in Nat, RowTypes, NEW a, NEW s \in Statuses, SetStatus(a, s)
  PROVE  RowTypes'
BY DEF RowTypes, SetStatus

(* So does leaving a handler, or going on in it. *)
LEMMA HandlerStepTypes ==
  ASSUME HandlerTypes, NEW w,
         \/ Leave(w)
         \/ /\ UNCHANGED audit
            /\ \E l \in {"load", "run", "catch", "tellCompleted", "tellFailed"} : Goto(w, l)
  PROVE  HandlerTypes'
BY DEF HandlerTypes, Leave, Goto

(* The guarded write of a handler, whether it counted or not. *)
LEMMA SettleTypes ==
  ASSUME now \in Nat, RowTypes, HandlerTypes, NEW w, NEW s \in Terminal,
         NEW l \in {"tellCompleted", "tellFailed"}, Settle(w, s, l)
  PROVE  RowTypes' /\ HandlerTypes'
<1>1. CASE status[audit[w]] = "PROCESSING"
  BY <1>1, SetStatusTypes, HandlerStepTypes DEF Settle, Settleable, Statuses
<1>2. CASE status[audit[w]] # "PROCESSING"
  BY <1>2, HandlerStepTypes DEF Settle, Settleable, RowTypes, rowVars
<1> QED
  BY <1>1, <1>2

(* Going on to the next candidate, or ending the sweep. *)
LEMMA NextCandidateTypes ==
  ASSUME SweepTypes, NEW p \in Reapers, NEW rest \in SUBSET Audits, NextCandidate(p, rest),
         reaped' \in [Reapers -> Audits \union {NoAudit}]
  PROVE  SweepTypes'
<1>1. sweep' \in [Reapers -> {"idle", "loop", "tell"}]
  BY DEF SweepTypes, NextCandidate
<1>2. cutoff' \in [Reapers -> Int]
  BY DEF SweepTypes, NextCandidate
<1>3. candidates' \in [Reapers -> SUBSET Audits]
  BY DEF SweepTypes, NextCandidate
<1> QED
  BY <1>1, <1>2, <1>3 DEF SweepTypes

(* A notification of either outcome, or none. *)
LEMMA NotifiedTypes ==
  ASSUME notes \in [Audits -> Seq(Terminal)], NEW a, NEW s \in Terminal, Notified(a, s)
  PROVE  notes' \in [Audits -> Seq(Terminal)]
<1>1. CASE UNCHANGED notes
  BY <1>1
<1>2. CASE notes' = [notes EXCEPT ![a] = Append(@, s)]
  <2>1. a \in Audits => Append(notes[a], s) \in Seq(Terminal)
    OBVIOUS
  <2> QED
    BY <1>2, <2>1
<1> QED
  BY <1>1, <1>2 DEF Notified

(* Every variable keeps its type: the state of the pipeline's processes and rows. *)
THEOREM TypeCorrect == Spec => []TypeOK
<1>1. Init => TypeOK
  BY ConstantsOK DEF Init, TypeOK, RowTypes, RequestTypes, HandlerTypes, SweepTypes, Statuses
<1>2. TypeOK /\ [Next]_vars => TypeOK'
  <2> SUFFICES ASSUME TypeOK, [Next]_vars PROVE TypeOK'
    OBVIOUS
  <2> USE ConstantsOK DEF TypeOK, Claimable, Settleable, rowVars, workVars, reapVars
  <2>1. ASSUME NEW a \in Audits, CreateStep(a) PROVE TypeOK'
    <3> USE DEF RequestTypes, Respond
    <3>1. CASE CountInflight(a)
      BY <3>1 DEF CountInflight, RowTypes, HandlerTypes, SweepTypes
    <3>2. CASE CreateRow(a)
      BY <3>2 DEF CreateRow, RowTypes, HandlerTypes, SweepTypes, Statuses, InFlight
    <3>3. CASE Enqueue(a)
      BY <3>3 DEF Enqueue, RowTypes, HandlerTypes, SweepTypes
    <3>4. CASE EnqueueThrows(a)
      <4>1. RequestTypes'
        BY <3>4 DEF EnqueueThrows
      <4> QED
        BY <3>4, <4>1 DEF EnqueueThrows, RowTypes, HandlerTypes, SweepTypes
    <3>5. CASE FailOrphan(a)
      <4>1. RowTypes'
        BY <3>5, SetStatusTypes DEF FailOrphan, Statuses, Terminal
      <4> QED
        BY <3>5, <4>1 DEF FailOrphan, HandlerTypes, SweepTypes
    <3>6. CASE AbortRequest(a)
      BY <3>6 DEF AbortRequest, RowTypes, HandlerTypes, SweepTypes
    <3> QED
      BY <2>1, <3>1, <3>2, <3>3, <3>4, <3>5, <3>6 DEF CreateStep
  <2>2. ASSUME NEW w \in Workers, HandleStep(w) PROVE TypeOK'
    <3>1. ASSUME NEW a \in Audits, Deliver(w, a) PROVE TypeOK'
      BY <3>1 DEF Deliver, Deliverable, Goto, RowTypes, RequestTypes, HandlerTypes, SweepTypes
    <3>2. CASE Claim(w)
      <4>1. RowTypes' /\ HandlerTypes'
        <5>1. CASE status[audit[w]] = "PENDING"
          BY <3>2, <5>1, SetStatusTypes, HandlerStepTypes DEF Claim, Statuses, InFlight
        <5>2. CASE status[audit[w]] # "PENDING"
          BY <3>2, <5>2, HandlerStepTypes DEF Claim, RowTypes
        <5> QED
          BY <5>1, <5>2
      <4> QED
        BY <3>2, <4>1 DEF Claim, RequestTypes, SweepTypes
    <3>3. CASE Load(w)
      <4>1. HandlerTypes'
        BY <3>3, HandlerStepTypes DEF Load
      <4> QED
        BY <3>3, <4>1 DEF Load, RowTypes, RequestTypes, SweepTypes
    <3>4. CASE Complete(w)
      <4>1. RowTypes' /\ HandlerTypes'
        BY <3>4, SettleTypes DEF Complete, Terminal
      <4> QED
        BY <3>4, <4>1 DEF Complete, RequestTypes, SweepTypes
    <3>5. CASE RunThrows(w)
      <4>1. HandlerTypes'
        BY <3>5, HandlerStepTypes DEF RunThrows
      <4>2. RowTypes'
        BY <3>5, SetStatusTypes DEF RunThrows, RowTypes, Statuses, Terminal
      <4> QED
        BY <3>5, <4>1, <4>2 DEF RunThrows, RequestTypes, SweepTypes
    <3>6. CASE Fail(w)
      <4>1. RowTypes' /\ HandlerTypes'
        BY <3>6, SettleTypes DEF Fail, Terminal
      <4> QED
        BY <3>6, <4>1 DEF Fail, RequestTypes, SweepTypes
    <3>7. CASE NotifyAudit(w)
      <4>1. HandlerTypes'
        BY <3>7, HandlerStepTypes DEF NotifyAudit
      <4>2. notes' \in [Audits -> Seq(Terminal)]
        BY <3>7, NotifiedTypes DEF NotifyAudit, Terminal
      <4> QED
        BY <3>7, <4>1, <4>2 DEF NotifyAudit, RowTypes, RequestTypes, SweepTypes
    <3>8. CASE AbortHandler(w)
      <4>1. HandlerTypes'
        BY <3>8, HandlerStepTypes DEF AbortHandler
      <4> QED
        BY <3>8, <4>1 DEF AbortHandler, RowTypes, RequestTypes, SweepTypes
    <3> QED
      BY <2>2, <3>1, <3>2, <3>3, <3>4, <3>5, <3>6, <3>7, <3>8 DEF HandleStep
  <2>3. ASSUME NEW p \in Reapers, ReapStep(p) PROVE TypeOK'
    <3>1. CASE ReapScan(p)
      BY <3>1 DEF ReapScan, RowTypes, RequestTypes, HandlerTypes, SweepTypes
    <3>2. ASSUME NEW a \in Audits, ReapRow(p, a) PROVE TypeOK'
      <4>1. RowTypes' /\ SweepTypes'
        <5>1. CASE IsStale(a, cutoff[p])
          <6>1. RowTypes'
            BY <3>2, <5>1, SetStatusTypes DEF ReapRow, Statuses, Terminal
          <6>2. SweepTypes'
            <7>1. candidates' \in [Reapers -> SUBSET Audits]
              <8>1. candidates[p] \ {a} \in SUBSET Audits
                BY DEF SweepTypes
              <8>2. candidates' = [candidates EXCEPT ![p] = candidates[p] \ {a}]
                BY <3>2, <5>1 DEF ReapRow
              <8> QED
                BY <8>1, <8>2 DEF SweepTypes
            <7>2. sweep' \in [Reapers -> {"idle", "loop", "tell"}]
              BY <3>2, <5>1 DEF ReapRow, SweepTypes
            <7>3. reaped' \in [Reapers -> Audits \union {NoAudit}]
              BY <3>2, <5>1 DEF ReapRow, SweepTypes
            <7> QED
              BY <3>2, <5>1, <7>1, <7>2, <7>3 DEF ReapRow, SweepTypes
          <6> QED
            BY <6>1, <6>2
        <5>2. CASE ~IsStale(a, cutoff[p])
          BY <3>2, <5>2, NextCandidateTypes DEF ReapRow, RowTypes, SweepTypes
        <5> QED
          BY <5>1, <5>2
      <4> QED
        BY <3>2, <4>1 DEF ReapRow, RequestTypes, HandlerTypes
    <3>3. CASE ReapNotify(p)
      <4>1. SweepTypes'
        BY <3>3, NextCandidateTypes DEF ReapNotify, SweepTypes
      <4>2. notes' \in [Audits -> Seq(Terminal)]
        BY <3>3, NotifiedTypes DEF ReapNotify, Terminal
      <4> QED
        BY <3>3, <4>1, <4>2 DEF ReapNotify, RowTypes, RequestTypes, HandlerTypes
    <3>4. CASE AbortSweep(p)
      <4>1. SweepTypes'
        BY <3>4, NextCandidateTypes DEF AbortSweep, SweepTypes
      <4> QED
        BY <3>4, <4>1 DEF AbortSweep, RowTypes, RequestTypes, HandlerTypes
    <3> QED
      BY <2>3, <3>1, <3>2, <3>3, <3>4 DEF ReapStep
  <2>4. CASE PurgeOld
    BY <2>4 DEF PurgeOld, Exists, RowTypes, RequestTypes, HandlerTypes, SweepTypes, Statuses
  <2>5. CASE Tick
    BY <2>5 DEF Tick, RowTypes, RequestTypes, HandlerTypes, SweepTypes
  <2>6. CASE UNCHANGED vars
    BY <2>6 DEF vars, RowTypes, RequestTypes, HandlerTypes, SweepTypes
  <2> QED
    BY <2>1, <2>2, <2>3, <2>4, <2>5, <2>6 DEF Next
<1> QED
  BY <1>1, <1>2, PTL DEF Spec

(* Leaving a handler frees its audit and disturbs nobody. *)
LEMMA LeaveKeepsIInv ==
  ASSUME TypeOK, IInv, NEW w \in Workers, Leave(w),
         UNCHANGED <<now, rowVars, request, notes, reapVars>>
  PROVE  IInv'
<1> USE ConstantsOK DEF IInv, TypeOK, RowTypes, RequestTypes, HandlerTypes, SweepTypes,
        InFlight, Terminal, Statuses, Claimable, Settleable, rowVars, workVars, reapVars
<1>1. HoldersInv'
  BY DEF Leave, Goto, HoldersInv
<1>2. OwnerInv'
  BY DEF Leave, Goto, OwnerInv, HoldersInv, RequestInv, Owns
<1>3. HandlerTellsInv'
  BY DEF Leave, Goto, HandlerTellsInv, NotesInv, SoleTellerInv, OwnerInv, HoldersInv,
        RequestInv, Owns, Tells, Settled
<1>4. SoleTellerInv'
  BY DEF Leave, Goto, SoleTellerInv, ReaperTellsInv, HandlerTellsInv, OwnerInv, HoldersInv,
        Owns, Tells, Settled
<1> QED
  BY <1>1, <1>2, <1>3, <1>4 DEF Leave, Goto, RequestInv, NotesInv, ReaperTellsInv, CutoffInv

(* The guarded write of a handler settles an audit nobody has told the user of. *)
LEMMA SettleKeepsIInv ==
  ASSUME TypeOK, IInv, NEW w \in Workers, at[w] \in {"run", "catch"},
         NEW s \in Terminal, NEW l \in {"tellCompleted", "tellFailed"}, Settle(w, s, l),
         UNCHANGED <<now, request, notes, reapVars>>
  PROVE  IInv'
<1> USE ConstantsOK DEF IInv, TypeOK, RowTypes, RequestTypes, HandlerTypes, SweepTypes,
        InFlight, Terminal, Statuses, Claimable, Settleable, rowVars, workVars, reapVars
<1>1. CASE status[audit[w]] # "PROCESSING"
  BY <1>1, LeaveKeepsIInv DEF Settle
<1>2. CASE status[audit[w]] = "PROCESSING"
  <2> /\ audit[w] \in Audits
      /\ status' = [status EXCEPT ![audit[w]] = s]
      /\ at' = [at EXCEPT ![w] = l]
      /\ UNCHANGED audit
    BY <1>2 DEF Settle, SetStatus, Goto, HoldersInv
  <2>1. HoldersInv'
    BY <1>2 DEF Settle, HoldersInv
  <2>2. RequestInv'
    BY <1>2 DEF Settle, RequestInv
  <2>3. OwnerInv'
    BY <1>2 DEF Settle, OwnerInv, HoldersInv, RequestInv, Owns
  <2>4. NotesInv'
    BY <1>2 DEF Settle, NotesInv, HandlerTellsInv, ReaperTellsInv, HoldersInv, RequestInv,
          Tells, Settled
  <2>5. HandlerTellsInv'
    BY <1>2 DEF Settle, HandlerTellsInv, NotesInv, SoleTellerInv, OwnerInv, HoldersInv,
          RequestInv, Owns, Tells, Settled
  <2>6. ReaperTellsInv'
    BY <1>2 DEF Settle, ReaperTellsInv, NotesInv, SoleTellerInv, HoldersInv, RequestInv,
          Tells, Settled
  <2>7. SoleTellerInv'
    <3>1. \A p \in Reapers : sweep[p] = "tell" => reaped[p] # audit[w]
      BY <1>2 DEF ReaperTellsInv, Settled
    <3> QED
      BY <3>1 DEF SoleTellerInv, HoldersInv, Tells
  <2> QED
    BY <1>2, <2>1, <2>2, <2>3, <2>4, <2>5, <2>6, <2>7 DEF Settle, CutoffInv
<1> QED
  BY <1>1, <1>2

(* Every step of the pipeline preserves the inductive invariant. *)
LEMMA StepKeepsIInv ==
  ASSUME TypeOK, IInv, [Next]_vars
  PROVE  IInv'
<1> USE ConstantsOK DEF IInv, TypeOK, RowTypes, RequestTypes, HandlerTypes, SweepTypes,
        InFlight, Terminal, Statuses, Claimable, Settleable, rowVars, workVars, reapVars
<1>1. ASSUME NEW a \in Audits, CreateStep(a) PROVE IInv'
  <2>1. CASE CountInflight(a)
    <3>1. RequestInv'
      BY <2>1 DEF CountInflight, Respond, RequestInv
    <3> QED
      BY <2>1, <3>1 DEF CountInflight, Respond, HoldersInv, OwnerInv, NotesInv,
            HandlerTellsInv, ReaperTellsInv, SoleTellerInv, CutoffInv, Owns, Tells
  <2>2. CASE CreateRow(a)
    <3>1. RequestInv'
      BY <2>2 DEF CreateRow, Respond, RequestInv
    <3>2. OwnerInv'
      BY <2>2 DEF CreateRow, Respond, OwnerInv, HoldersInv, RequestInv, Owns
    <3>3. NotesInv'
      BY <2>2 DEF CreateRow, Respond, NotesInv, HandlerTellsInv, ReaperTellsInv, HoldersInv,
            RequestInv, Tells, Settled
    <3>4. HandlerTellsInv'
      BY <2>2 DEF CreateRow, Respond, HandlerTellsInv, NotesInv, SoleTellerInv, OwnerInv,
            HoldersInv, RequestInv, Owns, Tells, Settled
    <3>5. ReaperTellsInv'
      BY <2>2 DEF CreateRow, Respond, ReaperTellsInv, NotesInv, SoleTellerInv, HoldersInv,
            RequestInv, Tells, Settled
    <3> QED
      BY <2>2, <3>1, <3>2, <3>3, <3>4, <3>5 DEF CreateRow, Respond, HoldersInv, SoleTellerInv,
            CutoffInv, Tells
  <2>3. CASE Enqueue(a)
    <3>1. RequestInv'
      BY <2>3 DEF Enqueue, Respond, RequestInv
    <3> QED
      BY <2>3, <3>1 DEF Enqueue, Respond, HoldersInv, OwnerInv, NotesInv, HandlerTellsInv,
            ReaperTellsInv, SoleTellerInv, CutoffInv, Owns, Tells
  <2>4. CASE EnqueueThrows(a)
    <3>1. RequestInv'
      BY <2>4 DEF EnqueueThrows, Respond, RequestInv
    <3> QED
      BY <2>4, <3>1 DEF EnqueueThrows, Respond, HoldersInv, OwnerInv, NotesInv,
            HandlerTellsInv, ReaperTellsInv, SoleTellerInv, CutoffInv, Owns, Tells
  <2>5. CASE FailOrphan(a)
    <3>1. RequestInv'
      BY <2>5 DEF FailOrphan, Respond, SetStatus, Exists, RequestInv
    <3>2. OwnerInv'
      BY <2>5 DEF FailOrphan, Respond, SetStatus, Exists, OwnerInv, HoldersInv, RequestInv, Owns
    <3>3. NotesInv'
      BY <2>5 DEF FailOrphan, Respond, SetStatus, Exists, NotesInv, HandlerTellsInv,
            ReaperTellsInv, HoldersInv, RequestInv, Tells, Settled
    <3>4. HandlerTellsInv'
      BY <2>5 DEF FailOrphan, Respond, SetStatus, Exists, HandlerTellsInv, NotesInv,
            SoleTellerInv, OwnerInv, HoldersInv, RequestInv, Owns, Tells, Settled
    <3>5. ReaperTellsInv'
      BY <2>5 DEF FailOrphan, Respond, SetStatus, Exists, ReaperTellsInv, NotesInv,
            SoleTellerInv, HoldersInv, RequestInv, Tells, Settled
    <3> QED
      BY <2>5, <3>1, <3>2, <3>3, <3>4, <3>5 DEF FailOrphan, Respond, SetStatus, Exists,
            HoldersInv, SoleTellerInv, CutoffInv, Tells
  <2>6. CASE AbortRequest(a)
    <3>1. RequestInv'
      BY <2>6 DEF AbortRequest, Respond, RequestInv
    <3> QED
      BY <2>6, <3>1 DEF AbortRequest, Respond, HoldersInv, OwnerInv, NotesInv,
            HandlerTellsInv, ReaperTellsInv, SoleTellerInv, CutoffInv, Owns, Tells
  <2> QED
    BY <1>1, <2>1, <2>2, <2>3, <2>4, <2>5, <2>6 DEF CreateStep
<1>2. ASSUME NEW w \in Workers, HandleStep(w) PROVE IInv'
  <2>1. ASSUME NEW a \in Audits, Deliver(w, a) PROVE IInv'
    <3>1. HoldersInv'
      BY <2>1 DEF Deliver, Goto, HoldersInv
    <3>2. OwnerInv'
      BY <2>1 DEF Deliver, Goto, OwnerInv, HoldersInv, RequestInv, Owns
    <3>3. HandlerTellsInv'
      BY <2>1 DEF Deliver, Goto, HandlerTellsInv, NotesInv, SoleTellerInv, OwnerInv,
            HoldersInv, RequestInv, Owns, Tells, Settled
    <3>4. SoleTellerInv'
      BY <2>1 DEF Deliver, Goto, SoleTellerInv, ReaperTellsInv, HandlerTellsInv, OwnerInv,
            HoldersInv, Owns, Tells, Settled
    <3> QED
      BY <2>1, <3>1, <3>2, <3>3, <3>4 DEF Deliver, Goto, RequestInv, NotesInv, ReaperTellsInv,
            CutoffInv
  <2>2. CASE Claim(w)
    <3>1. CASE status[audit[w]] # "PENDING"
      BY <2>2, <3>1, LeaveKeepsIInv DEF Claim
    <3>2. CASE status[audit[w]] = "PENDING"
      <4> /\ audit[w] \in Audits
          /\ at[w] = "claim"
          /\ status' = [status EXCEPT ![audit[w]] = "PROCESSING"]
          /\ at' = [at EXCEPT ![w] = "load"]
          /\ UNCHANGED audit
        BY <2>2, <3>2 DEF Claim, SetStatus, Goto, HoldersInv
      <4>1. HoldersInv'
        BY <2>2, <3>2 DEF Claim, HoldersInv
      <4>2. RequestInv'
        BY <2>2, <3>2 DEF Claim, RequestInv
      <4>3. OwnerInv'
        BY <2>2, <3>2 DEF Claim, OwnerInv, HoldersInv, RequestInv, Owns
      <4>4. NotesInv'
        BY <2>2, <3>2 DEF Claim, NotesInv, HandlerTellsInv, ReaperTellsInv, HoldersInv,
              RequestInv, Tells, Settled
      <4>5. HandlerTellsInv'
        BY <2>2, <3>2 DEF Claim, HandlerTellsInv, NotesInv, SoleTellerInv, OwnerInv,
              HoldersInv, RequestInv, Owns, Tells, Settled
      <4>6. ReaperTellsInv'
        BY <2>2, <3>2 DEF Claim, ReaperTellsInv, NotesInv, SoleTellerInv, HoldersInv,
              RequestInv, Tells, Settled
      <4>7. SoleTellerInv'
        BY <2>2, <3>2 DEF Claim, SoleTellerInv, ReaperTellsInv, HandlerTellsInv, OwnerInv,
              HoldersInv, Owns, Tells, Settled
      <4> QED
        BY <2>2, <3>2, <4>1, <4>2, <4>3, <4>4, <4>5, <4>6, <4>7 DEF Claim, CutoffInv
    <3> QED
      BY <3>1, <3>2
  <2>3. CASE Load(w)
    <3>1. CASE ~Exists(audit[w])
      BY <2>3, <3>1, LeaveKeepsIInv DEF Load
    <3>2. CASE Exists(audit[w])
      <4> /\ at[w] = "load"
          /\ at' = [at EXCEPT ![w] = "run"]
          /\ UNCHANGED <<now, audit, status, request, notes, sweep, cutoff, candidates, reaped>>
        BY <2>3, <3>2 DEF Load, Goto
      <4>1. HoldersInv'
        BY DEF HoldersInv
      <4>2. OwnerInv'
        BY DEF OwnerInv, HoldersInv, RequestInv, Owns
      <4>3. HandlerTellsInv'
        BY DEF HandlerTellsInv, NotesInv, SoleTellerInv, OwnerInv,
              HoldersInv, RequestInv, Owns, Tells, Settled
      <4>4. SoleTellerInv'
        BY DEF SoleTellerInv, ReaperTellsInv, HandlerTellsInv,
              OwnerInv, HoldersInv, Owns, Tells, Settled
      <4> QED
        BY <2>3, <3>2, <4>1, <4>2, <4>3, <4>4 DEF Load, Goto, RequestInv, NotesInv,
              ReaperTellsInv, CutoffInv
    <3> QED
      BY <3>1, <3>2
  <2>4. CASE Complete(w)
    BY <2>4, SettleKeepsIInv DEF Complete
  <2>5. CASE RunThrows(w)
    <3>1. HoldersInv'
      BY <2>5 DEF RunThrows, SetStatus, Goto, HoldersInv
    <3>2. RequestInv'
      BY <2>5 DEF RunThrows, SetStatus, Goto, RequestInv
    <3>3. OwnerInv'
      BY <2>5 DEF RunThrows, SetStatus, Goto, OwnerInv, HoldersInv, RequestInv, Owns
    <3>4. NotesInv'
      BY <2>5 DEF RunThrows, SetStatus, Goto, NotesInv, HandlerTellsInv, ReaperTellsInv,
            HoldersInv, RequestInv, Tells, Settled
    <3>5. HandlerTellsInv'
      BY <2>5 DEF RunThrows, SetStatus, Goto, HandlerTellsInv, NotesInv, SoleTellerInv,
            OwnerInv, HoldersInv, RequestInv, Owns, Tells, Settled
    <3>6. ReaperTellsInv'
      BY <2>5 DEF RunThrows, SetStatus, Goto, ReaperTellsInv, NotesInv, SoleTellerInv,
            HoldersInv, RequestInv, Tells, Settled
    <3>7. SoleTellerInv'
      BY <2>5 DEF RunThrows, SetStatus, Goto, SoleTellerInv, ReaperTellsInv, HandlerTellsInv,
            OwnerInv, HoldersInv, Owns, Tells, Settled
    <3> QED
      BY <2>5, <3>1, <3>2, <3>3, <3>4, <3>5, <3>6, <3>7 DEF RunThrows, SetStatus, Goto, CutoffInv
  <2>6. CASE Fail(w)
    BY <2>6, SettleKeepsIInv DEF Fail
  <2>7. CASE NotifyAudit(w)
    <3>1. CASE UNCHANGED notes
      BY <2>7, <3>1, LeaveKeepsIInv DEF NotifyAudit
    <3>2. ASSUME NEW s \in Terminal, notes' = [notes EXCEPT ![audit[w]] = Append(@, s)]
          PROVE  IInv'
      <4> /\ audit[w] \in Audits
          /\ Tells(w)
          /\ notes' = [notes EXCEPT ![audit[w]] = <<s>>]
          /\ at' = [at EXCEPT ![w] = "idle"]
          /\ audit' = [audit EXCEPT ![w] = NoAudit]
        <5>1. audit[w] \in Audits /\ Tells(w) /\ notes[audit[w]] = <<>>
          BY <2>7 DEF NotifyAudit, HoldersInv, HandlerTellsInv, Tells
        <5>2. Append(<<>>, s) = <<s>>
          OBVIOUS
        <5> QED
          BY <2>7, <3>2, <5>1, <5>2 DEF NotifyAudit, Leave, Goto
      <4>1. HoldersInv'
        BY <2>7, <3>2 DEF NotifyAudit, HoldersInv
      <4>2. OwnerInv'
        BY <2>7, <3>2 DEF NotifyAudit, OwnerInv, HoldersInv, RequestInv, Owns
      <4>3. NotesInv'
        BY <2>7, <3>2 DEF NotifyAudit, NotesInv, HandlerTellsInv, ReaperTellsInv, HoldersInv,
              RequestInv, Tells, Settled
      <4>4. HandlerTellsInv'
        <5>1. \A v \in Workers : Tells(v) /\ v # w => audit[v] # audit[w]
          BY DEF OwnerInv, Owns, Tells
        <5> QED
          BY <2>7, <5>1 DEF NotifyAudit, HandlerTellsInv, HoldersInv, Tells
      <4>5. ReaperTellsInv'
        BY <2>7, <3>2 DEF NotifyAudit, ReaperTellsInv, NotesInv, SoleTellerInv, HoldersInv,
              RequestInv, Tells, Settled
      <4>6. SoleTellerInv'
        BY <2>7, <3>2 DEF NotifyAudit, SoleTellerInv, ReaperTellsInv, HandlerTellsInv,
              OwnerInv, HoldersInv, Owns, Tells, Settled
      <4> QED
        BY <2>7, <3>2, <4>1, <4>2, <4>3, <4>4, <4>5, <4>6 DEF NotifyAudit, RequestInv, CutoffInv
    <3> QED
      BY <2>7, <3>1, <3>2 DEF NotifyAudit, Notified
  <2>8. CASE AbortHandler(w)
    BY <2>8, LeaveKeepsIInv DEF AbortHandler
  <2> QED
    BY <1>2, <2>1, <2>2, <2>3, <2>4, <2>5, <2>6, <2>7, <2>8 DEF HandleStep
<1>3. ASSUME NEW p \in Reapers, ReapStep(p) PROVE IInv'
  <2>1. CASE ReapScan(p)
    <3>1. HoldersInv'
      BY <2>1 DEF ReapScan, HoldersInv
    <3>2. ReaperTellsInv'
      BY <2>1 DEF ReapScan, ReaperTellsInv, NotesInv, SoleTellerInv, HoldersInv, RequestInv,
            Tells, Settled
    <3>3. SoleTellerInv'
      BY <2>1 DEF ReapScan, SoleTellerInv, ReaperTellsInv, HandlerTellsInv, OwnerInv,
            HoldersInv, Owns, Tells, Settled
    <3>4. CutoffInv'
      BY <2>1 DEF ReapScan, CutoffInv
    <3> QED
      BY <2>1, <3>1, <3>2, <3>3, <3>4 DEF ReapScan, RequestInv, OwnerInv, NotesInv,
            HandlerTellsInv, Owns, Tells
  <2>2. ASSUME NEW a \in Audits, ReapRow(p, a) PROVE IInv'
    <3>1. CASE ~IsStale(a, cutoff[p])
      <4>1. HoldersInv'
        BY <2>2, <3>1 DEF ReapRow, NextCandidate, HoldersInv
      <4>2. ReaperTellsInv'
        BY <2>2, <3>1 DEF ReapRow, NextCandidate, ReaperTellsInv, NotesInv, SoleTellerInv,
              HoldersInv, RequestInv, Tells, Settled
      <4>3. SoleTellerInv'
        BY <2>2, <3>1 DEF ReapRow, NextCandidate, SoleTellerInv, ReaperTellsInv,
              HandlerTellsInv, OwnerInv, HoldersInv, Owns, Tells, Settled
      <4>4. CutoffInv'
        BY <2>2, <3>1 DEF ReapRow, NextCandidate, CutoffInv
      <4> QED
        BY <2>2, <3>1, <4>1, <4>2, <4>3, <4>4 DEF ReapRow, NextCandidate, RequestInv,
              OwnerInv, NotesInv, HandlerTellsInv, Owns, Tells
    <3>2. CASE IsStale(a, cutoff[p])
      <4> /\ status[a] \in InFlight
          /\ sweep[p] = "loop"
          /\ status' = [status EXCEPT ![a] = "FAILED"]
          /\ sweep' = [sweep EXCEPT ![p] = "tell"]
          /\ reaped' = [reaped EXCEPT ![p] = a]
          /\ UNCHANGED <<cutoff, now, request, notes, at, audit>>
        BY <2>2, <3>2 DEF ReapRow, IsStale, SetStatus
      <4>1. HoldersInv'
        BY <2>2, <3>2 DEF ReapRow, HoldersInv
      <4>2. RequestInv'
        BY <2>2, <3>2 DEF ReapRow, RequestInv
      <4>3. OwnerInv'
        BY <2>2, <3>2 DEF ReapRow, OwnerInv, HoldersInv, RequestInv, Owns
      <4>4. NotesInv'
        BY <2>2, <3>2 DEF ReapRow, NotesInv, HandlerTellsInv, ReaperTellsInv, HoldersInv,
              RequestInv, Tells, Settled
      <4>5. HandlerTellsInv'
        BY <2>2, <3>2 DEF ReapRow, HandlerTellsInv, NotesInv, SoleTellerInv, OwnerInv,
              HoldersInv, RequestInv, Owns, Tells, Settled
      <4>6. ReaperTellsInv'
        <5>1. notes[a] = <<>>
          BY DEF NotesInv, Settled
        <5> QED
          BY <5>1 DEF ReaperTellsInv, Settled
      <4>7. SoleTellerInv'
        <5>1. /\ \A q \in Reapers : sweep[q] = "tell" => reaped[q] # a
              /\ \A w \in Workers : Tells(w) => audit[w] # a
          BY DEF ReaperTellsInv, HandlerTellsInv, Settled
        <5> QED
          BY <5>1 DEF SoleTellerInv, HoldersInv, Tells
      <4>8. CutoffInv'
        BY <2>2, <3>2 DEF ReapRow, CutoffInv
      <4> QED
        BY <4>1, <4>2, <4>3, <4>4, <4>5, <4>6, <4>7, <4>8
    <3> QED
      BY <3>1, <3>2
  <2>3. CASE ReapNotify(p)
    <3>1. CASE UNCHANGED notes
      <4>1. HoldersInv'
        BY <2>3, <3>1 DEF ReapNotify, NextCandidate, HoldersInv
      <4>2. ReaperTellsInv'
        BY <2>3, <3>1 DEF ReapNotify, NextCandidate, ReaperTellsInv, NotesInv, SoleTellerInv,
              HoldersInv, RequestInv, Tells, Settled
      <4>3. SoleTellerInv'
        BY <2>3, <3>1 DEF ReapNotify, NextCandidate, SoleTellerInv, ReaperTellsInv,
              HandlerTellsInv, OwnerInv, HoldersInv, Owns, Tells, Settled
      <4>4. CutoffInv'
        BY <2>3, <3>1 DEF ReapNotify, NextCandidate, CutoffInv
      <4> QED
        BY <2>3, <3>1, <4>1, <4>2, <4>3, <4>4 DEF ReapNotify, NextCandidate, RequestInv,
              OwnerInv, NotesInv, HandlerTellsInv, Owns, Tells
    <3>2. CASE notes' = [notes EXCEPT ![reaped[p]] = Append(@, "FAILED")]
      <4> /\ reaped[p] \in Audits
          /\ sweep[p] = "tell"
          /\ notes' = [notes EXCEPT ![reaped[p]] = <<"FAILED">>]
          /\ sweep' = [sweep EXCEPT ![p] = IF candidates[p] = {} THEN "idle" ELSE "loop"]
          /\ reaped' = [reaped EXCEPT ![p] = NoAudit]
        <5>1. reaped[p] \in Audits /\ notes[reaped[p]] = <<>>
          BY <2>3 DEF ReapNotify, HoldersInv, ReaperTellsInv
        <5>2. Append(<<>>, "FAILED") = <<"FAILED">>
          OBVIOUS
        <5> QED
          BY <2>3, <3>2, <5>1, <5>2 DEF ReapNotify, NextCandidate
      <4>1. HoldersInv'
        BY <2>3, <3>2 DEF ReapNotify, NextCandidate, HoldersInv
      <4>2. NotesInv'
        BY <2>3, <3>2 DEF ReapNotify, NextCandidate, NotesInv, HandlerTellsInv,
              ReaperTellsInv, HoldersInv, RequestInv, Tells, Settled
      <4>3. HandlerTellsInv'
        BY <2>3, <3>2 DEF ReapNotify, NextCandidate, HandlerTellsInv, NotesInv, SoleTellerInv,
              OwnerInv, HoldersInv, RequestInv, Owns, Tells, Settled
      <4>4. ReaperTellsInv'
        BY <2>3, <3>2 DEF ReapNotify, NextCandidate, ReaperTellsInv, NotesInv, SoleTellerInv,
              HoldersInv, RequestInv, Tells, Settled
      <4>5. SoleTellerInv'
        BY <2>3, <3>2 DEF ReapNotify, NextCandidate, SoleTellerInv, ReaperTellsInv,
              HandlerTellsInv, OwnerInv, HoldersInv, Owns, Tells, Settled
      <4>6. CutoffInv'
        BY <2>3, <3>2 DEF ReapNotify, NextCandidate, CutoffInv
      <4> QED
        BY <2>3, <3>2, <4>1, <4>2, <4>3, <4>4, <4>5, <4>6 DEF ReapNotify, NextCandidate,
              RequestInv, OwnerInv, Owns
    <3> QED
      BY <2>3, <3>1, <3>2 DEF ReapNotify, Notified
  <2>4. CASE AbortSweep(p)
    <3>1. HoldersInv'
      BY <2>4 DEF AbortSweep, NextCandidate, HoldersInv
    <3>2. ReaperTellsInv'
      BY <2>4 DEF AbortSweep, NextCandidate, ReaperTellsInv, NotesInv, SoleTellerInv,
            HoldersInv, RequestInv, Tells, Settled
    <3>3. SoleTellerInv'
      BY <2>4 DEF AbortSweep, NextCandidate, SoleTellerInv, ReaperTellsInv, HandlerTellsInv,
            OwnerInv, HoldersInv, Owns, Tells, Settled
    <3>4. CutoffInv'
      BY <2>4 DEF AbortSweep, NextCandidate, CutoffInv
    <3> QED
      BY <2>4, <3>1, <3>2, <3>3, <3>4 DEF AbortSweep, NextCandidate, RequestInv, OwnerInv,
            NotesInv, HandlerTellsInv, Owns, Tells
  <2> QED
    BY <1>3, <2>1, <2>2, <2>3, <2>4 DEF ReapStep
<1>4. CASE PurgeOld
  <2>1. RequestInv'
    BY <1>4 DEF PurgeOld, Exists, RequestInv
  <2>2. OwnerInv'
    BY <1>4 DEF PurgeOld, Exists, OwnerInv, HoldersInv, RequestInv, Owns
  <2>3. NotesInv'
    BY <1>4 DEF PurgeOld, Exists, NotesInv, HandlerTellsInv, ReaperTellsInv, HoldersInv,
          RequestInv, Tells, Settled
  <2>4. HandlerTellsInv'
    BY <1>4 DEF PurgeOld, Exists, HandlerTellsInv, NotesInv, SoleTellerInv, OwnerInv,
          HoldersInv, RequestInv, Owns, Tells, Settled
  <2>5. ReaperTellsInv'
    BY <1>4 DEF PurgeOld, Exists, ReaperTellsInv, NotesInv, SoleTellerInv, HoldersInv,
          RequestInv, Tells, Settled
  <2> QED
    BY <1>4, <2>1, <2>2, <2>3, <2>4, <2>5 DEF PurgeOld, Exists, HoldersInv, SoleTellerInv,
          CutoffInv, Tells
<1>5. CASE Tick
  <2>1. CutoffInv'
    BY <1>5 DEF Tick, CutoffInv
  <2> QED
    BY <1>5, <2>1 DEF Tick, HoldersInv, RequestInv, OwnerInv, NotesInv, HandlerTellsInv,
          ReaperTellsInv, SoleTellerInv, Owns, Tells
<1>6. CASE UNCHANGED vars
  BY <1>6 DEF vars, HoldersInv, RequestInv, OwnerInv, NotesInv, HandlerTellsInv, ReaperTellsInv,
          SoleTellerInv, CutoffInv, Owns, Tells
<1> QED
  BY <1>1, <1>2, <1>3, <1>4, <1>5, <1>6 DEF Next

(* The inductive invariant: from the claim on an audit has one handler, and    *)
(* whoever settled it is the only one about to notify.                         *)
THEOREM Ownership == Spec => []IInv
<1>1. Init => IInv
  BY DEF Init, IInv, HoldersInv, RequestInv, OwnerInv, NotesInv, HandlerTellsInv, ReaperTellsInv,
         SoleTellerInv, CutoffInv, Owns, Tells
<1>2. TypeOK /\ IInv /\ [Next]_vars => IInv'
  BY StepKeepsIInv
<1> QED
  BY <1>1, <1>2, TypeCorrect, PTL DEF Spec

(* Handlers, redelivered jobs and reapers together notify the user of an audit *)
(* at most once.                                                               *)
THEOREM NotifiedOnce == Spec => []AtMostOneNotification
<1>1. IInv => AtMostOneNotification
  <2> SUFFICES ASSUME IInv, NEW a \in Audits PROVE Len(notes[a]) <= 1
    BY DEF AtMostOneNotification
  <2>1. notes[a] \in {<<>>, <<"COMPLETED">>, <<"FAILED">>}
    BY DEF IInv, NotesInv
  <2>2. CASE notes[a] = <<>>
    BY <2>2
  <2>3. CASE notes[a] = <<"COMPLETED">>
    BY <2>3
  <2>4. CASE notes[a] = <<"FAILED">>
    BY <2>4
  <2> QED
    BY <2>1, <2>2, <2>3, <2>4
<1> QED
  BY <1>1, Ownership, PTL

(* The claim excludes: no two handlers run the same audit. *)
THEOREM ClaimExcludes == Spec => []HandledByOne
<1>1. IInv => HandledByOne
  BY DEF IInv, OwnerInv, HandledByOne, PastClaim, Owns
<1> QED
  BY <1>1, Ownership, PTL

(* A request that answered with an error left an audit that is failed or gone, *)
(* even when its job was stored and a worker had it.                           *)
THEOREM ErrorsLeaveFailed == Spec => []ErroredRequestLeavesFailedAudit
<1>1. IInv => ErroredRequestLeavesFailedAudit
  BY DEF IInv, RequestInv, ErroredRequestLeavesFailedAudit
<1> QED
  BY <1>1, Ownership, PTL

(* A reaper fails no audit written within the staleness window: its cutoff is  *)
(* never later than the window, and the row is compared with it again.         *)
THEOREM ReapsOnlyStale == Spec => FreshAuditsAreNotReaped
<1> DEFINE Reaps(a, p) == status[a] \in InFlight /\ reaped[p] # a /\ reaped'[p] = a
           Step == \A a \in Audits, p \in Reapers : Reaps(a, p) => updatedAt[a] + Stale < now
<1>1. TypeOK /\ IInv /\ [Next]_vars => [Step]_vars
  <2> SUFFICES ASSUME TypeOK, IInv, Next, NEW a \in Audits, NEW p \in Reapers, Reaps(a, p)
               PROVE  updatedAt[a] + Stale < now
    OBVIOUS
  <2>1. PICK q \in Reapers, b \in Audits : ReapRow(q, b) /\ reaped' # reaped
    <3> USE DEF TypeOK, SweepTypes, reapVars, workVars, rowVars
    <3>1. NoAudit # a
      BY ConstantsOK
    <3>2. \A r \in Reapers : ReapNotify(r) \/ AbortSweep(r) => reaped'[p] # a
      BY <3>1 DEF ReapNotify, AbortSweep
    <3>3. reaped' # reaped
      OBVIOUS
    <3>4. ASSUME NEW b \in Audits, CreateStep(b) PROVE FALSE
      BY <3>3, <3>4 DEF CreateStep, CountInflight, CreateRow, Enqueue, EnqueueThrows, FailOrphan, AbortRequest
    <3>5. ASSUME NEW w \in Workers, HandleStep(w) PROVE FALSE
      BY <3>3, <3>5 DEF HandleStep, Deliver, Claim, Load, Complete, RunThrows, Fail, NotifyAudit, AbortHandler
    <3>6. ~PurgeOld /\ ~Tick
      BY <3>3 DEF PurgeOld, Tick
    <3>7. PICK r \in Reapers : ReapStep(r)
      BY <3>4, <3>5, <3>6 DEF Next
    <3>8. ~ReapScan(r)
      BY <3>3 DEF ReapScan
    <3> QED
      BY <3>2, <3>3, <3>7, <3>8 DEF ReapStep
  <2>2. IsStale(b, cutoff[q]) /\ reaped' = [reaped EXCEPT ![q] = b]
    BY <2>1 DEF ReapRow
  <2>3. q = p /\ b = a
    BY <2>2 DEF TypeOK, SweepTypes
  <2>4. updatedAt[a] < cutoff[p] /\ cutoff[p] <= now - Stale
    BY <2>1, <2>2, <2>3 DEF IInv, CutoffInv, ReapRow, IsStale
  <2>5. updatedAt[a] \in Int /\ cutoff[p] \in Int /\ now \in Int /\ Stale \in Int
    BY ConstantsOK DEF TypeOK, RowTypes, SweepTypes
  <2> QED
    BY <2>4, <2>5
<1> QED
  BY <1>1, TypeCorrect, Ownership, PTL DEF Spec, FreshAuditsAreNotReaped

(* A row that was settled stands: no step but the catch of create() and the    *)
(* retention sweep writes it, so it goes on saying what it said.               *)
LEMMA SettledRowsStand ==
  ASSUME TypeOK, IInv, [Next]_vars, NEW a \in Audits, NEW o, status[a] \in Settled, Says(a, o)
  PROVE  Says(a, o)'
<1> USE DEF TypeOK, RowTypes, RequestTypes, HandlerTypes, SweepTypes, rowVars, workVars, reapVars,
        InFlight, Terminal, Settled
<1>1. ASSUME NEW b \in Audits, CreateStep(b) PROVE Says(a, o)'
  <2>1. CASE CountInflight(b)
    BY <2>1 DEF CountInflight, Respond, Says
  <2>2. CASE CreateRow(b)
    BY <2>2 DEF CreateRow, Respond, Says, IInv, RequestInv
  <2>3. CASE Enqueue(b)
    BY <2>3 DEF Enqueue, Respond, Says
  <2>4. CASE EnqueueThrows(b)
    BY <2>4 DEF EnqueueThrows, Respond, Says
  <2>5. CASE FailOrphan(b)
    BY <2>5 DEF FailOrphan, SetStatus, Respond, Says
  <2>6. CASE AbortRequest(b)
    BY <2>6 DEF AbortRequest, Respond, Says
  <2> QED
    BY <1>1, <2>1, <2>2, <2>3, <2>4, <2>5, <2>6 DEF CreateStep
<1>2. ASSUME NEW w \in Workers, HandleStep(w) PROVE Says(a, o)'
  <2>1. UNCHANGED request
    BY <1>2 DEF HandleStep, Deliver, Claim, Load, Complete, RunThrows, Fail, NotifyAudit,
          AbortHandler
  <2>2. status'[a] = status[a]
    BY <1>2 DEF HandleStep, Deliver, Claim, Load, Complete, RunThrows, Fail, NotifyAudit,
          AbortHandler, Settle, SetStatus, Claimable, Settleable
  <2> QED
    BY <2>1, <2>2 DEF Says
<1>3. ASSUME NEW p \in Reapers, ReapStep(p) PROVE Says(a, o)'
  <2>1. UNCHANGED request
    BY <1>3 DEF ReapStep, ReapScan, ReapRow, ReapNotify, AbortSweep
  <2>2. status'[a] = status[a]
    BY <1>3 DEF ReapStep, ReapScan, ReapRow, ReapNotify, AbortSweep, SetStatus, IsStale
  <2> QED
    BY <2>1, <2>2 DEF Says
<1>4. CASE PurgeOld
  BY <1>4 DEF PurgeOld, Says
<1>5. CASE Tick \/ UNCHANGED vars
  BY <1>5 DEF Tick, vars, Says
<1> QED
  BY <1>1, <1>2, <1>3, <1>4, <1>5 DEF Next

\* What a handler at its notification is about to tell.
Outcome(w) == IF at[w] = "tellCompleted" THEN "COMPLETED" ELSE "FAILED"

(* A handler that is about to tell was so before, or has just written the row. *)
LEMMA HandlersTellWhatTheyWrote ==
  ASSUME TypeOK, IInv, [Next]_vars, NEW w \in Workers, Tells(w)'
  PROVE  \/ at'[w] = at[w] /\ audit'[w] = audit[w]
         \/ audit'[w] \in Audits /\ status'[audit'[w]] = Outcome(w)'
<1> USE DEF TypeOK, RowTypes, HandlerTypes, rowVars, workVars, reapVars, Tells, Outcome
<1>1. ASSUME NEW b \in Audits, CreateStep(b) PROVE UNCHANGED <<at, audit>>
  BY <1>1 DEF CreateStep, CountInflight, CreateRow, Enqueue, EnqueueThrows, FailOrphan, AbortRequest
<1>2. ASSUME NEW p \in Reapers, ReapStep(p) PROVE UNCHANGED <<at, audit>>
  BY <1>2 DEF ReapStep, ReapScan, ReapRow, ReapNotify, AbortSweep
<1>3. PurgeOld \/ Tick \/ UNCHANGED vars => UNCHANGED <<at, audit>>
  BY DEF PurgeOld, Tick, vars
<1>4. ASSUME NEW v \in Workers, HandleStep(v), v # w
      PROVE  at'[w] = at[w] /\ audit'[w] = audit[w]
  BY <1>4 DEF HandleStep, Deliver, Claim, Load, Complete, RunThrows, Fail, NotifyAudit,
        AbortHandler, Settle, Leave, Goto
<1>5. ASSUME HandleStep(w)
      PROVE  audit'[w] \in Audits /\ status'[audit'[w]] = Outcome(w)'
  <2>1. \A a \in Audits : ~Deliver(w, a)
    BY DEF Deliver, Goto
  <2>2. ~Claim(w) /\ ~Load(w) /\ ~RunThrows(w) /\ ~NotifyAudit(w) /\ ~AbortHandler(w)
    BY DEF Claim, Load, RunThrows, NotifyAudit, AbortHandler, Leave, Goto
  <2>3. CASE Complete(w)
    BY <2>3 DEF Complete, Settle, SetStatus, Leave, Goto, IInv, HoldersInv
  <2>4. CASE Fail(w)
    BY <2>4 DEF Fail, Settle, SetStatus, Leave, Goto, IInv, HoldersInv
  <2> QED
    BY <1>5, <2>1, <2>2, <2>3, <2>4 DEF HandleStep
<1> QED
  BY <1>1, <1>2, <1>3, <1>4, <1>5 DEF Next

(* So has a reaper. *)
LEMMA ReapersTellWhatTheyWrote ==
  ASSUME TypeOK, IInv, [Next]_vars, NEW p \in Reapers, sweep'[p] = "tell"
  PROVE  \/ sweep[p] = "tell" /\ reaped'[p] = reaped[p]
         \/ reaped'[p] \in Audits /\ status'[reaped'[p]] = "FAILED"
<1> USE DEF TypeOK, RowTypes, SweepTypes, rowVars, workVars, reapVars
<1>1. ASSUME NEW b \in Audits, CreateStep(b) PROVE UNCHANGED <<sweep, reaped>>
  BY <1>1 DEF CreateStep, CountInflight, CreateRow, Enqueue, EnqueueThrows, FailOrphan, AbortRequest
<1>2. ASSUME NEW w \in Workers, HandleStep(w) PROVE UNCHANGED <<sweep, reaped>>
  BY <1>2 DEF HandleStep, Deliver, Claim, Load, Complete, RunThrows, Fail, NotifyAudit, AbortHandler
<1>3. PurgeOld \/ Tick \/ UNCHANGED vars => UNCHANGED <<sweep, reaped>>
  BY DEF PurgeOld, Tick, vars
<1>4. ASSUME NEW q \in Reapers, ReapStep(q), q # p
      PROVE  sweep'[p] = sweep[p] /\ reaped'[p] = reaped[p]
  BY <1>4 DEF ReapStep, ReapScan, ReapRow, ReapNotify, AbortSweep, NextCandidate
<1>5. ASSUME ReapStep(p)
      PROVE  reaped'[p] \in Audits /\ status'[reaped'[p]] = "FAILED"
  <2>1. ~ReapScan(p) /\ ~ReapNotify(p) /\ ~AbortSweep(p)
    BY DEF ReapScan, ReapNotify, AbortSweep, NextCandidate
  <2>2. PICK a \in Audits : ReapRow(p, a)
    BY <1>5, <2>1 DEF ReapStep
  <2>3. IsStale(a, cutoff[p])
    BY <2>2 DEF ReapRow, NextCandidate
  <2> QED
    BY <2>2, <2>3 DEF ReapRow, SetStatus
<1> QED
  BY <1>1, <1>2, <1>3, <1>4, <1>5 DEF Next

(* A notification that appears is of an outcome its teller was about to tell. *)
LEMMA ToldByItsTeller ==
  ASSUME TypeOK, IInv, OutcomeInv, [Next]_vars, NEW a \in Audits, notes'[a] # notes[a]
  PROVE  \E o \in Terminal : notes'[a] = <<o>> /\ Says(a, o) /\ status[a] \in Settled
<1> USE DEF TypeOK, rowVars, workVars, reapVars
<1>1. ASSUME NEW b \in Audits, CreateStep(b) PROVE UNCHANGED notes
  BY <1>1 DEF CreateStep, CountInflight, CreateRow, Enqueue, EnqueueThrows, FailOrphan, AbortRequest
<1>2. PurgeOld \/ Tick \/ UNCHANGED vars => UNCHANGED notes
  BY DEF PurgeOld, Tick, vars
<1>3. \A o : Append(<<>>, o) = <<o>>
  OBVIOUS
<1>4. ASSUME NEW w \in Workers, HandleStep(w)
      PROVE  \E o \in Terminal : notes'[a] = <<o>> /\ Says(a, o) /\ status[a] \in Settled
  <2>1. NotifyAudit(w)
    BY <1>4 DEF HandleStep, Deliver, Claim, Load, Complete, RunThrows, Fail, AbortHandler
  <2>2. PICK o \in Terminal :
          /\ at[w] = IF o = "COMPLETED" THEN "tellCompleted" ELSE "tellFailed"
          /\ Notified(audit[w], o)
    BY <2>1 DEF NotifyAudit, Terminal
  <2>3. audit[w] = a /\ notes'[a] = Append(notes[a], o)
    BY <2>2 DEF Notified
  <2>4. notes[a] = <<>> /\ status[a] \in Settled
    BY <2>2, <2>3 DEF IInv, HandlerTellsInv, Tells, Terminal
  <2>5. Says(a, o)
    BY <2>2, <2>3 DEF OutcomeInv, Terminal
  <2> QED
    BY <1>3, <2>3, <2>4, <2>5
<1>5. ASSUME NEW p \in Reapers, ReapStep(p)
      PROVE  \E o \in Terminal : notes'[a] = <<o>> /\ Says(a, o) /\ status[a] \in Settled
  <2>1. ReapNotify(p)
    BY <1>5 DEF ReapStep, ReapScan, ReapRow, AbortSweep
  <2>2. reaped[p] = a /\ sweep[p] = "tell" /\ notes'[a] = Append(notes[a], "FAILED")
    BY <2>1 DEF ReapNotify, Notified
  <2>3. notes[a] = <<>> /\ status[a] \in Settled /\ Says(a, "FAILED")
    BY <2>2 DEF IInv, ReaperTellsInv, OutcomeInv
  <2> QED
    BY <1>3, <2>2, <2>3 DEF Terminal
<1> QED
  BY <1>1, <1>2, <1>4, <1>5 DEF Next

(* Every step preserves OutcomeInv: what is told stands, and what is about to  *)
(* be told has just been written or stands.                                    *)
LEMMA StepKeepsOutcomes ==
  ASSUME TypeOK, IInv, OutcomeInv, [Next]_vars
  PROVE  OutcomeInv'
<1>1. ASSUME NEW w \in Workers, Tells(w)' PROVE Says(audit[w], Outcome(w))'
  <2>1. CASE at'[w] = at[w] /\ audit'[w] = audit[w]
    <3>1. Tells(w) /\ Outcome(w)' = Outcome(w)
      BY <1>1, <2>1 DEF Tells, Outcome
    <3>2. audit[w] \in Audits /\ status[audit[w]] \in Settled
      BY <3>1 DEF IInv, HoldersInv, HandlerTellsInv, TypeOK, HandlerTypes, Tells
    <3>3. Says(audit[w], Outcome(w))
      BY <3>1 DEF OutcomeInv, Outcome, Tells
    <3>4. ASSUME NEW a, NEW o, a \in Audits, status[a] \in Settled, Says(a, o)
          PROVE  Says(a, o)'
      BY <3>4, SettledRowsStand
    <3>5. Says(audit[w], Outcome(w))' <=>
            \/ status'[audit[w]] \in {Outcome(w), "purged"}
            \/ request'[audit[w]] = "errored" /\ status'[audit[w]] = "FAILED"
      BY <2>1, <3>1 DEF Says
    <3>6. \A a \in Audits, o \in Terminal : status[a] \in Settled /\ Says(a, o) =>
            \/ status'[a] \in {o, "purged"}
            \/ request'[a] = "errored" /\ status'[a] = "FAILED"
      BY SettledRowsStand DEF Says
    <3>7. Outcome(w) \in Terminal
      BY DEF Outcome, Terminal
    <3> QED
      BY <3>2, <3>3, <3>5, <3>6, <3>7
  <2>2. CASE audit'[w] \in Audits /\ status'[audit'[w]] = Outcome(w)'
    BY <2>2 DEF Says
  <2> QED
    BY <1>1, <2>1, <2>2, HandlersTellWhatTheyWrote
<1>2. ASSUME NEW p \in Reapers, sweep'[p] = "tell" PROVE Says(reaped[p], "FAILED")'
  <2>1. \A a \in Audits : status[a] \in Settled /\ Says(a, "FAILED") =>
          status'[a] \in {"FAILED", "purged"}
    BY SettledRowsStand DEF Says
  <2>2. CASE sweep[p] = "tell" /\ reaped'[p] = reaped[p]
    <3>1. /\ reaped[p] \in Audits /\ status[reaped[p]] \in Settled
          /\ Says(reaped[p], "FAILED")
      BY <2>2 DEF IInv, HoldersInv, ReaperTellsInv, TypeOK, SweepTypes, OutcomeInv
    <3> QED
      BY <2>1, <2>2, <3>1 DEF Says
  <2>3. CASE reaped'[p] \in Audits /\ status'[reaped'[p]] = "FAILED"
    BY <2>3 DEF Says
  <2> QED
    BY <1>2, <2>2, <2>3, ReapersTellWhatTheyWrote
<1>3. ASSUME NEW a \in Audits, NEW o \in Terminal, notes'[a] = <<o>> PROVE Says(a, o)'
  <2>1. CASE notes'[a] = notes[a]
    <3>1. notes[a] = <<o>> /\ notes[a] # <<>>
      BY <1>3, <2>1
    <3>2. status[a] \in Settled
      BY <3>1 DEF IInv, NotesInv
    <3>3. Says(a, o)
      BY <3>1 DEF OutcomeInv, Terminal
    <3> QED
      BY <3>2, <3>3, SettledRowsStand
  <2>2. CASE notes'[a] # notes[a]
    <3>1. PICK r \in Terminal : notes'[a] = <<r>> /\ Says(a, r) /\ status[a] \in Settled
      BY <2>2, ToldByItsTeller
    <3>2. r = o
      BY <1>3, <3>1
    <3> QED
      BY <3>1, <3>2, SettledRowsStand
  <2> QED
    BY <2>1, <2>2
<1> QED
  BY <1>1, <1>2, <1>3 DEF OutcomeInv, Outcome, Tells, Terminal

(* A notification says what the row says, and where it does not, the request   *)
(* that created the audit answered with an error and failed the row.           *)
THEOREM OutcomesAgree == Spec => []NotificationMatchesStatus
<1>1. Init => OutcomeInv
  <2>1. <<>> # <<"COMPLETED">> /\ <<>> # <<"FAILED">>
    OBVIOUS
  <2> QED
    BY <2>1, ConstantsOK DEF Init, OutcomeInv
<1>2. TypeOK /\ IInv /\ OutcomeInv /\ [Next]_vars => OutcomeInv'
  BY StepKeepsOutcomes
<1>3. IInv /\ OutcomeInv => NotificationMatchesStatus
  <2> SUFFICES ASSUME IInv, OutcomeInv, NEW a \in Audits, NEW s \in Terminal,
                      notes[a] # <<>>, notes[a][1] = s
               PROVE  Says(a, s)
    BY DEF NotificationMatchesStatus, Says
  <2>1. notes[a] = <<"COMPLETED">> \/ notes[a] = <<"FAILED">>
    BY DEF IInv, NotesInv
  <2>2. CASE notes[a] = <<"COMPLETED">>
    BY <2>2 DEF OutcomeInv
  <2>3. CASE notes[a] = <<"FAILED">>
    BY <2>3 DEF OutcomeInv
  <2> QED
    BY <2>1, <2>2, <2>3
<1> QED
  BY <1>1, <1>2, <1>3, TypeCorrect, Ownership, PTL DEF Spec

-----------------------------------------------------------------------------
(***************************************************************************)
(* How far a tenant's audits may exceed the cap of create(), proved for    *)
(* any cap and any overlap of requests.                                    *)
(***************************************************************************)

\* The rows in flight and the requests that passed the cap and will add one more
\* share the room of the cap and the overlap.
Claims(t) == Cardinality(InFlightOf(t)) + Cardinality(CountedOf(t))
RoomInv == \A t \in Tenants : Claims(t) <= MaxInflight + Burst - 1

LEMMA SetsFinite ==
  ASSUME NEW t
  PROVE  /\ IsFiniteSet(InFlightOf(t)) /\ Cardinality(InFlightOf(t)) \in Nat
         /\ IsFiniteSet(CountedOf(t)) /\ Cardinality(CountedOf(t)) \in Nat
<1>1. IsFiniteSet(InFlightOf(t)) /\ IsFiniteSet(CountedOf(t))
  BY FinitelyManyAudits, FS_Subset DEF InFlightOf, CountedOf
<1> QED
  BY <1>1, FS_CardinalityType

\* A step that brings no audit into flight and lets no request past the cap.
NoneJoins ==
  /\ \A a \in Audits : status'[a] \in InFlight => status[a] \in InFlight
  /\ \A a \in Audits : request'[a] = "counted" => request[a] = "counted"

LEMMA NoneJoinsKeepsRoom ==
  ASSUME RoomInv, NoneJoins
  PROVE  RoomInv'
<1> SUFFICES ASSUME NEW t \in Tenants PROVE Claims(t)' <= MaxInflight + Burst - 1
  BY DEF RoomInv
<1>1. InFlightOf(t)' \subseteq InFlightOf(t) /\ CountedOf(t)' \subseteq CountedOf(t)
  BY DEF NoneJoins, InFlightOf, CountedOf
<1>2. /\ Cardinality(InFlightOf(t)') <= Cardinality(InFlightOf(t))
      /\ Cardinality(CountedOf(t)') <= Cardinality(CountedOf(t))
      /\ IsFiniteSet(InFlightOf(t)') /\ IsFiniteSet(CountedOf(t)')
  BY <1>1, SetsFinite, FS_Subset
<1>3. Cardinality(InFlightOf(t)') \in Nat /\ Cardinality(CountedOf(t)') \in Nat
  BY <1>2, FS_CardinalityType
<1>4. Claims(t) <= MaxInflight + Burst - 1
  BY DEF RoomInv
<1>5. Claims(t)' = Cardinality(InFlightOf(t)') + Cardinality(CountedOf(t)')
  BY DEF Claims
<1> QED
  BY <1>2, <1>3, <1>4, <1>5, SetsFinite, ConstantsOK DEF Claims

LEMMA CountKeepsRoom ==
  ASSUME TypeOK, RoomInv, NEW a \in Audits, CountInflight(a)
  PROVE  RoomInv'
<1> USE ConstantsOK DEF TypeOK, RowTypes, RequestTypes, rowVars
<1>1. CASE OverCap(TenantOf[a])
  BY <1>1, NoneJoinsKeepsRoom DEF CountInflight, Respond, NoneJoins
<1>2. CASE ~OverCap(TenantOf[a])
  <2> SUFFICES ASSUME NEW t \in Tenants PROVE Claims(t)' <= MaxInflight + Burst - 1
    BY DEF RoomInv
  <2>0. /\ InFlightOf(t)' = InFlightOf(t)
        /\ request' = [request EXCEPT ![a] = "counted"] /\ request[a] = "idle"
    BY <1>2 DEF CountInflight, Respond, InFlightOf
  <2>1. CASE TenantOf[a] = t
    <3>1. CountedOf(t)' = CountedOf(t) \union {a} /\ a \notin CountedOf(t)
      BY <2>0, <2>1 DEF CountedOf
    <3>2. Cardinality(CountedOf(t)') = Cardinality(CountedOf(t)) + 1
      BY <3>1, SetsFinite, FS_AddElement
    <3>3. Cardinality(InFlightOf(t)) < MaxInflight /\ Cardinality(CountedOf(t)) < Burst
      BY <1>2, <2>1, SetsFinite DEF CountInflight, OverCap
    <3>4. Claims(t)' = Cardinality(InFlightOf(t)) + (Cardinality(CountedOf(t)) + 1)
      BY <2>0, <3>2 DEF Claims
    <3> QED
      BY <3>3, <3>4, SetsFinite
  <2>2. CASE TenantOf[a] # t
    <3>1. CountedOf(t)' = CountedOf(t)
      BY <2>0, <2>2 DEF CountedOf
    <3> QED
      BY <2>0, <3>1 DEF RoomInv, Claims
  <2> QED
    BY <2>1, <2>2
<1> QED
  BY <1>1, <1>2

LEMMA CreateKeepsRoom ==
  ASSUME TypeOK, RoomInv, NEW a \in Audits, CreateRow(a)
  PROVE  RoomInv'
<1> USE ConstantsOK DEF TypeOK, RowTypes, RequestTypes
<1> SUFFICES ASSUME NEW t \in Tenants PROVE Claims(t)' <= MaxInflight + Burst - 1
  BY DEF RoomInv
<1>0. /\ status' = [status EXCEPT ![a] = "PENDING"] /\ request[a] = "counted"
      /\ request' = [request EXCEPT ![a] = "created"]
  BY DEF CreateRow, Respond
<1>1. CASE TenantOf[a] = t
  <2>1. CountedOf(t)' = CountedOf(t) \ {a} /\ a \in CountedOf(t)
    BY <1>0, <1>1 DEF CountedOf
  <2>2. InFlightOf(t)' = InFlightOf(t) \union {a}
    BY <1>0, <1>1 DEF InFlightOf, InFlight
  <2>3. Cardinality(CountedOf(t)') = Cardinality(CountedOf(t)) - 1
    BY <2>1, SetsFinite, FS_RemoveElement
  <2>4. Cardinality(InFlightOf(t)') \in {Cardinality(InFlightOf(t)), Cardinality(InFlightOf(t)) + 1}
    BY <2>2, SetsFinite, FS_AddElement
  <2>5. Claims(t)' = Cardinality(InFlightOf(t)') + (Cardinality(CountedOf(t)) - 1)
    BY <2>3 DEF Claims
  <2> QED
    BY <2>4, <2>5, SetsFinite DEF RoomInv, Claims
<1>2. CASE TenantOf[a] # t
  <2>1. CountedOf(t)' = CountedOf(t) /\ InFlightOf(t)' = InFlightOf(t)
    BY <1>0, <1>2 DEF CountedOf, InFlightOf
  <2> QED
    BY <2>1 DEF RoomInv, Claims
<1> QED
  BY <1>1, <1>2

LEMMA StepKeepsRoom == TypeOK /\ RoomInv /\ [Next]_vars => RoomInv'
<1> SUFFICES ASSUME TypeOK, RoomInv, [Next]_vars PROVE RoomInv'
  OBVIOUS
<1> USE DEF TypeOK, RowTypes, RequestTypes, rowVars, InFlight
<1>1. ASSUME NEW a \in Audits, CreateStep(a) PROVE RoomInv'
  <2>1. CASE CountInflight(a)
    BY <2>1, CountKeepsRoom
  <2>2. CASE CreateRow(a)
    BY <2>2, CreateKeepsRoom
  <2>3. CASE Enqueue(a) \/ EnqueueThrows(a) \/ FailOrphan(a) \/ AbortRequest(a)
    <3>1. NoneJoins
      BY <2>3 DEF NoneJoins, Enqueue, EnqueueThrows, FailOrphan, AbortRequest, Respond, SetStatus
    <3> QED
      BY <3>1, NoneJoinsKeepsRoom
  <2> QED
    BY <1>1, <2>1, <2>2, <2>3 DEF CreateStep
<1>2. ASSUME NEW w \in Workers, HandleStep(w) PROVE RoomInv'
  <2>1. NoneJoins
    BY <1>2 DEF NoneJoins, HandleStep, Deliver, Claim, Load, Complete, RunThrows, Fail,
          NotifyAudit, AbortHandler, Settle, SetStatus, Claimable, Settleable
  <2> QED
    BY <2>1, NoneJoinsKeepsRoom
<1>3. ASSUME NEW p \in Reapers, ReapStep(p) PROVE RoomInv'
  <2>1. NoneJoins
    BY <1>3 DEF NoneJoins, ReapStep, ReapScan, ReapRow, ReapNotify, AbortSweep, SetStatus
  <2> QED
    BY <2>1, NoneJoinsKeepsRoom
<1>4. CASE PurgeOld \/ Tick \/ UNCHANGED vars
  <2>1. NoneJoins
    BY <1>4 DEF NoneJoins, PurgeOld, Tick, vars
  <2> QED
    BY <2>1, NoneJoinsKeepsRoom
<1> QED
  BY <1>1, <1>2, <1>3, <1>4 DEF Next

(* The cap is exceeded by no more than the requests that overlap between its   *)
(* count and their insert, less one.                                           *)
THEOREM CapIsSoftByOverlap == Spec => []SoftCap
<1>1. Init => RoomInv
  <2> SUFFICES ASSUME Init, NEW t \in Tenants PROVE Claims(t) <= MaxInflight + Burst - 1
    BY DEF RoomInv
  <2>1. InFlightOf(t) = {} /\ CountedOf(t) = {}
    BY DEF Init, InFlightOf, CountedOf, InFlight
  <2> QED
    BY <2>1, FS_EmptySet, ConstantsOK DEF Claims
<1>2. RoomInv => SoftCap
  BY SetsFinite, ConstantsOK DEF RoomInv, Claims, SoftCap
<1> QED
  BY TypeCorrect, <1>1, <1>2, StepKeepsRoom, PTL DEF Spec

-----------------------------------------------------------------------------
(***************************************************************************)
(* AuditPipeline implements AuditLifecycle when a send() that throws has   *)
(* stored nothing.  Each write of a status is a step of the lifecycle,     *)
(* each notification pays the one debt there is, and a process that dies   *)
(* between its write and its notification drops it.                        *)
(***************************************************************************)

(* A debt moves only with the process that holds it. *)
LEMMA OwedFrame ==
  ASSUME NEW b,
         \A w \in Workers, l \in {"tellCompleted", "tellFailed"} :
            audit'[w] = b /\ at'[w] = l <=> audit[w] = b /\ at[w] = l,
         \A p \in Reapers : reaped'[p] = b <=> reaped[p] = b
  PROVE  Owed(b)' = Owed(b)
BY DEF Owed

(* A handler that stays clear of a notification moves no debt. *)
LEMMA HandlerOwesNothing ==
  ASSUME TypeOK, NEW w \in Workers, ~Tells(w), ~Tells(w)', NEW b,
         \A v \in Workers \ {w} : at'[v] = at[v] /\ audit'[v] = audit[v],
         UNCHANGED reaped
  PROVE  Owed(b)' = Owed(b)
<1>1. \A v \in Workers, l \in {"tellCompleted", "tellFailed"} :
        audit'[v] = b /\ at'[v] = l <=> audit[v] = b /\ at[v] = l
  BY DEF Tells
<1> QED
  BY <1>1, OwedFrame

(* The same rows, notifications and debts are the same abstract state. *)
LEMMA Stutters ==
  ASSUME UNCHANGED <<status, notes, Errored>>, \A a \in Audits : Owed(a)' = Owed(a)
  PROVE  UNCHANGED Lifecycle!vars
BY DEF Lifecycle!vars

(* Who holds a debt, holds the one debt of its audit. *)
LEMMA HolderOwes ==
  ASSUME TypeOK, IInv
  PROVE  /\ \A w \in Workers :
              /\ at[w] = "tellCompleted" => Owed(audit[w]) = "COMPLETED"
              /\ at[w] = "tellFailed" => Owed(audit[w]) = "FAILED"
         /\ \A p \in Reapers : sweep[p] = "tell" => Owed(reaped[p]) = "FAILED"
<1> USE DEF IInv
<1>1. ASSUME NEW w \in Workers, at[w] = "tellCompleted" PROVE Owed(audit[w]) = "COMPLETED"
  BY <1>1 DEF Owed
<1>2. ASSUME NEW w \in Workers, at[w] = "tellFailed" PROVE Owed(audit[w]) = "FAILED"
  <2>1. ~\E v \in Workers : audit[v] = audit[w] /\ at[v] = "tellCompleted"
    BY <1>2 DEF OwnerInv, Owns
  <2> QED
    BY <1>2, <2>1 DEF Owed
<1>3. ASSUME NEW p \in Reapers, sweep[p] = "tell" PROVE Owed(reaped[p]) = "FAILED"
  <2>1. ~\E v \in Workers : audit[v] = reaped[p] /\ at[v] = "tellCompleted"
    BY <1>3 DEF SoleTellerInv, Tells
  <2> QED
    BY <1>3, <2>1 DEF Owed
<1> QED
  BY <1>1, <1>2, <1>3

(* A handler that goes away leaves every debt but its own, and drops that one. *)
LEMMA LeaveDropsOwn ==
  ASSUME TypeOK, IInv, NEW w \in Workers, at[w] # "idle", Leave(w), UNCHANGED reaped
  PROVE  [b \in Audits |-> Owed(b)]' =
           IF Tells(w) THEN [[b \in Audits |-> Owed(b)] EXCEPT ![audit[w]] = "none"]
                       ELSE [b \in Audits |-> Owed(b)]
<1> USE DEF TypeOK, HandlerTypes
<1>1. /\ at' = [at EXCEPT ![w] = "idle"]
      /\ audit' = [audit EXCEPT ![w] = NoAudit]
  BY DEF Leave, Goto
<1>2. CASE ~Tells(w)
  <2>1. \A b \in Audits : Owed(b)' = Owed(b)
    BY <1>1, <1>2, HandlerOwesNothing DEF Tells
  <2> QED
    BY <1>2, <2>1
<1>3. CASE Tells(w)
  <2>1. \A v \in Workers \ {w} : Tells(v) => audit[v] # audit[w]
    BY <1>3 DEF IInv, OwnerInv, Owns, Tells
  <2>2. \A p \in Reapers : reaped[p] # audit[w]
    BY <1>3 DEF IInv, SoleTellerInv, HoldersInv, SweepTypes, Tells
  <2>3. ASSUME NEW b \in Audits, b # audit[w] PROVE Owed(b)' = Owed(b)
    BY <1>1, <2>3, OwedFrame
  <2>4. ASSUME NEW b \in Audits, b = audit[w] PROVE Owed(b)' = "none"
    BY <1>1, <2>1, <2>2, <2>4, ConstantsOK DEF Owed, Tells
  <2> QED
    BY <1>3, <2>3, <2>4
<1> QED
  BY <1>2, <1>3

(* A reaper that has notified, or died, drops its own debt only. *)
LEMMA ReaperDropsOwn ==
  ASSUME TypeOK, IInv, NEW p \in Reapers, sweep[p] = "tell",
         reaped' = [reaped EXCEPT ![p] = NoAudit], UNCHANGED <<at, audit>>
  PROVE  [b \in Audits |-> Owed(b)]' =
           [[b \in Audits |-> Owed(b)] EXCEPT ![reaped[p]] = "none"]
<1>1. ASSUME NEW b \in Audits, b # reaped[p] PROVE Owed(b)' = Owed(b)
  BY <1>1, OwedFrame, ConstantsOK DEF TypeOK, SweepTypes
<1>2. ASSUME NEW b \in Audits, b = reaped[p] PROVE Owed(b)' = "none"
  <2>1. \A q \in Reapers \ {p} : reaped[q] # b
    BY <1>2 DEF IInv, SoleTellerInv
  <2>2. \A w \in Workers : audit[w] = b => ~Tells(w)
    BY <1>2 DEF IInv, SoleTellerInv
  <2> QED
    BY <1>2, <2>1, <2>2, ConstantsOK DEF TypeOK, SweepTypes, Owed, Tells
<1> QED
  BY <1>1, <1>2

(* The guarded write of a handler is the settlement, and makes the handler owe. *)
LEMMA SettleRefines ==
  ASSUME TypeOK, IInv, NEW w \in Workers, at[w] \in {"run", "catch"},
         \/ Settle(w, "COMPLETED", "tellCompleted")
         \/ Settle(w, "FAILED", "tellFailed"),
         UNCHANGED <<notes, reapVars, Errored>>
  PROVE  [Lifecycle!Next]_(Lifecycle!vars)
<1> USE DEF TypeOK, HandlerTypes, RowTypes, Settleable, rowVars, reapVars
<1>1. CASE status[audit[w]] # "PROCESSING"
  <2>1. [b \in Audits |-> Owed(b)]' = [b \in Audits |-> Owed(b)]
    BY <1>1, LeaveDropsOwn DEF Settle, Tells
  <2> QED
    BY <1>1, <2>1 DEF Settle, Lifecycle!vars
<1>2. CASE status[audit[w]] = "PROCESSING"
  <2>1. PICK s \in Terminal :
           /\ status' = [status EXCEPT ![audit[w]] = s]
           /\ at' = [at EXCEPT ![w] = IF s = "COMPLETED" THEN "tellCompleted" ELSE "tellFailed"]
           /\ UNCHANGED <<audit, notes, reaped>>
    BY <1>2 DEF Settle, SetStatus, Goto, Terminal
  <2>2. audit[w] \in Audits
    BY DEF IInv, HoldersInv
  <2>3. \A v \in Workers \ {w} : Tells(v) => audit[v] # audit[w]
    BY DEF IInv, OwnerInv, Owns, Tells
  <2>4. Owed(audit[w])' = s
    BY <2>1, <2>3 DEF Owed, Tells, Terminal
  <2>5. ASSUME NEW b \in Audits, b # audit[w] PROVE Owed(b)' = Owed(b)
    BY <2>1, <2>5, OwedFrame
  <2>6. [b \in Audits |-> Owed(b)]' = [[b \in Audits |-> Owed(b)] EXCEPT ![audit[w]] = s]
    BY <2>1, <2>2, <2>4, <2>5
  <2>7. Lifecycle!Settle(audit[w], "PROCESSING", s)
    BY <1>2, <2>1, <2>6 DEF Lifecycle!Settle, Lifecycle!Move
  <2> QED
    BY <2>1, <2>2, <2>7 DEF Lifecycle!Next, Lifecycle!Outcomes, Terminal
<1> QED
  BY <1>1, <1>2

(* A notification pays the debt, a failed one drops it. *)
LEMMA NotifyRefines ==
  ASSUME NEW a \in Audits, NEW s \in Terminal, notes \in [Audits -> Seq(Terminal)],
         Owed(a) = s, notes[a] = <<>>, Notified(a, s), UNCHANGED <<status, Errored>>,
         [b \in Audits |-> Owed(b)]' = [[b \in Audits |-> Owed(b)] EXCEPT ![a] = "none"]
  PROVE  Lifecycle!Next
<1>1. CASE UNCHANGED notes
  <2>1. Lifecycle!Drop(a)
    BY <1>1 DEF Lifecycle!Drop
  <2> QED
    BY <2>1 DEF Lifecycle!Next
<1>2. CASE notes' = [notes EXCEPT ![a] = Append(@, s)]
  <2>1. Append(<<>>, s) = <<s>>
    OBVIOUS
  <2>2. notes' = [notes EXCEPT ![a] = <<s>>]
    BY <1>2, <2>1
  <2>3. Lifecycle!Tell(a)
    BY <2>2 DEF Lifecycle!Tell, Terminal
  <2> QED
    BY <2>3 DEF Lifecycle!Next
<1> QED
  BY <1>1, <1>2 DEF Notified

(* Every step of the pipeline is a step of the lifecycle, or no step of it. *)
LEMMA StepRefines ==
  ASSUME TypeOK, IInv, [Next]_vars
  PROVE  [Lifecycle!Next]_(Lifecycle!vars)
<1> USE DEF TypeOK, RowTypes, HandlerTypes, SweepTypes, Claimable, Settleable, rowVars, workVars,
        reapVars, RequestTypes
<1>1. ASSUME NEW a \in Audits, CreateStep(a) PROVE [Lifecycle!Next]_(Lifecycle!vars)
  <2>1. \A b \in Audits : Owed(b)' = Owed(b)
    BY <1>1, OwedFrame DEF CreateStep, CountInflight, CreateRow, Enqueue, EnqueueThrows, FailOrphan, AbortRequest
  <2>2. UNCHANGED notes
    BY <1>1 DEF CreateStep, CountInflight, CreateRow, Enqueue, EnqueueThrows, FailOrphan, AbortRequest
  <2>3. ~FailOrphan(a) => UNCHANGED Errored
    BY <1>1 DEF CreateStep, CountInflight, CreateRow, Enqueue, EnqueueThrows, AbortRequest, Respond,
          RequestTypes, Errored
  <2>4. CASE CreateRow(a)
    <3>0. ~FailOrphan(a)
      BY <2>4 DEF CreateRow, FailOrphan
    <3>1. status[a] = "absent"
      BY <2>4 DEF CreateRow, IInv, RequestInv
    <3>2. Lifecycle!Submit(a)
      BY <2>1, <2>2, <2>4, <2>3, <3>0, <3>1 DEF CreateRow, Lifecycle!Submit, Lifecycle!Move
    <3> QED
      BY <3>2 DEF Lifecycle!Next
  <2>5. CASE FailOrphan(a)
    <3>1. Errored' = [Errored EXCEPT ![a] = TRUE] /\ ~Errored[a]
      BY <2>5 DEF FailOrphan, Respond, RequestTypes, Errored
    <3>2. Lifecycle!Err(a)
      BY <2>1, <2>2, <2>5, <3>1 DEF FailOrphan, Exists, InFlight, Terminal, SetStatus, Lifecycle!Err
    <3> QED
      BY <3>2 DEF Lifecycle!Next
  <2>6. CASE CountInflight(a) \/ Enqueue(a) \/ EnqueueThrows(a) \/ AbortRequest(a)
    <3>1. ~FailOrphan(a)
      BY <2>6 DEF CountInflight, Enqueue, EnqueueThrows, AbortRequest, FailOrphan, Respond
    <3>2. UNCHANGED status
      BY <2>6 DEF CountInflight, Enqueue, EnqueueThrows, AbortRequest
    <3> QED
      BY <2>1, <2>2, <2>3, <3>1, <3>2, Stutters
  <2> QED
    BY <1>1, <2>4, <2>5, <2>6 DEF CreateStep
<1>2. ASSUME NEW w \in Workers, HandleStep(w) PROVE [Lifecycle!Next]_(Lifecycle!vars)
  <2>0. UNCHANGED Errored
    BY <1>2 DEF HandleStep, Deliver, Claim, Load, Complete, RunThrows, Fail, NotifyAudit,
          AbortHandler, Errored
  <2>1. ASSUME NEW a \in Audits, Deliver(w, a) PROVE [Lifecycle!Next]_(Lifecycle!vars)
    <3>1. \A b \in Audits : Owed(b)' = Owed(b)
      BY <2>1, HandlerOwesNothing DEF Deliver, Goto, Tells
    <3> QED
      BY <2>0, <2>1, <3>1, Stutters DEF Deliver
  <2>2. CASE Claim(w)
    <3>1. \A b \in Audits : Owed(b)' = Owed(b)
      BY <2>2, HandlerOwesNothing DEF Claim, Goto, Leave, Tells
    <3>2. CASE status[audit[w]] = "PENDING"
      <4>1. audit[w] \in Audits
        BY <2>2 DEF Claim, IInv, HoldersInv
      <4>2. Lifecycle!Start(audit[w])
        BY <2>0, <2>2, <3>1, <3>2 DEF Claim, SetStatus, Lifecycle!Start, Lifecycle!Move
      <4> QED
        BY <4>1, <4>2 DEF Lifecycle!Next
    <3>3. CASE status[audit[w]] # "PENDING"
      BY <2>0, <2>2, <3>1, <3>3, Stutters DEF Claim
    <3> QED
      BY <3>2, <3>3
  <2>3. CASE Load(w)
    <3>1. \A b \in Audits : Owed(b)' = Owed(b)
      BY <2>3, HandlerOwesNothing DEF Load, Goto, Leave, Tells
    <3> QED
      BY <2>0, <2>3, <3>1, Stutters DEF Load
  <2>4. CASE Complete(w)
    BY <2>0, <2>4, SettleRefines DEF Complete
  <2>5. CASE RunThrows(w)
    <3>1. \A b \in Audits : Owed(b)' = Owed(b)
      BY <2>5, HandlerOwesNothing DEF RunThrows, Goto, Tells
    <3>2. CASE UNCHANGED rowVars
      BY <2>0, <2>5, <3>1, <3>2, Stutters DEF RunThrows
    <3>3. CASE status[audit[w]] = "PROCESSING" /\ SetStatus(audit[w], "COMPLETED")
      <4>1. audit[w] \in Audits
        BY <2>5 DEF RunThrows, IInv, HoldersInv
      <4>2. Lifecycle!Settle(audit[w], "PROCESSING", "COMPLETED")
        BY <2>0, <2>5, <3>1, <3>3 DEF RunThrows, SetStatus, Lifecycle!Settle, Lifecycle!Move
      <4> QED
        BY <4>1, <4>2 DEF Lifecycle!Next, Lifecycle!Outcomes
    <3> QED
      BY <2>5, <3>2, <3>3 DEF RunThrows
  <2>6. CASE Fail(w)
    BY <2>0, <2>6, SettleRefines DEF Fail
  <2>7. CASE NotifyAudit(w)
    <3>1. /\ Tells(w) /\ audit[w] \in Audits /\ notes[audit[w]] = <<>>
          /\ Leave(w) /\ UNCHANGED <<status, reaped>>
      BY <2>7 DEF NotifyAudit, Tells, IInv, HoldersInv, HandlerTellsInv
    <3>2. [b \in Audits |-> Owed(b)]' = [[b \in Audits |-> Owed(b)] EXCEPT ![audit[w]] = "none"]
      BY <3>1, LeaveDropsOwn DEF Tells
    <3>3. PICK s \in Terminal : Notified(audit[w], s) /\ Owed(audit[w]) = s
      BY <2>7, HolderOwes DEF NotifyAudit, Terminal
    <3> QED
      BY <2>0, <3>1, <3>2, <3>3, NotifyRefines
  <2>8. CASE AbortHandler(w)
    <3>1. /\ Leave(w) /\ at[w] # "idle" /\ UNCHANGED <<status, notes, reaped>>
      BY <2>8 DEF AbortHandler
    <3>2. CASE Tells(w)
      <4>1. audit[w] \in Audits
        BY <3>2 DEF Tells, IInv, HoldersInv
      <4>2. Lifecycle!Drop(audit[w])
        BY <2>0, <3>1, <3>2, LeaveDropsOwn DEF Lifecycle!Drop
      <4> QED
        BY <4>1, <4>2 DEF Lifecycle!Next
    <3>3. CASE ~Tells(w)
      <4>1. [b \in Audits |-> Owed(b)]' = [b \in Audits |-> Owed(b)]
        BY <3>1, <3>3, LeaveDropsOwn
      <4> QED
        BY <2>0, <3>1, <4>1 DEF Lifecycle!vars
    <3> QED
      BY <3>2, <3>3
  <2> QED
    BY <1>2, <2>1, <2>2, <2>3, <2>4, <2>5, <2>6, <2>7, <2>8 DEF HandleStep
<1>3. ASSUME NEW p \in Reapers, ReapStep(p) PROVE [Lifecycle!Next]_(Lifecycle!vars)
  <2>0. UNCHANGED Errored
    BY <1>3 DEF ReapStep, ReapScan, ReapRow, ReapNotify, AbortSweep, Errored
  <2>1. CASE ReapScan(p)
    <3>1. \A b \in Audits : Owed(b)' = Owed(b)
      BY <2>1, OwedFrame DEF ReapScan
    <3> QED
      BY <2>0, <2>1, <3>1, Stutters DEF ReapScan
  <2>2. ASSUME NEW a \in Audits, ReapRow(p, a) PROVE [Lifecycle!Next]_(Lifecycle!vars)
    <3>1. CASE ~IsStale(a, cutoff[p])
      <4>1. \A b \in Audits : Owed(b)' = Owed(b)
        BY <2>2, <3>1, OwedFrame DEF ReapRow
      <4> QED
        BY <2>0, <2>2, <3>1, <4>1, Stutters DEF ReapRow
    <3>2. CASE IsStale(a, cutoff[p])
      <4>1. /\ status[a] \in InFlight /\ reaped[p] = NoAudit
            /\ status' = [status EXCEPT ![a] = "FAILED"]
            /\ reaped' = [reaped EXCEPT ![p] = a]
            /\ UNCHANGED <<at, audit, notes>>
        BY <2>2, <3>2 DEF ReapRow, IsStale, SetStatus, IInv, HoldersInv
      <4>2. \A w \in Workers : Tells(w) => audit[w] # a
        BY <4>1 DEF IInv, HandlerTellsInv, Settled, InFlight, Terminal
      <4>3. Owed(a)' = "FAILED"
        BY <4>1, <4>2 DEF Owed, Tells
      <4>4. ASSUME NEW b \in Audits, b # a PROVE Owed(b)' = Owed(b)
        BY <4>1, <4>4, OwedFrame, ConstantsOK
      <4>5. [b \in Audits |-> Owed(b)]' = [[b \in Audits |-> Owed(b)] EXCEPT ![a] = "FAILED"]
        BY <4>3, <4>4
      <4>6. \/ Lifecycle!Settle(a, "PENDING", "FAILED")
            \/ Lifecycle!Settle(a, "PROCESSING", "FAILED")
        BY <2>0, <4>1, <4>5 DEF Lifecycle!Settle, Lifecycle!Move, InFlight
      <4> QED
        BY <4>6 DEF Lifecycle!Next, Lifecycle!Outcomes
    <3> QED
      BY <3>1, <3>2
  <2>3. CASE ReapNotify(p)
    <3>1. /\ sweep[p] = "tell" /\ reaped[p] \in Audits /\ notes[reaped[p]] = <<>>
          /\ Owed(reaped[p]) = "FAILED" /\ Notified(reaped[p], "FAILED")
          /\ reaped' = [reaped EXCEPT ![p] = NoAudit]
          /\ UNCHANGED <<status, at, audit>>
      BY <2>3, HolderOwes DEF ReapNotify, IInv, HoldersInv, ReaperTellsInv
    <3>2. [b \in Audits |-> Owed(b)]' = [[b \in Audits |-> Owed(b)] EXCEPT ![reaped[p]] = "none"]
      BY <3>1, ReaperDropsOwn
    <3> QED
      BY <2>0, <3>1, <3>2, NotifyRefines DEF Terminal
  <2>4. CASE AbortSweep(p)
    <3>1. /\ reaped' = [reaped EXCEPT ![p] = NoAudit]
          /\ UNCHANGED <<status, notes, at, audit>>
      BY <2>4 DEF AbortSweep
    <3>2. CASE sweep[p] = "tell"
      <4>1. reaped[p] \in Audits
        BY <3>2 DEF IInv, HoldersInv
      <4>2. Lifecycle!Drop(reaped[p])
        BY <2>0, <3>1, <3>2, ReaperDropsOwn DEF Lifecycle!Drop
      <4> QED
        BY <4>1, <4>2 DEF Lifecycle!Next
    <3>3. CASE sweep[p] # "tell"
      <4>1. reaped' = reaped
        BY <3>1, <3>3 DEF IInv, HoldersInv
      <4>2. \A b \in Audits : Owed(b)' = Owed(b)
        BY <3>1, <4>1, OwedFrame
      <4> QED
        BY <2>0, <3>1, <4>2, Stutters
    <3> QED
      BY <3>2, <3>3
  <2> QED
    BY <1>3, <2>1, <2>2, <2>3, <2>4 DEF ReapStep
<1>4. CASE PurgeOld
  <2>0. UNCHANGED Errored
    BY <1>4 DEF PurgeOld, Errored
  <2>1. \A b \in Audits : Owed(b)' = Owed(b)
    BY <1>4, OwedFrame DEF PurgeOld
  <2>2. PICK S \in SUBSET Audits :
          /\ \A a \in S : Exists(a)
          /\ status' = [a \in Audits |-> IF a \in S THEN "purged" ELSE status[a]]
    BY <1>4 DEF PurgeOld
  <2>3. Lifecycle!Purge(S)
    BY <1>4, <2>0, <2>1, <2>2 DEF PurgeOld, Exists, InFlight, Terminal, Lifecycle!Purge
  <2> QED
    BY <2>3 DEF Lifecycle!Next
<1>5. CASE Tick \/ UNCHANGED vars
  <2>1. \A b \in Audits : Owed(b)' = Owed(b)
    BY <1>5, OwedFrame DEF Tick, vars
  <2>2. UNCHANGED Errored
    BY <1>5 DEF Tick, vars, Errored
  <2> QED
    BY <1>5, <2>1, <2>2, Stutters DEF Tick, vars
<1> QED
  BY <1>1, <1>2, <1>3, <1>4, <1>5 DEF Next

(* The pipeline implements the lifecycle: the statuses move forward only and   *)
(* settle once, the user hears of that settlement at most once, and only the   *)
(* catch of create() goes over it.                                             *)
THEOREM PipelineImplementsLifecycle == Spec => ImplementsLifecycle
<1>1. Init => Lifecycle!Init
  <2> SUFFICES ASSUME Init PROVE Lifecycle!Init
    OBVIOUS
  <2>1. [a \in Audits |-> Owed(a)] = [a \in Audits |-> "none"]
    BY ConstantsOK DEF Init, Owed
  <2>2. Errored = [a \in Audits |-> FALSE]
    BY DEF Init, Errored
  <2> QED
    BY <2>1, <2>2 DEF Init, Lifecycle!Init
<1>2. TypeOK /\ IInv /\ [Next]_vars => [Lifecycle!Next]_(Lifecycle!vars)
  BY StepRefines
<1> QED
  BY <1>1, <1>2, TypeCorrect, Ownership, PTL
     DEF Spec, ImplementsLifecycle, Lifecycle!Spec
=============================================================================
