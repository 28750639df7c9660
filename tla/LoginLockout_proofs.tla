------------------------- MODULE LoginLockout_proofs -------------------------
(***************************************************************************)
(* What LoginLockout promises, proved for any number of overlapping logins, *)
(* any limit and lock time, and with no bound on the clock or on lost locks *)
(* but MaxTime and MaxLost.                                                 *)
(***************************************************************************)
EXTENDS LoginLockout, FiniteSetTheorems, TLAPS

USE ConstantsOK DEF Goto, LetIn, InForce, LimitReached, LockEnd

\* Every variable stays in its range.
THEOREM TypeCorrect == Spec => []TypeOK
<1> USE DEF TypeOK, account, history
<1>1. Init => TypeOK
  BY DEF Init
<1>2. TypeOK /\ [Next]_vars => TypeOK'
  <2> SUFFICES ASSUME TypeOK, [Next]_vars PROVE TypeOK'
    OBVIOUS
  <2>1. ASSUME NEW r \in Requests, Read(r) PROVE TypeOK'
    BY <2>1 DEF Read
  <2>2. ASSUME NEW r \in Requests, Refuse(r) PROVE TypeOK'
    BY <2>2 DEF Refuse
  <2>3. ASSUME NEW r \in Requests, Accept(r) PROVE TypeOK'
    BY <2>3 DEF Accept
  <2>4. ASSUME NEW r \in Requests, Count(r) PROVE TypeOK'
    BY <2>4 DEF Count
  <2>5. ASSUME NEW r \in Requests, Lock(r) PROVE TypeOK'
    BY <2>5 DEF Lock
  <2>6. ASSUME NEW r \in Requests, Clear(r) PROVE TypeOK'
    BY <2>6 DEF Clear
  <2>7. ASSUME NEW r \in Requests, Abort(r) PROVE TypeOK'
    BY <2>7 DEF Abort
  <2>8. CASE Tick
    BY <2>8 DEF Tick
  <2>9. CASE UNCHANGED vars
    BY <2>9 DEF vars
  <2>. QED
    BY <2>1, <2>2, <2>3, <2>4, <2>5, <2>6, <2>7, <2>8, <2>9 DEF Next, RequestStep
<1>. QED  BY <1>1, <1>2, PTL DEF Spec

-----------------------------------------------------------------------------
(* The bound on guesses: the column holds the history's count, and a count *)
(* that reached the limit is held by a request about to lock, or is lost.   *)

Locking == {r \in Requests : at[r] = "lock"}

GuessInv == failed = guesses /\ GuessesAreBounded

LEMMA LockingFinite == IsFiniteSet(Locking) /\ Cardinality(Locking) \in Nat
<1>1. IsFiniteSet(Locking)
  BY FS_Subset DEF Locking
<1>. QED  BY <1>1, FS_CardinalityType

LEMMA GuessesPreserved == TypeOK /\ GuessInv /\ [Next]_vars => GuessInv'
<1> SUFFICES ASSUME TypeOK, GuessInv, [Next]_vars PROVE GuessInv'
  OBVIOUS
<1> DEFINE c == Cardinality(Locking)
<1>0. /\ c \in Nat /\ guesses \in Nat /\ failed \in Nat /\ lost \in Nat
      /\ failed = guesses /\ guesses < MaxAttempts + c + lost
  BY LockingFinite DEF TypeOK, GuessInv, GuessesAreBounded, Locking
<1>g. ASSUME failed' = guesses', guesses' < MaxAttempts + Cardinality(Locking') + lost'
      PROVE  GuessInv'
  BY <1>g DEF GuessInv, GuessesAreBounded, Locking
<1>1. ASSUME Locking' = Locking, UNCHANGED <<failed, guesses, lost>> PROVE GuessInv'
  BY <1>0, <1>1, <1>g
<1>2. ASSUME Cardinality(Locking') \in Nat, failed' = 0, guesses' = 0, lost' = lost
      PROVE  GuessInv'
  BY <1>0, <1>2, <1>g
<1>3. ASSUME NEW r \in Requests, Read(r) \/ Refuse(r) \/ Accept(r) PROVE GuessInv'
  <2>1. Locking' = Locking
    BY <1>3 DEF Locking, Read, Refuse, Accept, TypeOK
  <2>. QED  BY <1>1, <1>3, <2>1 DEF Read, Refuse, Accept, account, history
<1>4. ASSUME NEW r \in Requests, Count(r) PROVE GuessInv'
  <2>0. failed' = failed + 1 /\ guesses' = guesses + 1 /\ lost' = lost
    BY <1>4 DEF Count
  <2>1. CASE failed + 1 >= MaxAttempts
    <3>1. Locking' = Locking \union {r} /\ r \notin Locking
      BY <1>4, <2>1 DEF Locking, Count, TypeOK
    <3>2. Cardinality(Locking') = c + 1
      BY <3>1, LockingFinite, FS_AddElement
    <3>. QED  BY <1>0, <1>g, <2>0, <3>2
  <2>2. CASE ~(failed + 1 >= MaxAttempts)
    <3>1. Locking' = Locking
      BY <1>4, <2>2 DEF Locking, Count, TypeOK
    <3>. QED  BY <1>0, <1>g, <2>0, <2>2, <3>1
  <2>. QED  BY <2>1, <2>2
<1>5. ASSUME NEW r \in Requests, Lock(r) \/ Clear(r) PROVE GuessInv'
  <2>1. Locking' = Locking \ {r}
    BY <1>5 DEF Locking, Lock, Clear, TypeOK
  <2>2. Cardinality(Locking') \in Nat
    BY <2>1, LockingFinite, FS_RemoveElement, FS_CardinalityType
  <2>. QED  BY <1>2, <1>5, <2>2 DEF Lock, Clear
<1>6. ASSUME NEW r \in Requests, Abort(r) PROVE GuessInv'
  <2>0. failed' = failed /\ guesses' = guesses
    BY <1>6 DEF Abort, account
  <2>1. CASE at[r] = "lock"
    <3>1. Locking' = Locking \ {r} /\ r \in Locking /\ lost' = lost + 1
      BY <1>6, <2>1 DEF Locking, Abort, TypeOK
    <3>2. Cardinality(Locking') = c - 1
      BY <3>1, LockingFinite, FS_RemoveElement
    <3>. QED  BY <1>0, <1>g, <2>0, <3>1, <3>2
  <2>2. CASE at[r] # "lock"
    <3>1. Locking' = Locking /\ lost' = lost
      BY <1>6, <2>2 DEF Locking, Abort, TypeOK
    <3>. QED  BY <1>1, <2>0, <3>1
  <2>. QED  BY <2>1, <2>2
<1>7. CASE Tick \/ UNCHANGED vars
  BY <1>1, <1>7 DEF Tick, vars, account, history, Locking
<1>. QED  BY <1>3, <1>4, <1>5, <1>6, <1>7 DEF Next, RequestStep

\* However logins overlap, at most MaxAttempts - 1 wrong passwords go uncounted towards
\* a lock, besides one for each request about to lock and each that died there.
THEOREM GuessesBounded == Spec => []GuessesAreBounded
<1>1. Init => GuessInv
  <2>1. ASSUME Init PROVE Cardinality(Locking) = 0
    <3>1. Locking = {}
      BY <2>1 DEF Locking, Init
    <3>. QED  BY <3>1, FS_EmptySet
  <2>. QED  BY <2>1 DEF Init, GuessInv, GuessesAreBounded, Locking
<1>2. GuessInv => GuessesAreBounded
  BY DEF GuessInv
<1>. QED  BY TypeCorrect, <1>1, <1>2, GuessesPreserved, PTL DEF Spec

-----------------------------------------------------------------------------
(* The lock *)

\* Whoever is past its read under a lock in force read before that lock.
OvertakenInv == \A r \in Requests : at[r] # "idle" /\ InForce => overtaken[r]

\* Under a lock in force only a login let in before the lock gets a session.
THEOREM LockHolds == Spec => NoSessionThroughLock
<1>1. Init => OvertakenInv
  BY DEF Init, OvertakenInv
<1>2. TypeOK /\ OvertakenInv /\ [Next]_vars => OvertakenInv'
  <2> SUFFICES ASSUME TypeOK, OvertakenInv, [Next]_vars PROVE OvertakenInv'
    OBVIOUS
  <2> USE DEF TypeOK, OvertakenInv, account, history
  <2>1. ASSUME NEW r \in Requests, Read(r) \/ Refuse(r) \/ Accept(r) PROVE OvertakenInv'
    BY <2>1 DEF Read, Refuse, Accept
  <2>2. ASSUME NEW r \in Requests, Count(r) \/ Abort(r) PROVE OvertakenInv'
    BY <2>2 DEF Count, Abort
  <2>3. ASSUME NEW r \in Requests, Lock(r) \/ Clear(r) PROVE OvertakenInv'
    BY <2>3 DEF Lock, Clear
  <2>4. CASE Tick \/ UNCHANGED vars
    BY <2>4 DEF Tick, vars
  <2>. QED  BY <2>1, <2>2, <2>3, <2>4 DEF Next, RequestStep
<1>3. TypeOK /\ OvertakenInv =>
          [\A r \in Requests : Succeeds(r) /\ InForce => overtaken[r]]_vars
  BY DEF OvertakenInv, Succeeds, Clear, Accept
<1>. QED  BY TypeCorrect, <1>1, <1>2, <1>3, PTL DEF Spec, NoSessionThroughLock
=============================================================================
