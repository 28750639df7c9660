---------------------------- MODULE Notifications ----------------------------
(***************************************************************************)
(* In-app notifications: raised for one user, read one at a time or all at *)
(* once, by as many of the user's clients as are open                      *)
(* (notifications.service.ts).  A step is one database call.  Nothing ever *)
(* deletes a notification.                                                 *)
(* A definition that stands just above another and extends its name is a   *)
(* slip that definition must not make, for mutation runs.                  *)
(***************************************************************************)
EXTENDS Integers, FiniteSets

CONSTANTS
    Notes,      \* notification ids
    Users,      \* of one tenant: the scoped client keeps tenants apart
    Requests,
    NoNote,
    NoUser,
    MaxTime     \* bound on the clock

\* What the constants are; the module that gives them values assumes it.
ConstantsOK ==
    /\ IsFiniteSet(Notes) /\ NoNote \notin Notes /\ NoUser \notin Users
    /\ MaxTime \in Nat \ {0}

VARIABLES
    now,        \* from 1
    to,         \* userId of a row, NoUser while there is none
    readAt,     \* 0 for null
    at,         \* where a mark-read request stands
    who,        \* its caller
    note,       \* the notification it names
    shown,      \* readAt of the row it would answer with
    \* History, read by the properties only:
    counted     \* sum of the counts the database reported, per user

reqVars == <<at, who, note, shown>>
vars == <<now, to, readAt, reqVars, counted>>

TypeOK ==
    /\ now \in 1 .. MaxTime
    /\ to \in [Notes -> Users \union {NoUser}]
    /\ readAt \in [Notes -> 0 .. now]
    /\ at \in [Requests -> {"idle", "flip", "reread", "answer"}]
    /\ who \in [Requests -> Users \union {NoUser}]
    /\ note \in [Requests -> Notes \union {NoNote}]
    /\ shown \in [Requests -> 0 .. MaxTime]
    /\ counted \in [Users -> Nat]

Init ==
    /\ now = 1
    /\ to = [n \in Notes |-> NoUser]
    /\ readAt = [n \in Notes |-> 0]
    /\ at = [r \in Requests |-> "idle"]
    /\ who = [r \in Requests |-> NoUser]
    /\ note = [r \in Requests |-> NoNote]
    /\ shown = [r \in Requests |-> 0]
    /\ counted = [u \in Users |-> 0]

Unread(u) == {n \in Notes : to[n] = u /\ readAt[n] = 0}

Goto(r, l) == at' = [at EXCEPT ![r] = l]

Stamp == now

\* updateMany over the rows of S, on behalf of u: its count is the rows it wrote.
Flip(S, u) ==
    /\ readAt' = [n \in Notes |-> IF n \in S THEN Stamp ELSE readAt[n]]
    /\ counted' = [counted EXCEPT ![u] = @ + Cardinality(S)]

-----------------------------------------------------------------------------

Notify(n, u) ==
    /\ to[n] = NoUser
    /\ to' = [to EXCEPT ![n] = u]
    /\ UNCHANGED <<now, readAt, reqVars, counted>>

MarkAllRead(u) ==
    /\ Flip(Unread(u), u)
    /\ UNCHANGED <<now, to, reqVars>>

Readable(u) == {n \in Notes : to[n] = u}

\* markRead(): the caller's own, or 404.
Find(r, u, n) ==
    /\ at[r] = "idle"
    /\ n \in Readable(u)
    /\ Goto(r, "flip")
    /\ who' = [who EXCEPT ![r] = u]
    /\ note' = [note EXCEPT ![r] = n]
    /\ shown' = [shown EXCEPT ![r] = readAt[n]]
    /\ UNCHANGED <<now, to, readAt, counted>>

FlippableAnyway(r) == {note[r]} \intersect Readable(who[r])
Flippable(r) == {note[r]} \intersect {n \in Readable(who[r]) : readAt[n] = 0}

\* The guarded updateMany; count 0 answers with the row found before.
FlipOne(r) ==
    /\ at[r] = "flip"
    /\ Flip(Flippable(r), who[r])
    /\ Goto(r, IF Flippable(r) = {} THEN "answer" ELSE "reread")
    /\ UNCHANGED <<now, to, who, note, shown>>

ShowsNow(r) == now
Shows(r) == readAt[note[r]]

Reread(r) ==
    /\ at[r] = "reread"
    /\ shown' = [shown EXCEPT ![r] = Shows(r)]
    /\ Goto(r, "answer")
    /\ UNCHANGED <<now, to, readAt, who, note, counted>>

\* The answer leaves; or, anywhere before it, the request dies.
Leave(r) ==
    /\ at[r] # "idle"
    /\ Goto(r, "idle")
    /\ who' = [who EXCEPT ![r] = NoUser]
    /\ note' = [note EXCEPT ![r] = NoNote]
    /\ shown' = [shown EXCEPT ![r] = 0]
    /\ UNCHANGED <<now, to, readAt, counted>>

Tick ==
    /\ now < MaxTime
    /\ now' = now + 1
    /\ UNCHANGED <<to, readAt, reqVars, counted>>

Next ==
    \/ \E n \in Notes, u \in Users : Notify(n, u)
    \/ \E u \in Users : MarkAllRead(u)
    \/ \E r \in Requests, u \in Users, n \in Notes : Find(r, u, n)
    \/ \E r \in Requests : FlipOne(r) \/ Reread(r) \/ Leave(r)
    \/ Tick

Spec == Init /\ [][Next]_vars

-----------------------------------------------------------------------------
(* Properties *)

\* However calls overlap, a notification keeps the time it was first read, and
\* an answer that shows a time shows that one.
FirstReadStays ==
    [][/\ \A n \in Notes : readAt[n] # 0 => readAt'[n] = readAt[n]
       /\ \A r \in Requests :
            (at'[r] = "answer" /\ shown'[r] # 0) => shown'[r] = readAt'[note'[r]]]_vars

\* Each notification is counted as read once, by one of the overlapping calls of
\* the user it is for, so the counts a user is returned add up to what is no
\* longer unread.
CountedOnce ==
    \A u \in Users : counted[u] = Cardinality({n \in Notes : to[n] = u /\ readAt[n] # 0})
=============================================================================
