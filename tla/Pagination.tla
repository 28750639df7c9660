----------------------------- MODULE Pagination -----------------------------
(***************************************************************************)
(* Cursor pagination of the list endpoints: a client fetches page after    *)
(* page while rows come, go and change (pagination.ts, and list() of the   *)
(* files, audits and notifications services, which share its shape).       *)
(* Prisma's part, external: a cursor names the row the page starts at, in  *)
(* the order asked for and whether or not that row matches; `skip` drops   *)
(* rows from there; a cursor whose row is gone gives no rows.              *)
(* A definition that stands just above another and extends its name is a   *)
(* slip that definition must not make, for mutation runs.                  *)
(***************************************************************************)
EXTENDS Integers, Sequences, FiniteSets

CONSTANTS
    MaxRow,     \* bound on the rows ever made
    Limit,      \* query.limit
    Column,     \* the columns that never change: by field and row, its rank
    Sorts,      \* `sort` parameters: [field, desc]
    Allowed     \* SORTABLE_FIELDS

Rows == 1 .. MaxRow     \* uuid v7: ids grow with time
NoCursor == 0

\* What the constants are; the module that gives them values assumes it.
ConstantsOK ==
    /\ MaxRow \in Nat /\ Limit \in Nat \ {0}
    /\ Column \in [DOMAIN Column -> [Rows -> Int]]
    /\ Sorts \subseteq [field : STRING, desc : BOOLEAN]
    /\ Allowed \subseteq DOMAIN Column \union {"status"} /\ "createdAt" \in Allowed

VARIABLES
    made,       \* rows 1 .. made were inserted
    gone,       \* those deleted
    read,       \* those the unread filter excludes
    status,     \* a column that changes
    order,      \* the orderBy of the scan
    unreadOnly, \* its filter
    cursor,     \* nextCursor of the last page
    got,        \* items of all pages so far
    at,         \* "idle", "scan" or "end"
    \* History, read by the properties only:
    stable,     \* rows that were there, matched and kept their key since the scan began
    disturbed   \* a cursor's row was gone, excluded or moved when it was used

tableVars == <<made, gone, read, status>>
scanVars == <<order, unreadOnly, cursor, got, at>>
vars == <<tableVars, scanVars, stable, disturbed>>

Present == (1 .. made) \ gone

Value(field, n) == IF field = "status" THEN status[n] ELSE Column[field][n]

Fallback == [field |-> "createdAt", desc |-> TRUE]

parseSort(sort) == IF sort.field \in Allowed THEN sort ELSE Fallback

TypeOK ==
    /\ made \in 0 .. MaxRow
    /\ gone \in SUBSET Rows /\ read \in SUBSET Rows
    /\ status \in [Rows -> {0, 1}]
    /\ order \in Sorts \union {Fallback} /\ order.field \in Allowed
    /\ unreadOnly \in BOOLEAN
    /\ cursor \in Rows \union {NoCursor}
    /\ got \in Seq(Rows)
    /\ at \in {"idle", "scan", "end"}
    /\ stable \in SUBSET Rows
    /\ disturbed \in BOOLEAN

Init ==
    /\ made \in 0 .. MaxRow
    /\ gone = {} /\ read = {}
    /\ status \in [Rows -> {0, 1}]
    /\ order = Fallback /\ unreadOnly = FALSE
    /\ cursor = NoCursor /\ got = <<>> /\ at = "idle"
    /\ stable = {} /\ disturbed = FALSE

-----------------------------------------------------------------------------
(* A page *)

\* The orderBy: the field, then id descending.
BeforeByField(o, a, b) ==
    IF o.desc THEN Value(o.field, a) > Value(o.field, b)
              ELSE Value(o.field, a) < Value(o.field, b)
Before(o, a, b) ==
    \/ BeforeByField(o, a, b)
    \/ Value(o.field, a) = Value(o.field, b) /\ a > b

Matching == IF unreadOnly THEN Present \ read ELSE Present

\* skip: 1, when there is a cursor
Skip(c) == IF c = NoCursor THEN 0 ELSE 1

\* The rows of S by the orderBy.
InOrder(S) ==
    CHOOSE s \in [1 .. Cardinality(S) -> S] :
        \A i, j \in DOMAIN s : i < j => s[i] # s[j] /\ ~Before(order, s[j], s[i])

\* findMany's rows, from the cursor's place on and without the skipped one.
Found(c) ==
    LET from == IF c = NoCursor THEN Matching
                ELSE IF c \in Present THEN {n \in Matching : ~Before(order, n, c)}
                ELSE {}
        sorted == InOrder(from)
    IN  SubSeq(sorted, 1 + Skip(c), Len(sorted))

FirstOf(s, n) == SubSeq(s, 1, IF n <= Len(s) THEN n ELSE Len(s))

Take == Limit + 1

\* The page: the items, and whether a further page exists.
Page(c) ==
    LET rows == FirstOf(Found(c), Take)
    IN  [items |-> FirstOf(rows, Limit), hasMore |-> Len(rows) > Limit]

-----------------------------------------------------------------------------
(* The client *)

Begin(s, u) ==
    /\ at = "idle"
    /\ order' = parseSort(s)
    /\ unreadOnly' = u
    /\ at' = "scan"
    /\ stable' = IF u THEN Present \ read ELSE Present
    /\ UNCHANGED <<tableVars, cursor, got, disturbed>>

\* The next request carries the last page's nextCursor.
Fetch ==
    /\ at = "scan"
    /\ LET page == Page(cursor)
           items == page.items
       IN  /\ got' = got \o items
           /\ cursor' = IF page.hasMore THEN items[Len(items)] ELSE NoCursor
           /\ at' = IF page.hasMore THEN "scan" ELSE "end"
           /\ disturbed' = (disturbed \/ (cursor # NoCursor /\ cursor \notin stable))
    /\ UNCHANGED <<tableVars, order, unreadOnly, stable>>

-----------------------------------------------------------------------------
(* Meanwhile: changes before the scan are in the initial states. *)

Unstable(n) ==
    /\ stable' = stable \ {n}
    /\ UNCHANGED <<scanVars, disturbed>>

Insert ==
    /\ at = "scan"
    /\ made < MaxRow
    /\ made' = made + 1
    /\ UNCHANGED <<gone, read, status, scanVars, stable, disturbed>>

Delete(n) ==
    /\ at = "scan"
    /\ n \in Present
    /\ gone' = gone \union {n}
    /\ Unstable(n)
    /\ UNCHANGED <<made, read, status>>

\* A notification is read: the filter excludes it from now on.  (Without the
\* filter, no page tells.)
Read(n) ==
    /\ at = "scan" /\ unreadOnly
    /\ n \in Present \ read
    /\ read' = read \union {n}
    /\ Unstable(n)
    /\ UNCHANGED <<made, gone, status>>

\* An audit moves on, and its place with it.  (In another order, no page tells.)
ChangeStatus(n) ==
    /\ at = "scan" /\ order.field = "status"
    /\ n \in Present /\ status[n] = 0
    /\ status' = [status EXCEPT ![n] = 1]
    /\ Unstable(n)
    /\ UNCHANGED <<made, gone, read>>

Next ==
    \/ \E s \in Sorts, u \in BOOLEAN : Begin(s, u)
    \/ Fetch
    \/ Insert
    \/ \E n \in Rows : Delete(n) \/ Read(n) \/ ChangeStatus(n)

Spec == Init /\ [][Next]_vars

-----------------------------------------------------------------------------
(* Properties *)

Times(n) == {i \in DOMAIN got : got[i] = n}

\* "resilient to inserts/deletes between pages" (pagination.ts:13): while every
\* row a cursor names stays where it was, a scan returns each row that was there
\* from its start exactly once, whatever else comes, goes or moves.
EveryRowOnce ==
    ~disturbed =>
        /\ \A n \in stable : \A i, j \in Times(n) : i = j
        /\ at = "end" => \A n \in stable : Times(n) # {}
=============================================================================
