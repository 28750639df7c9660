------------------------------- MODULE Clients -------------------------------
(***************************************************************************)
(* What clients of the API see: a list read in pages (Pagination),         *)
(* notifications marked read (Notifications), and the exchange of a        *)
(* request (HttpExchange).  Each behaviour is of one of the three.  The    *)
(* other two rest: before a scan, without notifications, and after an      *)
(* exchange that went well.                                                *)
(***************************************************************************)
EXTENDS Integers

CONSTANTS
    MaxRow, Limit, Column, Sorts, Allowed,              \* of Pagination
    Notes, Users, Requests, NoNote, NoUser, MaxTime,    \* of Notifications
    Routes                                              \* of HttpExchange

VARIABLES
    client,     \* whose behaviour this is
    made, gone, read, status, order, unreadOnly, cursor, got, scanning, stable, disturbed,
    now, to, readAt, reading, who, note, shown, counted,
    route, phase, user, tenant, listening, answer, reported, answers

scan == <<made, gone, read, status, order, unreadOnly, cursor, got, scanning, stable, disturbed>>
notifications == <<now, to, readAt, reading, who, note, shown, counted>>
exchange == <<route, phase, user, tenant, listening, answer, reported, answers>>
all == <<client, scan, notifications, exchange>>

Paging == INSTANCE Pagination WITH at <- scanning
Reading == INSTANCE Notifications WITH at <- reading
Exchange == INSTANCE HttpExchange WITH stage <- phase

ASSUME ClientsOK ==
    /\ Paging!ConstantsOK /\ Reading!ConstantsOK /\ Exchange!RoutesOK
    /\ "open" \in Routes

-----------------------------------------------------------------------------

ScanRests == Paging!Init /\ made = 0 /\ status = [n \in Paging!Rows |-> 0]

ExchangeOver ==
    /\ route = "open" /\ phase = "over"
    /\ user = FALSE /\ tenant = FALSE /\ listening = FALSE
    /\ answer = [status |-> 200, shape |-> "envelope"] /\ answers = 1
    /\ reported = FALSE

ClientsInit ==
    /\ Reading!Init
    /\ \/ client = "scan" /\ Paging!Init /\ ExchangeOver
       \/ client = "reading" /\ ScanRests /\ ExchangeOver
       \/ client = "exchange" /\ ScanRests /\ Exchange!Init

ClientsNext ==
    /\ UNCHANGED client
    /\ \/ client = "scan" /\ Paging!Next /\ UNCHANGED <<notifications, exchange>>
       \/ client = "reading" /\ Reading!Next /\ UNCHANGED <<scan, exchange>>
       \/ client = "exchange" /\ Exchange!Next /\ UNCHANGED <<scan, notifications>>

ClientsSpec == ClientsInit /\ [][ClientsNext]_all

-----------------------------------------------------------------------------
(* The properties of the three, where the reasons for them are *)

\* The types of all variables.
TypesOK == Paging!TypeOK /\ Reading!TypeOK /\ Exchange!TypeOK

\* While every row a cursor names stays where it was, a scan returns each row that
\* was there from its start exactly once.
EveryRowOnce == Paging!EveryRowOnce

\* A notification is counted as read once, by one of its own user's overlapping
\* calls.
CountedOnce == Reading!CountedOnce

\* A notification keeps the time it was first read, and answers show that one.
FirstReadStays == Reading!FirstReadStays

\* A request is answered once, timeout and late handler or not, and operators hear
\* of exactly the failures the clients are told of.
OneAnswer == Exchange!OneAnswer

\* Whatever its handler does, a request is answered.
EveryRequestIsAnswered == Exchange!EveryRequestIsAnswered
=============================================================================
