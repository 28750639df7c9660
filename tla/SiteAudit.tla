------------------------------ MODULE SiteAudit ------------------------------
(***************************************************************************)
(* An audit's two halves: what PageFetcher does to get the files, with the *)
(* guard and without it, and what SiteReport makes of them.  Each          *)
(* behaviour is of one half.  The other one rests at its end, where the    *)
(* fetch was refused and the report has no finding.                        *)
(***************************************************************************)
EXTENDS SiteReport

CONSTANTS
    Addresses, Refused, TimeoutMs, LookupLimit, MaxRedirects, MaxBytes, MaxSize,
    NoAddress       \* of PageFetcher, where Refused is Blocked

VARIABLES half, allowPrivate, at, hop, spent, pinned, size, total, connected, elapsed

fetch == <<allowPrivate, at, hop, spent, pinned, size, total, connected, elapsed>>
all == <<page, half, fetch>>

Fetcher == INSTANCE PageFetcher WITH Blocked <- Refused

ASSUME SiteAuditOK == PagesOK /\ Fetcher!ConstantsOK

-----------------------------------------------------------------------------

\* A page without a finding; any robots.txt before it, and any page without one.
CleanPage ==
    /\ scripts = 0 /\ text = 200 /\ blocks = {Organization}
    /\ title = 10 /\ description = 50 /\ og = TRUE
    /\ author = TRUE /\ date = TRUE /\ llms = "present"

FetchOver ==
    /\ allowPrivate = FALSE
    /\ at = [f \in Fetcher!Targets |-> IF f = "homepage" THEN "null" ELSE "waiting"]
    /\ connected = [f \in Fetcher!Targets |-> NoAddress] /\ pinned = connected
    /\ hop = [f \in Fetcher!Targets |-> 0]
    /\ spent = hop /\ size = hop /\ total = hop /\ elapsed = 0

AuditInit ==
    \/ half = "report" /\ FetchOver /\ (CleanPage \/ robots = <<>>) /\ Init
    \/ half = "fetch" /\ Fetcher!Init /\ CleanPage /\ robots = <<>>

AuditNext ==
    /\ UNCHANGED half
    /\ \/ half = "report" /\ Next /\ UNCHANGED fetch
       \/ half = "fetch" /\ Fetcher!Next /\ UNCHANGED page

AuditSpec == AuditInit /\ [][AuditNext]_all

-----------------------------------------------------------------------------
(* The properties of PageFetcher, where the reasons for them are *)

\* With the guard, every connection goes to an address that was approved for that
\* hop, whatever the name resolves to meanwhile.
ConnectsWhereApproved == Fetcher!ConnectsWhereApproved

\* Its variables keep their types, redirects among them their limit; a fetch takes
\* at most two rounds of hops, and a body whole, within the cap, or not at all.
FetchIsBounded == Fetcher!TypeOK /\ Fetcher!FetchIsBounded

\* Every fetch of an audit ends.
FetchEnds == Fetcher!FetchEnds
=============================================================================
